---------------------------- MODULE SnooperProofs ----------------------------
(***************************************************************************)
(* The alarm of the tag analyser, the order of the trace and the times of  *)
(* the commands, for any set of tags, sizes of the fifos and traffic on    *)
(* the bus.                                                                *)
(*                                                                         *)
(* The alarm: until a tag is misused, the tags tracked are those in use    *)
(* and the one answered a clock ago, which is not issued again so soon     *)
(* (Rest).                                                                 *)
(*                                                                         *)
(* The trace: the words printed, the one the program is given, the one at  *)
(* the fifo's output, those in its memory and the one about to be written  *)
(* are in the order of the bus; the memory has always a free word; and a   *)
(* word is lost in two ways, each of which is counted.                     *)
(*                                                                         *)
(* The times: every register between a response and the last fifo holds    *)
(* the time at a known place of the history of times taken, so that what   *)
(* is printed, given to the program or in that fifo is found at increasing *)
(* places of it; and a time is lost in two ways, each of which is counted. *)
(***************************************************************************)
EXTENDS SnooperProps, FiniteSetTheorems, TLAPS

Ages == [Tags -> Nat \cup {None}]

Tracked ==
  /\ tag.track = {i \in Tags : InUse(i) \/ i = tag.rtag_d}
  /\ tag.alarm = {}
  /\ tag.rtag_d # None => ~InUse(tag.rtag_d) /\ bus.rest[tag.rtag_d] < 2

(* Raised, or about to be for the response of the last clock.              *)
Raised == tag.alarm # {} \/ tag.rtag_d \in Tags \ tag.track

IInv ==
  tag_anal_en =>
    /\ tag.track \subseteq Tags /\ tag.rtag_d \in Tags \cup {None}
    /\ bus.age \in Ages /\ bus.rest \in [Tags -> Nat]
    /\ ~bus.wrong => Tracked
    /\ bus.wrong => Raised

-----------------------------------------------------------------------------
(* In every step the hardware sees one clock edge.                         *)
LEMMA NextIsClock == Next => Clock
  BY DEF Next, Idle, Reading, Access, DumpWord, DumpEnds, StatsExtreme, StatsTime,
         StatsEnds, snooper_tag_alert, Call

(* The registers of a clock edge that track tags.                          *)
LEMMA EdgeTracks ==
  ASSUME NEW t, NEW c, NEW r, NEW x
  PROVE  /\ A!TagEdge(t, c, r, x).track = A!Track(t, c, r)
         /\ A!TagEdge(t, c, r, x).rtag_d = r
         /\ A!TagEdge(t, c, r, x).alarm = A!Alarm(t, c)
  BY DEF A!TagEdge

(* What the bus does to the tags in use, and when one is misused.          *)
LEMMA BusMoves ==
  ASSUME NEW c \in Tags \cup {None}, NEW r \in Tags \cup {None}, Bus(c, r), tag_anal_en,
         bus.age \in Ages, bus.rest \in [Tags -> Nat]
  PROVE  /\ bus'.age \in Ages /\ bus'.rest \in [Tags -> Nat]
         /\ \A i \in Tags : InUse(i)' <=> IF InUse(i) THEN i # r ELSE i = c
         /\ r \in Tags /\ InUse(r) => bus'.rest[r] = 1
         /\ bus'.wrong = (bus.wrong \/ Misused(c, r))
<1>1. /\ bus'.age = [i \in Tags |->
                       IF InUse(i) THEN IF i = r THEN None ELSE bus.age[i] + 1
                       ELSE IF i = c /\ tag_anal_en THEN 1 ELSE None]
      /\ bus'.rest = [i \in Tags |->
                        IF i = r /\ InUse(i) THEN 1
                        ELSE IF bus.rest[i] = Rest THEN Rest ELSE bus.rest[i] + 1]
      /\ bus'.wrong = (bus.wrong \/ (tag_anal_en /\ Misused(c, r)))
  BY DEF Bus
<1>2. bus.age \in [Tags -> Nat \cup {None}]
  BY DEF Ages
<1>3. bus'.age \in [Tags -> Nat \cup {None}]
  <2>1. \A i \in Tags : InUse(i) => bus.age[i] \in Nat
    BY <1>2 DEF InUse
  <2>2. QED
    BY <1>1, <2>1
<1>4. bus'.rest \in [Tags -> Nat]
  BY <1>1, RestAssumption
<1>5. \A i \in Tags : InUse(i)' <=> IF InUse(i) THEN i # r ELSE i = c
  <2>1. SUFFICES ASSUME NEW i \in Tags
                 PROVE  bus'.age[i] # None <=> IF InUse(i) THEN i # r ELSE i = c
    BY DEF InUse
  <2>2. CASE InUse(i)
    BY <1>1, <1>2, <2>2, NoneAssumption DEF InUse
  <2>3. CASE ~InUse(i)
    BY <1>1, <2>3, NoneAssumption
  <2>4. QED
    BY <2>2, <2>3
<1>6. r \in Tags /\ InUse(r) => bus'.rest[r] = 1
  BY <1>1
<1>7. QED
  BY <1>1, <1>3, <1>4, <1>5, <1>6 DEF Ages

(* A clock edge keeps the tags tracked, and an alarm once raised.          *)
LEMMA ClockKeeps ==
  ASSUME IInv, Clock
  PROVE  /\ IInv'
         /\ tag_anal_en => /\ bus.wrong => A!TagAlert(tag')
                           /\ A!TagAlert(tag') => bus'.wrong
<1>1. CASE ~tag_anal_en
  BY <1>1 DEF Clock, IInv
<1>2. CASE tag_anal_en
  <2>1. PICK c, r : c \in Tags \cup {None} /\ r \in Tags \cup {None} /\ Bus(c, r) /\ Hardware(c, r)
    BY DEF Clock
  <2>2. /\ tag.track \subseteq Tags /\ tag.rtag_d \in Tags \cup {None}
        /\ bus.age \in Ages /\ bus.rest \in [Tags -> Nat]
        /\ ~bus.wrong => Tracked
        /\ bus.wrong => Raised
    BY <1>2 DEF IInv
  <2>3. /\ tag'.track = (tag.track \cup ({c} \ {None})) \ {tag.rtag_d}
        /\ tag'.rtag_d = r
        /\ tag'.alarm = tag.alarm \cup
             {i \in Tags : (i = c /\ i \in tag.track) \/ (i = tag.rtag_d /\ i \notin tag.track)}
    BY <1>2, <2>1, EdgeTracks DEF Hardware, A!Track, A!Alarm
  <2>4. /\ bus'.age \in Ages /\ bus'.rest \in [Tags -> Nat]
        /\ \A i \in Tags : InUse(i)' <=> IF InUse(i) THEN i # r ELSE i = c
        /\ r \in Tags /\ InUse(r) => bus'.rest[r] = 1
        /\ bus'.wrong = (bus.wrong \/ Misused(c, r))
    BY <1>2, <2>1, <2>2, BusMoves
  <2>5. /\ c = r => c = None
        /\ c # None => InUse(c) \/ bus.rest[c] >= Rest
    BY <2>1 DEF Bus, MayCommand
  <2>6. tag'.track \subseteq Tags /\ tag'.rtag_d \in Tags \cup {None}
    BY <2>1, <2>2, <2>3
  <2>7. ASSUME bus.wrong
        PROVE  bus'.wrong /\ tag'.alarm # {}
    BY <2>2, <2>3, <2>4, <2>7 DEF Raised
  <2>8. ASSUME ~bus.wrong, Misused(c, r)
        PROVE  bus'.wrong /\ Raised'
    <3>1. CASE c # None /\ InUse(c)
      BY <2>1, <2>2, <2>3, <2>4, <2>8, <3>1 DEF Tracked, Raised
    <3>2. CASE r # None /\ ~InUse(r)
      BY <2>1, <2>2, <2>3, <2>4, <2>5, <2>8, <3>2 DEF Tracked, Raised
    <3>3. QED
      BY <2>8, <3>1, <3>2 DEF Misused
  <2>9. ASSUME ~bus.wrong, ~Misused(c, r)
        PROVE  ~bus'.wrong /\ Tracked'
    <3>1. /\ c # None => c # tag.rtag_d /\ ~InUse(c)
          /\ r # None => InUse(r)
      BY <2>1, <2>2, <2>5, <2>9, RestAssumption DEF Tracked, Misused
    <3>2. tag'.alarm = {}
      BY <2>1, <2>2, <2>3, <2>9, <3>1, NoneAssumption DEF Tracked
    <3>3. tag'.track = {i \in Tags : InUse(i)' \/ i = r}
      BY <2>1, <2>2, <2>3, <2>4, <2>5, <2>9, <3>1, NoneAssumption DEF Tracked
    <3>4. r # None => ~InUse(r)' /\ bus'.rest[r] < 2
      BY <2>1, <2>4, <3>1
    <3>5. QED
      BY <2>3, <2>4, <2>9, <3>2, <3>3, <3>4 DEF Tracked
  <2>10. tag_anal_en'
    BY <1>2 DEF Clock
  <2>11. IInv'
    BY <2>4, <2>6, <2>7, <2>8, <2>9, <2>10 DEF IInv, Raised
  <2>12. /\ bus.wrong => A!TagAlert(tag')
         /\ A!TagAlert(tag') => bus'.wrong
    BY <2>7, <2>8, <2>9 DEF A!TagAlert, Tracked
  <2>13. QED
    BY <2>11, <2>12
<1>3. QED
  BY <1>1, <1>2

(* The inductive invariant of the alarm.                                   *)
LEMMA InvariantHolds == Spec => []IInv
<1>1. Init => IInv
  BY RestAssumption, NoneAssumption
  DEF Init, IInv, Tracked, InUse, Ages, A!TagInit
<1>2. ASSUME IInv, [Next]_vars
      PROVE  IInv'
  <2>1. CASE Next
    BY <1>2, <2>1, NextIsClock, ClockKeeps
  <2>2. CASE UNCHANGED vars
    BY <1>2, <2>2 DEF vars, hardware, IInv, Tracked, Raised, InUse
  <2>3. QED
    BY <1>2, <2>1, <2>2
<1>3. QED
  BY <1>1, <1>2, PTL DEF Spec

(* For any number of tags: the alarm of tag_anal.vhd is up a clock after a *)
(* tag in use was issued again, or one not in use answered, and it stays   *)
(* up; as long as nothing of the kind happens it does not go off, if tags  *)
(* rest before they are used again.                                        *)
THEOREM AlarmsAreTrue == Spec => AlarmsTrue
<1>1. IInv /\ [Next]_vars =>
        [tag_anal_en => /\ bus.wrong => A!TagAlert(tag')
                        /\ A!TagAlert(tag') => bus'.wrong]_vars
  BY NextIsClock, ClockKeeps
<1>2. QED
  BY <1>1, InvariantHolds, PTL DEF Spec, AlarmsTrue

-----------------------------------------------------------------------------
(* A fifo with n words of memory as a row of words.                        *)

(* The words in the memory of a fifo, the oldest first.                    *)
Addresses(n) == 0 .. n - 1
Count(n, f) == (f.waddr - f.raddr) % n
Held(n, f, k) == f.mem[(f.raddr + k) % n]
One(b) == IF b THEN 1 ELSE 0

(* The registers of a fifo, as long as its memory never gets full.         *)
Ring(n, f) ==
  /\ f.raddr \in Addresses(n) /\ f.waddr \in Addresses(n)
  /\ f.mem = [a \in Addresses(n) |-> f.mem[a]]
  /\ f.empty \in BOOLEAN /\ f.full \in BOOLEAN /\ f.valid \in BOOLEAN
  /\ f.empty <=> Count(n, f) = 0

(* FifoEdge, for any number of words and any slack.                        *)
Edge(n, slack, f, w, rd) ==
  LET pop == F!FifoPop(f, rd)
      raddr == IF pop THEN (f.raddr + 1) % n ELSE f.raddr
  IN  [mem   |-> IF w = None THEN f.mem ELSE [f.mem EXCEPT ![f.waddr] = w],
       waddr |-> IF w = None THEN f.waddr ELSE (f.waddr + 1) % n,
       raddr |-> raddr,
       empty |-> w = None /\ (f.empty \/ (pop /\ raddr = f.waddr)),
       full  |-> (f.raddr - f.waddr - 1) % n <= slack,
       valid |-> pop \/ (f.valid /\ ~rd),
       data  |-> IF pop THEN f.mem[f.raddr] ELSE f.data]

(* How far w is from r in a ring of n, and what becomes of a sum there.    *)
Away(n, r, w) == IF w >= r THEN w - r ELSE w - r + n
Wrap(n, x) == IF x < n THEN x ELSE x - n

(* Addresses that wrap.                                                    *)
LEMMA Place ==
  ASSUME NEW n \in Nat \ {0}, NEW r \in Addresses(n), NEW k \in Addresses(n)
  PROVE  /\ (r + k) % n = Wrap(n, r + k)
         /\ (r + k) % n \in Addresses(n)
<1>0. n \in Nat \ {0} /\ r \in 0 .. n - 1 /\ k \in 0 .. n - 1
  BY DEF Addresses
<1>1. ASSUME r + k < n PROVE (r + k) % n = r + k
  BY <1>0, <1>1
<1>2. ASSUME ~(r + k < n) PROVE (r + k) % n = r + k - n
  BY <1>0, <1>2
<1>3. (r + k) % n \in 0 .. n - 1
  BY <1>0
<1>4. (r + k) % n = Wrap(n, r + k)
  <2>1. CASE r + k < n
    BY <1>1, <2>1 DEF Wrap
  <2>2. CASE ~(r + k < n)
    BY <1>0, <1>2, <2>2 DEF Wrap
  <2> QED BY <2>1, <2>2
<1> QED BY <1>3, <1>4 DEF Addresses

(* The distance between two addresses, and the one full is made from.      *)
LEMMA Apart ==
  ASSUME NEW n \in Nat \ {0}, NEW r \in Addresses(n), NEW w \in Addresses(n)
  PROVE  /\ (w - r) % n = Away(n, r, w)
         /\ (w - r) % n \in Addresses(n)
         /\ (r - w - 1) % n = n - 1 - ((w - r) % n)
<1>0. n \in Nat \ {0} /\ r \in 0 .. n - 1 /\ w \in 0 .. n - 1
  BY DEF Addresses
<1>1. ASSUME w >= r PROVE (w - r) % n = w - r /\ (r - w - 1) % n = n + (r - w - 1)
  BY <1>0, <1>1
<1>2. ASSUME ~(w >= r) PROVE (w - r) % n = w - r + n /\ (r - w - 1) % n = r - w - 1
  BY <1>0, <1>2
<1>3. (w - r) % n \in 0 .. n - 1
  BY <1>0
<1>4. (r - w - 1) % n = n - 1 - ((w - r) % n)
  <2>1. CASE w >= r
    BY <1>0, <1>1, <2>1
  <2>2. CASE ~(w >= r)
    BY <1>0, <1>2, <2>2
  <2> QED BY <2>1, <2>2
<1>5. (w - r) % n = Away(n, r, w)
  BY <1>1, <1>2 DEF Away
<1> QED BY <1>3, <1>4, <1>5 DEF Addresses

(* The distance when i words leave and o words enter, where the k-th word  *)
(* is then, and where the word that enters is put.                         *)
LEMMA AwayMoves ==
  ASSUME NEW n \in Nat, n >= 2, NEW r \in 0 .. n - 1, NEW w \in 0 .. n - 1,
         NEW i \in {0, 1}, NEW o \in {0, 1},
         i <= Away(n, r, w), Away(n, r, w) + o < n
  PROVE  /\ Away(n, Wrap(n, r + i), Wrap(n, w + o)) = Away(n, r, w) - i + o
         /\ \A k \in 0 .. n - 1 : k + i < n =>
              Wrap(n, Wrap(n, r + i) + k) = Wrap(n, r + (k + i))
         /\ \A k \in 0 .. n - 1 : Wrap(n, r + k) = w <=> k = Away(n, r, w)
<1>1. Away(n, Wrap(n, r + i), Wrap(n, w + o)) = Away(n, r, w) - i + o
  <2>1. CASE i = 0 /\ o = 0
    BY <2>1 DEF Away, Wrap
  <2>2. CASE i = 0 /\ o = 1
    BY <2>2 DEF Away, Wrap
  <2>3. CASE i = 1 /\ o = 0
    BY <2>3 DEF Away, Wrap
  <2>4. CASE i = 1 /\ o = 1
    BY <2>4 DEF Away, Wrap
  <2> QED BY <2>1, <2>2, <2>3, <2>4
<1>2. ASSUME NEW k \in 0 .. n - 1, k + i < n
      PROVE  Wrap(n, Wrap(n, r + i) + k) = Wrap(n, r + (k + i))
  <2>1. CASE i = 0
    BY <2>1 DEF Wrap
  <2>2. CASE i = 1
    BY <1>2, <2>2 DEF Wrap
  <2> QED BY <2>1, <2>2
<1>3. ASSUME NEW k \in 0 .. n - 1
      PROVE  Wrap(n, r + k) = w <=> k = Away(n, r, w)
  BY DEF Wrap, Away
<1> QED BY <1>1, <1>2, <1>3

(* A clock edge of sync_fifo_fwft.vhd that does not fill the memory: the   *)
(* oldest word may move to the output, the one written becomes the newest. *)
Stepped(n, slack, f, w, rd, g) ==
  LET p == F!FifoPop(f, rd)
  IN  /\ Ring(n, g)
      /\ Count(n, f) \in Nat /\ Count(n, g) = Count(n, f) - One(p) + One(w # None)
      /\ \A k \in 0 .. Count(n, g) - 1 :
           /\ k + One(p) < Count(n, f) => Held(n, g, k) = Held(n, f, k + One(p))
           /\ ~(k + One(p) < Count(n, f)) => Held(n, g, k) = w
      /\ p => Count(n, f) > 0
      /\ g.valid <=> p \/ (f.valid /\ ~rd)
      /\ p => g.data = Held(n, f, 0)
      /\ ~p => g.data = f.data
      /\ g.full <=> n - 1 - Count(n, f) <= slack

LEMMA FifoStep ==
  ASSUME NEW n \in Nat, n >= 2, NEW slack, NEW f, Ring(n, f), NEW w, NEW rd \in BOOLEAN,
         Count(n, f) + One(w # None) < n
  PROVE  Stepped(n, slack, f, w, rd, Edge(n, slack, f, w, rd))
<1> DEFINE g == Edge(n, slack, f, w, rd)
           p == F!FifoPop(f, rd)
<1>0. n \in Nat /\ n >= 2 /\ n \in Nat \ {0} /\ Addresses(n) = 0 .. n - 1
  BY DEF Addresses
<1>1. /\ f.raddr \in Addresses(n) /\ f.waddr \in Addresses(n)
      /\ f.mem = [a \in Addresses(n) |-> f.mem[a]]
  BY DEF Ring
<1>2. /\ g.mem = IF w = None THEN f.mem ELSE [f.mem EXCEPT ![f.waddr] = w]
      /\ g.waddr = IF w = None THEN f.waddr ELSE (f.waddr + 1) % n
      /\ g.raddr = IF p THEN (f.raddr + 1) % n ELSE f.raddr
      /\ g.empty = (w = None /\ (f.empty \/ (p /\ g.raddr = f.waddr)))
      /\ g.full = ((f.raddr - f.waddr - 1) % n <= slack)
      /\ g.valid = (p \/ (f.valid /\ ~rd))
      /\ g.data = IF p THEN f.mem[f.raddr] ELSE f.data
  BY DEF Edge
<1>3. /\ Count(n, f) = Away(n, f.raddr, f.waddr)
      /\ Count(n, f) \in Addresses(n)
      /\ (f.raddr - f.waddr - 1) % n = n - 1 - Count(n, f)
  BY <1>1, <1>0, Apart DEF Count
<1>4. p \in BOOLEAN /\ (p => Count(n, f) > 0)
  <2>1. p <=> (~f.valid \/ rd) /\ ~f.empty
    BY DEF F!FifoPop
  <2>2. p => Count(n, f) # 0
    BY <2>1 DEF Ring
  <2>3. p => Count(n, f) > 0
    BY <1>0, <1>3, <2>2
  <2> QED BY <2>1, <2>3 DEF F!FifoPop, Ring
<1> DEFINE i == One(p)
           o == One(w # None)
<1>a. /\ i \in {0, 1} /\ (p => i = 1) /\ (~p => i = 0)
      /\ o \in {0, 1} /\ (w # None => o = 1) /\ (w = None => o = 0)
      /\ Count(n, f) + o < n
  BY DEF One
<1>b. Count(n, f) \in Nat /\ Count(n, f) < n /\ f.raddr \in 0 .. n - 1 /\ f.waddr \in 0 .. n - 1
  BY <1>0, <1>1, <1>3
<1> HIDE DEF g, p, i, o
<1>5. /\ g.raddr \in Addresses(n) /\ g.waddr \in Addresses(n)
      /\ g.raddr = Wrap(n, f.raddr + i) /\ g.waddr = Wrap(n, f.waddr + o)
  <2>1. ASSUME NEW x \in Addresses(n)
        PROVE  /\ (x + 1) % n = Wrap(n, x + 1) /\ (x + 1) % n \in Addresses(n)
               /\ Wrap(n, x + 0) = x
    <3>1. 1 \in Addresses(n) /\ x \in 0 .. n - 1
      BY <1>0
    <3>2. /\ (x + 1) % n = Wrap(n, x + 1)
          /\ (x + 1) % n \in Addresses(n)
      BY <3>1, <1>0, Place
    <3>3. Wrap(n, x + 0) = x
      BY <1>0, <3>1 DEF Wrap
    <3> QED BY <3>2, <3>3
  <2>2. g.raddr \in Addresses(n) /\ g.raddr = Wrap(n, f.raddr + i)
    <3>1. CASE p
      BY <1>1, <1>2, <1>a, <2>1, <3>1
    <3>2. CASE ~p
      BY <1>1, <1>2, <1>a, <2>1, <3>2
    <3> QED BY <3>1, <3>2
  <2>3. g.waddr \in Addresses(n) /\ g.waddr = Wrap(n, f.waddr + o)
    <3>1. CASE w # None
      BY <1>1, <1>2, <1>a, <2>1, <3>1
    <3>2. CASE w = None
      BY <1>1, <1>2, <1>a, <2>1, <3>2
    <3> QED BY <3>1, <3>2
  <2> QED BY <2>2, <2>3
<1>6. /\ Count(n, g) = Away(n, g.raddr, g.waddr)
      /\ Count(n, g) \in Addresses(n)
  <2>1. /\ (g.waddr - g.raddr) % n = Away(n, g.raddr, g.waddr)
        /\ (g.waddr - g.raddr) % n \in Addresses(n)
    BY <1>5, <1>0, Apart
  <2> QED BY <2>1 DEF Count
<1>c. /\ Count(n, f) = Away(n, f.raddr, f.waddr) /\ i <= Count(n, f)
  BY <1>3, <1>4, <1>a, <1>b
<1>d. /\ Count(n, g) = Count(n, f) - i + o
      /\ \A k \in 0 .. n - 1 : k + i < n =>
              Wrap(n, g.raddr + k) = Wrap(n, f.raddr + (k + i))
      /\ \A k \in 0 .. n - 1 : Wrap(n, f.raddr + k) = f.waddr <=> k = Count(n, f)
  <2>1. /\ n >= 2 /\ i <= Away(n, f.raddr, f.waddr) /\ Away(n, f.raddr, f.waddr) + o < n
    BY <1>0, <1>a, <1>c
  <2>2. n \in Nat /\ f.raddr \in 0 .. n - 1 /\ f.waddr \in 0 .. n - 1
        /\ i \in {0, 1} /\ o \in {0, 1}
    BY <1>0, <1>a, <1>b
  <2>3. /\ Away(n, Wrap(n, f.raddr + i), Wrap(n, f.waddr + o)) = Away(n, f.raddr, f.waddr) - i + o
        /\ \A k \in 0 .. n - 1 : k + i < n =>
              Wrap(n, Wrap(n, f.raddr + i) + k) = Wrap(n, f.raddr + (k + i))
        /\ \A k \in 0 .. n - 1 : Wrap(n, f.raddr + k) = f.waddr <=> k = Away(n, f.raddr, f.waddr)
    BY <2>1, <2>2, AwayMoves
  <2> QED BY <1>5, <1>6, <1>c, <2>3
<1>7. Count(n, g) = Count(n, f) - i + o
  BY <1>d
<1>8. g.mem = [a \in Addresses(n) |-> g.mem[a]]
  BY <1>1, <1>2
<1>9. g.empty <=> Count(n, g) = 0
  <2>1. f.empty <=> Count(n, f) = 0
    BY DEF Ring
  <2>2. CASE w # None
    <3>1. ~g.empty
      BY <1>2, <2>2
    <3>2. Count(n, g) = Count(n, f) - i + 1 /\ i <= Count(n, f)
      BY <1>7, <1>a, <1>c, <2>2
    <3> QED BY <1>a, <1>b, <3>1, <3>2
  <2>3. CASE w = None /\ ~p
    <3>1. g.empty <=> f.empty
      BY <1>2, <2>3
    <3>2. Count(n, g) = Count(n, f)
      BY <1>7, <1>a, <1>b, <2>3
    <3> QED BY <2>1, <3>1, <3>2
  <2>4. CASE w = None /\ p
    <3>0. ~f.empty
      BY <1>4, <1>b, <2>1, <2>4
    <3>1. g.empty <=> g.raddr = f.waddr
      BY <1>2, <2>4, <3>0
    <3>2. Count(n, g) = 0 <=> g.raddr = g.waddr
      BY <1>0, <1>5, <1>6 DEF Away
    <3>3. g.waddr = f.waddr
      BY <1>2, <2>4
    <3> QED BY <3>1, <3>2, <3>3
  <2> QED BY <2>2, <2>3, <2>4
<1>10. ASSUME NEW k \in 0 .. Count(n, g) - 1
       PROVE  /\ k + i < Count(n, f) => Held(n, g, k) = Held(n, f, k + i)
              /\ ~(k + i < Count(n, f)) => Held(n, g, k) = w
  <2> DEFINE j == k + i
  <2>0. k \in Addresses(n) /\ k \in Nat /\ k < Count(n, g) /\ k < n
    BY <1>0, <1>6
  <2>1. j \in Nat /\ j < Count(n, f) + o /\ j \in Addresses(n) /\ j < n
    BY <1>0, <1>a, <1>b, <1>7, <2>0
  <2> DEFINE a == Wrap(n, f.raddr + j)
  <2>2. (g.raddr + k) % n = a
    <3>1. (g.raddr + k) % n = Wrap(n, g.raddr + k)
      BY <1>5, <2>0, <1>0, Place
    <3> QED BY <1>0, <1>d, <2>0, <2>1, <3>1
  <2>3. (f.raddr + j) % n = a /\ a \in Addresses(n)
    BY <1>1, <2>1, <1>0, Place
  <2>4. Held(n, g, k) = g.mem[a] /\ Held(n, f, j) = f.mem[a]
    BY <2>2, <2>3 DEF Held
  <2>5. a = f.waddr <=> j = Count(n, f)
    BY <1>0, <1>d, <2>1
  <2> HIDE DEF a, j
  <2>6. CASE j < Count(n, f)
    <3>1. a # f.waddr
      BY <1>b, <2>1, <2>5, <2>6
    <3>2. g.mem[a] = f.mem[a]
      BY <1>1, <1>2, <2>3, <3>1
    <3> QED BY <2>4, <2>6, <3>2 DEF j
  <2>7. CASE ~(j < Count(n, f))
    <3>1. w # None /\ j = Count(n, f)
      BY <1>a, <1>b, <2>1, <2>7
    <3>2. g.mem[a] = w
      BY <1>1, <1>2, <2>3, <2>5, <3>1
    <3> QED BY <2>4, <2>7, <3>2 DEF j
  <2> QED BY <2>6, <2>7
<1>11. g.full <=> n - 1 - Count(n, f) <= slack
  BY <1>2, <1>3 
<1>12. (p => g.data = Held(n, f, 0)) /\ (~p => g.data = f.data)
  <2>1. (f.raddr + 0) % n = f.raddr
    <3>1. 0 \in Addresses(n)
      BY <1>0
    <3>2. (f.raddr + 0) % n = Wrap(n, f.raddr + 0)
      BY <1>1, <3>1, <1>0, Place
    <3> QED BY <1>0, <1>b, <3>2 DEF Wrap
  <2> QED BY <1>2, <2>1 DEF Held
<1>13. Ring(n, g)
  <2>1. g.empty \in BOOLEAN /\ g.full \in BOOLEAN /\ g.valid \in BOOLEAN
    BY <1>2, <1>4 DEF Ring
  <2> QED BY <1>5, <1>8, <1>9, <2>1 DEF Ring
<1>14. Count(n, f) \in Nat
  BY <1>0, <1>3
<1> QED BY <1>2, <1>4, <1>7, <1>10, <1>11, <1>12, <1>13, <1>14 DEF Stepped, g, p, i, o


(* The word at the output and those in the memory, the oldest first: what  *)
(* is left of the memory being empty before the output.                    *)
Total(n, f) == One(f.valid) + Count(n, f)
Word(n, f, k) ==
  IF f.valid THEN IF k = 0 THEN f.data ELSE Held(n, f, k - 1) ELSE Held(n, f, k)

(* Seen from outside it is a queue: a read removes the word at the output, *)
(* if there is one, and nothing else gets lost or changes places.          *)
LEMMA FifoIsQueue ==
  ASSUME NEW n \in Nat, n >= 2, NEW slack, NEW f, Ring(n, f), NEW w, NEW rd \in BOOLEAN,
         NEW g, Stepped(n, slack, f, w, rd, g)
  PROVE  LET d == One(rd /\ f.valid)
             o == One(w # None)
         IN  /\ Total(n, f) \in Nat /\ Total(n, g) \in Nat /\ d <= Total(n, f)
             /\ Total(n, g) = Total(n, f) - d + o
             /\ \A k \in 0 .. Total(n, g) - 1 :
                  IF k + d < Total(n, f) THEN Word(n, g, k) = Word(n, f, k + d)
                  ELSE Word(n, g, k) = w
<1> DEFINE p == F!FifoPop(f, rd)
           d == One(rd /\ f.valid)
           o == One(w # None)
           i == One(p)
           C == Count(n, f)
           D == Count(n, g)
           T == Total(n, f)
           U == Total(n, g)
<1>1. /\ C \in Nat /\ D = C - i + o
      /\ \A k \in 0 .. D - 1 : /\ k + i < C => Held(n, g, k) = Held(n, f, k + i)
                               /\ ~(k + i < C) => Held(n, g, k) = w
      /\ p => C > 0
      /\ g.valid <=> p \/ (f.valid /\ ~rd)
      /\ p => g.data = Held(n, f, 0)
      /\ ~p => g.data = f.data
  BY DEF Stepped
<1>2. /\ f.valid \in BOOLEAN /\ g.valid \in BOOLEAN
      /\ p <=> (~f.valid \/ rd) /\ C # 0
  BY DEF Stepped, Ring, F!FifoPop
<1>3. /\ d \in {0, 1} /\ o \in {0, 1} /\ i \in {0, 1}
      /\ (p => i = 1) /\ (~p => i = 0)
      /\ (w # None => o = 1) /\ (w = None => o = 0)
  BY DEF One
<1>4. T = One(f.valid) + C /\ U = One(g.valid) + D
  BY DEF Total
<1> HIDE DEF p, i, o
<1>5. CASE f.valid /\ ~rd
  <2>1. d = 0 /\ i = 0 /\ g.valid /\ g.data = f.data /\ T = 1 + C /\ U = 1 + D /\ D = C + o
    BY <1>1, <1>2, <1>3, <1>4, <1>5 DEF One
  <2>2. ASSUME NEW k \in 0 .. U - 1
        PROVE  IF k + d < T THEN Word(n, g, k) = Word(n, f, k + d) ELSE Word(n, g, k) = w
    <3>1. CASE k = 0
      <4>1. Word(n, g, k) = g.data /\ Word(n, f, k) = f.data
        BY <1>5, <2>1, <3>1 DEF Word
      <4> HIDE DEF T, U, C, D, d
      <4> QED BY <1>1, <2>1, <3>1, <4>1
    <3>2. CASE k # 0
      <4>1. Word(n, g, k) = Held(n, g, k - 1) /\ Word(n, f, k) = Held(n, f, k - 1)
        BY <1>5, <2>1, <3>2 DEF Word
      <4> HIDE DEF T, U, C, D, d
      <4>2. k - 1 \in 0 .. D - 1 /\ k - 1 + i = k - 1 /\ k + d = k /\ (k - 1 < C <=> k < T)
        BY <1>1, <1>3, <2>1, <3>2
      <4> QED BY <1>1, <4>1, <4>2
    <3> QED BY <3>1, <3>2
  <2> HIDE DEF T, U, C, D, d
  <2>3. T \in Nat /\ U \in Nat /\ d <= T /\ U = T - d + o
    BY <1>1, <1>3, <2>1
  <2> QED BY <2>2, <2>3 DEF T, U, d, o
<1>6. CASE ~(f.valid /\ ~rd) /\ C # 0
  <2>1. /\ d = One(f.valid) /\ i = 1 /\ g.valid /\ g.data = Held(n, f, 0)
        /\ T = d + C /\ U = 1 + D /\ D = C - 1 + o
    BY <1>1, <1>2, <1>3, <1>4, <1>6 DEF One
  <2>2. ASSUME NEW k \in 0 .. U - 1
        PROVE  IF k + d < T THEN Word(n, g, k) = Word(n, f, k + d) ELSE Word(n, g, k) = w
    <3>1. Word(n, f, k + d) = Held(n, f, k)
      <4>1. CASE f.valid
        <5>1. d = 1 /\ k + d # 0 /\ k + d - 1 = k
          BY <2>1, <4>1 DEF One
        <5> HIDE DEF d
        <5> QED BY <4>1, <5>1 DEF Word
      <4>2. CASE ~f.valid
        <5>1. d = 0 /\ k + d = k
          BY <2>1, <4>2 DEF One
        <5> HIDE DEF d
        <5> QED BY <4>2, <5>1 DEF Word
      <4> QED BY <4>1, <4>2
    <3>2. CASE k = 0
      <4>1. Word(n, g, k) = g.data
        BY <2>1, <3>2 DEF Word
      <4> HIDE DEF T, U, C, D, d
      <4>2. k + d < T
        BY <1>1, <1>3, <1>6, <2>1, <3>2
      <4> QED BY <2>1, <3>1, <3>2, <4>1, <4>2
    <3>3. CASE k # 0
      <4>1. Word(n, g, k) = Held(n, g, k - 1)
        BY <2>1, <3>3 DEF Word
      <4> HIDE DEF T, U, C, D, d
      <4>2. k - 1 \in 0 .. D - 1 /\ k - 1 + i = k /\ (k < C <=> k + d < T)
        BY <1>1, <1>3, <2>1, <3>3
      <4> QED BY <1>1, <3>1, <4>1, <4>2
    <3> QED BY <3>2, <3>3
  <2> HIDE DEF T, U, C, D, d
  <2>3. T \in Nat /\ U \in Nat /\ d <= T /\ U = T - d + o
    BY <1>1, <1>3, <1>6, <2>1
  <2> QED BY <2>2, <2>3 DEF T, U, d, o
<1>7. CASE ~(f.valid /\ ~rd) /\ C = 0
  <2>1. d = One(f.valid) /\ i = 0 /\ ~g.valid /\ T = d /\ U = o /\ D = o
    BY <1>1, <1>2, <1>3, <1>4, <1>7 DEF One
  <2>2. ASSUME NEW k \in 0 .. U - 1
        PROVE  IF k + d < T THEN Word(n, g, k) = Word(n, f, k + d) ELSE Word(n, g, k) = w
    <3>1. Word(n, g, k) = Held(n, g, k)
      BY <2>1 DEF Word
    <3> HIDE DEF T, U, C, D, d
    <3>2. k \in 0 .. D - 1 /\ ~(k + i < C) /\ ~(k + d < T)
      BY <1>1, <1>3, <1>7, <2>1
    <3> QED BY <1>1, <3>1, <3>2
  <2> HIDE DEF T, U, C, D, d
  <2>3. T \in Nat /\ U \in Nat /\ d <= T /\ U = T - d + o
    BY <1>1, <1>3, <2>1
  <2> QED BY <2>2, <2>3 DEF T, U, d, o
<1> QED BY <1>5, <1>6, <1>7

(* The trace's fifo and the tag analyser's last one take such steps.       *)
LEMMA TraceFifoStep ==
  ASSUME NEW f, Ring(F!Words, f), NEW w, NEW rd \in BOOLEAN,
         Count(F!Words, f) + One(w # None) < F!Words
  PROVE  Stepped(F!Words, WriteSlack, f, w, rd, F!FifoEdge(f, FALSE, w, rd))
<1>1. F!Words \in Nat /\ F!Words >= 2
  BY TraceAssumption
<1>2. F!FifoEdge(f, FALSE, w, rd) = Edge(F!Words, WriteSlack, f, w, rd)
  BY DEF F!FifoEdge, F!FifoFull, Edge
<1> QED BY <1>1, <1>2, FifoStep

LEMMA TimesFifoStep ==
  ASSUME NEW f, Ring(A!Out!Words, f), NEW w, NEW rd \in BOOLEAN,
         Count(A!Out!Words, f) + One(w # None) < A!Out!Words
  PROVE  Stepped(A!Out!Words, 2, f, w, rd, A!Out!FifoEdge(f, FALSE, w, rd))
<1>1. A!Out!Words \in Nat /\ A!Out!Words >= 2
  BY TimesAssumption
<1>2. A!Out!FifoEdge(f, FALSE, w, rd) = Edge(A!Out!Words, 2, f, w, rd)
  BY DEF A!Out!FifoEdge, A!Out!FifoFull, A!Out!FifoPop, F!FifoPop, Edge
<1> QED BY <1>1, <1>2, FifoStep

-----------------------------------------------------------------------------
(* The parts of the inductive invariant.                                   *)

(* There is always a free word in the memory, two unless full is raised;   *)
(* full, a clock behind the addresses, is raised for want of room only.    *)
Filled ==
  /\ Ring(F!Words, fifo)
  /\ Count(F!Words, fifo) + One(write # None) <= F!Words - (IF fifo.full THEN 1 ELSE 2)
  /\ fifo.full => Stored > Room

(* The access under way.  The word that is removed is the one that was read.*)
Asked ==
  /\ acc = [reg |-> acc.reg, edges |-> acc.edges, data |-> acc.data]
  /\ acc.edges \in 0 .. Out
  /\ acc.reg = "data" <=> pc = "dump"
  /\ acc.reg = "data" => IF acc.edges <= Inp THEN acc.data = None ELSE acc.data \in Nat
  /\ read \in BOOLEAN /\ (read <=> acc.reg = "data" /\ acc.edges = Inp + 1)
  /\ read /\ acc.data # 0 => fifo.valid /\ acc.data = fifo.data

(* The words on their way, from the program to the bus.                    *)
Shown    == {w \in {acc.data} : acc.reg = "data" /\ acc.data \notin {None, 0}}
AtOutput == {w \in {fifo.data} : fifo.valid /\ ~(read /\ acc.data # 0)}
Written  == {w \in {write} : w # None}
Before(S, T) == \A s \in S, t \in T : s < t

(* Words are numbered in the order of the bus.                             *)
InOrder ==
  /\ bus.n \in Nat
  /\ log.printed \in Seq(1 .. bus.n)
  /\ Shown \cup AtOutput \cup InFifo \cup Written \subseteq 1 .. bus.n
  /\ \A k \in 2 .. Len(log.printed) : log.printed[k - 1] < log.printed[k]
  /\ Before(ToSet(log.printed), Shown \cup AtOutput \cup InFifo \cup Written)
  /\ Before(Shown, AtOutput \cup InFifo \cup Written)
  /\ Before(AtOutput, InFifo \cup Written)
  /\ Before(InFifo, Written)
  /\ \A j, k \in 0 .. Count(F!Words, fifo) - 1 :
       j < k => Held(F!Words, fifo, j) < Held(F!Words, fifo, k)

(* What the trace misses; a word that a dump may remove unseen is accounted*)
(* for from the clock in which it is removed.                              *)
Missing == (1 .. bus.n) \ (ToSet(log.printed) \cup OnTheWay)
Accounted ==
  /\ bus.crowded \in Nat /\ log.dumps \in Nat
  /\ Cardinality(Missing) <= bus.crowded + log.dumps + One(pc = "dump" /\ acc.data = 0 /\ ~read)

TraceInv == Filled /\ Asked /\ InOrder /\ Accounted

-----------------------------------------------------------------------------
(* The slack of the fifo suffices: full is tested two clocks before the word*)
(* is written.                                                             *)
LEMMA FilledStep ==
  ASSUME Filled, read \in BOOLEAN, bus.n \in Nat, NEW c, NEW r, Hardware(c, r)
  PROVE  /\ Filled'
         /\ fifo' = F!FifoEdge(fifo, FALSE, write, read)
         /\ Count(F!Words, fifo) + One(write # None) < F!Words
<1> DEFINE p == F!FifoPop(fifo, read)
           i == One(p)
           o == One(write # None)
           n == Count(F!Words, fifo)
           m == Count(F!Words, fifo')
<1>1. fifo' = F!FifoEdge(fifo, FALSE, write, read) /\ write' = RegInput(c, r)
  BY DEF Hardware
<1>2. Ring(F!Words, fifo) /\ n + o <= F!Words - (IF fifo.full THEN 1 ELSE 2)
  BY DEF Filled
<1>3. F!Words \in Nat /\ F!Words >= WriteSlack + 2 /\ WriteSlack \in Nat /\ WriteSlack >= 2
  BY TraceAssumption
<1>4. n \in Nat
  <2>1. /\ fifo.waddr \in Addresses(F!Words) /\ fifo.raddr \in Addresses(F!Words)
    BY <1>2 DEF Ring
  <2>2. n \in Addresses(F!Words)
    <3>1. F!Words \in Nat \ {0}
      BY <1>3
    <3> QED BY <2>1, <3>1, Apart DEF Count
  <2> QED BY <2>2 DEF Addresses
<1>5. p \in BOOLEAN /\ i \in {0, 1} /\ o \in {0, 1} /\ (p => i = 1) /\ (~p => i = 0)
      /\ (write # None => o = 1) /\ (write = None => o = 0)
  BY <1>2 DEF One, F!FifoPop, Ring
<1>6. n + o < F!Words
  <2> HIDE DEF n, o
  <2> QED BY <1>2, <1>3, <1>4, <1>5
<1>7. /\ Ring(F!Words, fifo') /\ m = n - i + o
      /\ fifo'.valid <=> p \/ (fifo.valid /\ ~read)
      /\ fifo'.full <=> F!Words - 1 - n <= WriteSlack
      /\ p => n > 0
  <2>1. Stepped(F!Words, WriteSlack, fifo, write, read, fifo')
    BY <1>1, <1>2, <1>6, TraceFifoStep
  <2> QED BY <2>1 DEF Stepped
<1> DEFINE o2 == One(write' # None)
<1>8. o2 \in {0, 1} /\ (write' # None => ~fifo.full /\ o2 = 1) /\ (write' = None => o2 = 0)
  BY <1>1 DEF RegInput, One
<1>9. m + o2 <= F!Words - (IF fifo'.full THEN 1 ELSE 2)
  <2> HIDE DEF p, i, o, n, m, o2
  <2>1. fifo.full \in BOOLEAN /\ fifo'.full \in BOOLEAN
    BY <1>2, <1>7 DEF Ring
  <2>2. i <= n
    BY <1>4, <1>5, <1>7
  <2>3. CASE fifo'.full
    <3>1. CASE fifo.full
      <4>1. o2 = 0
        BY <1>8, <3>1
      <4>2. n + o <= F!Words - 1
        BY <1>2, <3>1
      <4>3. m + o2 <= F!Words - 1
        BY <1>3, <1>4, <1>5, <1>7, <4>1, <4>2
      <4> QED BY <2>3, <4>3
    <3>2. CASE ~fifo.full
      <4>2. n + o <= F!Words - 2
        BY <1>2, <3>2
      <4>3. m + o2 <= F!Words - 1
        BY <1>3, <1>4, <1>5, <1>7, <1>8, <4>2
      <4> QED BY <2>3, <4>3
    <3> QED BY <2>1, <3>1, <3>2
  <2>4. CASE ~fifo'.full
    <3>1. n <= F!Words - 2 - WriteSlack
      BY <1>3, <1>4, <1>7, <2>4
    <3>2. m + o2 <= F!Words - 2
      BY <1>3, <1>4, <1>5, <1>7, <1>8, <3>1
    <3> QED BY <2>4, <3>2
  <2> QED BY <2>1, <2>3, <2>4
<1>10. fifo'.full => Stored' > Room
  <2> DEFINE v == IF fifo'.valid THEN 1 ELSE 0
  <2>1. Stored' = m + v + (IF write' = None THEN 0 ELSE 1)
    BY DEF Stored, Count
  <2>2. v \in {0, 1} /\ (p => v = 1)
    BY <1>7
  <2>3. m \in Nat /\ m + i >= n
    <3> HIDE DEF p, i, o, n, m, v
    <3> QED BY <1>4, <1>5, <1>7
  <2>4. m + v >= n
    <3> HIDE DEF i, o, n, m, v
    <3>1. v >= i
      BY <1>5, <2>2
    <3> QED BY <1>4, <1>5, <2>2, <2>3, <3>1
  <2>5. (IF write' = None THEN 0 ELSE 1) \in {0, 1}
    OBVIOUS
  <2> HIDE DEF m, v, n
  <2>6. ASSUME fifo'.full PROVE n > Room
    BY <1>3, <1>4, <1>7, <2>6 DEF Room
  <2>7. ASSUME fifo'.full PROVE Stored' > Room
    <3>1. Room \in Int
      BY <1>3 DEF Room
    <3> DEFINE u == IF write' = None THEN 0 ELSE 1
    <3>2. u \in {0, 1} /\ Stored' = m + v + u
      BY <2>1, <2>5
    <3> HIDE DEF u
    <3> QED BY <1>4, <2>2, <2>3, <2>4, <2>6, <2>7, <3>1, <3>2
  <2> QED BY <2>7
<1> QED BY <1>1, <1>6, <1>7, <1>9, <1>10 DEF Filled

(* What becomes of the words in the fifo, and that they stay in order.     *)
LEMMA WordsMove ==
  ASSUME Filled, InOrder, read \in BOOLEAN, NEW c, NEW r, Hardware(c, r)
  PROVE  /\ InFifo' \subseteq InFifo \cup Written
         /\ Written \subseteq InFifo'
         /\ InFifo \subseteq InFifo' \cup {w \in {fifo'.data} : fifo'.valid}
         /\ fifo'.valid => fifo'.data \in InFifo \cup AtOutput /\ Before({fifo'.data}, InFifo')
         /\ fifo.valid /\ ~read => fifo'.valid /\ fifo'.data = fifo.data
         /\ \A j, k \in 0 .. Count(F!Words, fifo)' - 1 :
              j < k => Held(F!Words, fifo, j)' < Held(F!Words, fifo, k)'
<1> DEFINE p == F!FifoPop(fifo, read)
           i == One(p)
           o == One(write # None)
           n == Count(F!Words, fifo)
           m == Count(F!Words, fifo')
<1>1. /\ fifo' = F!FifoEdge(fifo, FALSE, write, read)
      /\ n + o < F!Words /\ Ring(F!Words, fifo)
  BY FilledStep DEF Filled, InOrder
<1>2. /\ n \in Nat /\ m = n - i + o
      /\ \A k \in 0 .. m - 1 :
           /\ k + i < n => Held(F!Words, fifo', k) = Held(F!Words, fifo, k + i)
           /\ ~(k + i < n) => Held(F!Words, fifo', k) = write
      /\ p => n > 0
      /\ fifo'.valid <=> p \/ (fifo.valid /\ ~read)
      /\ (p => fifo'.data = Held(F!Words, fifo, 0)) /\ (~p => fifo'.data = fifo.data)
  <2>1. Stepped(F!Words, WriteSlack, fifo, write, read, fifo')
    BY <1>1, TraceFifoStep
  <2> QED BY <2>1 DEF Stepped
<1>3. p \in BOOLEAN /\ i \in {0, 1} /\ o \in {0, 1} /\ (p => i = 1) /\ (~p => i = 0)
      /\ (write # None => o = 1) /\ (write = None => o = 0)
  BY <1>1 DEF One, F!FifoPop, Ring
<1>4. /\ InFifo = {Held(F!Words, fifo, k) : k \in 0 .. n - 1}
      /\ InFifo' = {Held(F!Words, fifo', k) : k \in 0 .. m - 1}
      /\ Written = {w \in {write} : w # None}
      /\ Count(F!Words, fifo)' = m
      /\ \A k : Held(F!Words, fifo, k)' = Held(F!Words, fifo', k)
  BY DEF InFifo, Held, Count, Written
<1>5. /\ Before(AtOutput, InFifo \cup Written)
      /\ Before(InFifo, Written)
      /\ \A j, k \in 0 .. n - 1 : j < k => Held(F!Words, fifo, j) < Held(F!Words, fifo, k)
  BY DEF InOrder
<1>6. /\ p => ~fifo.valid \/ read
      /\ ~p /\ fifo'.valid => fifo.data \in AtOutput
      /\ fifo.valid /\ ~read => ~p
  BY <1>2 DEF F!FifoPop, AtOutput
<1> HIDE DEF p, i, o, n, m
<1>7. ASSUME NEW k \in 0 .. m - 1
      PROVE  \/ /\ k + i \in 0 .. n - 1 /\ Held(F!Words, fifo', k) = Held(F!Words, fifo, k + i)
                /\ Held(F!Words, fifo', k) \in InFifo
             \/ /\ k + i = n /\ Held(F!Words, fifo', k) = write /\ write \in Written
  <2>1. CASE k + i < n
    BY <1>2, <1>3, <1>4, <2>1
  <2>2. CASE ~(k + i < n)
    <3>1. o = 1 /\ k + i = n
      BY <1>2, <1>3, <2>2
    <3> QED BY <1>2, <1>3, <1>4, <2>2, <3>1
  <2> QED BY <2>1, <2>2
<1>8. InFifo' \subseteq InFifo \cup Written
  BY <1>4, <1>7
<1>9. Written \subseteq InFifo'
  <2>1. ASSUME write # None PROVE write \in InFifo'
    <3>1. i <= n /\ n - i \in 0 .. m - 1 /\ ~(n - i + i < n)
      BY <1>2, <1>3, <2>1
    <3>2. Held(F!Words, fifo', n - i) = write
      BY <1>2, <3>1
    <3> QED BY <1>4, <3>1, <3>2
  <2> QED BY <1>4, <2>1
<1>10. InFifo \subseteq InFifo' \cup {w \in {fifo'.data} : fifo'.valid}
  <2> SUFFICES ASSUME NEW k \in 0 .. n - 1
               PROVE  Held(F!Words, fifo, k) \in InFifo' \cup {w \in {fifo'.data} : fifo'.valid}
    BY <1>4
  <2>1. CASE k >= i
    <3>1. k - i \in 0 .. m - 1 /\ k - i + i = k /\ k < n
      BY <1>2, <1>3, <2>1
    <3>2. Held(F!Words, fifo', k - i) = Held(F!Words, fifo, k)
      BY <1>2, <3>1
    <3> QED BY <1>4, <3>1, <3>2
  <2>2. CASE ~(k >= i)
    <3>1. k = 0 /\ p
      BY <1>2, <1>3, <2>2
    <3> QED BY <1>2, <3>1
  <2> QED BY <2>1, <2>2
<1>11. ASSUME fifo'.valid
       PROVE  fifo'.data \in InFifo \cup AtOutput /\ Before({fifo'.data}, InFifo')
  <2>1. CASE p
    <3>1. fifo'.data = Held(F!Words, fifo, 0) /\ 0 \in 0 .. n - 1 /\ i = 1
      BY <1>2, <1>3, <2>1
    <3>2. ASSUME NEW k \in 0 .. m - 1 PROVE Held(F!Words, fifo, 0) < Held(F!Words, fifo', k)
      <4>1. k + i \in 0 .. n - 1 => 0 < k + i
        BY <1>3, <3>1
      <4> QED BY <1>4, <1>5, <1>7, <3>1, <4>1 DEF Before
    <3> QED BY <1>4, <3>1, <3>2 DEF Before
  <2>2. CASE ~p
    <3>1. fifo'.data \in AtOutput
      BY <1>2, <1>6, <1>11, <2>2
    <3> QED BY <1>5, <1>8, <3>1 DEF Before
  <2> QED BY <1>3, <2>1, <2>2
<1>12. ASSUME NEW j \in 0 .. m - 1, NEW k \in 0 .. m - 1, j < k
       PROVE  Held(F!Words, fifo', j) < Held(F!Words, fifo', k)
  <2>1. j + i \in 0 .. n - 1
    BY <1>2, <1>3, <1>12
  <2>2. Held(F!Words, fifo', j) = Held(F!Words, fifo, j + i) /\ Held(F!Words, fifo', j) \in InFifo
    BY <1>3, <1>7, <2>1
  <2>3. CASE k + i \in 0 .. n - 1
    <3>1. Held(F!Words, fifo', k) = Held(F!Words, fifo, k + i) /\ j + i < k + i
      BY <1>3, <1>7, <1>12, <2>3
    <3> QED BY <1>5, <2>1, <2>2, <2>3, <3>1
  <2>4. CASE ~(k + i \in 0 .. n - 1)
    <3>1. Held(F!Words, fifo', k) \in Written
      BY <1>7, <2>4
    <3> QED BY <1>5, <2>2, <3>1 DEF Before
  <2> QED BY <2>3, <2>4
<1>13. fifo.valid /\ ~read => fifo'.valid /\ fifo'.data = fifo.data
  BY <1>2, <1>6
<1> QED BY <1>4, <1>8, <1>9, <1>10, <1>11, <1>12, <1>13

(* What a clock edge does to the bus and the register before the fifo.     *)
LEMMA EventStep ==
  ASSUME NEW c, NEW r, Bus(c, r), Hardware(c, r), bus.n \in Nat, bus.crowded \in Nat,
         Filled
  PROVE  \/ /\ bus'.n = bus.n + 1 /\ bus'.crowded = bus.crowded /\ Written' = {bus.n + 1}
         \/ /\ bus'.n = bus.n + 1 /\ bus'.crowded = bus.crowded + 1 /\ Written' = {}
         \/ /\ bus'.n = bus.n + 1 /\ bus'.crowded = bus.crowded + 1 /\ Written' = {bus.n + 1}
         \/ /\ bus'.n = bus.n /\ bus'.crowded = bus.crowded /\ Written' = {}
<1>1. /\ bus'.n = bus.n + (IF Event(c, r) THEN 1 ELSE 0)
      /\ bus'.crowded = bus.crowded + (IF Event(c, r) /\ Stored > Room THEN 1 ELSE 0)
  BY DEF Bus
<1>2. write' = IF Event(c, r) /\ ~fifo.full THEN bus.n + 1 ELSE None
  BY DEF Hardware, RegInput
<1>3. Event(c, r) /\ ~fifo.full => Written' = {bus.n + 1}
  BY <1>2, NoneAssumption DEF Written
<1>4. ~(Event(c, r) /\ ~fifo.full) => Written' = {}
  BY <1>2 DEF Written
<1>5. fifo.full => Stored > Room
  BY DEF Filled
<1>6. CASE ~Event(c, r)
  BY <1>1, <1>4, <1>6
<1>7. CASE Event(c, r) /\ Stored > Room
  BY <1>1, <1>3, <1>4, <1>7
<1>8. CASE Event(c, r) /\ ~(Stored > Room)
  BY <1>1, <1>3, <1>5, <1>8
<1> QED BY <1>6, <1>7, <1>8

(* What the program's step does to the access.  The second step of a read  *)
(* samples the fifo's output; Elsewhere the program does not dump.         *)
Samples == /\ acc.reg = "data" /\ acc.edges = Inp /\ ~read /\ read'
           /\ acc' = [reg |-> "data", edges |-> Inp + 1,
                      data |-> IF fifo.valid THEN fifo.data ELSE 0]
           /\ UNCHANGED <<pc, log>>

Waits == /\ acc.reg = "data" /\ acc.edges # Inp /\ ~read'
         /\ acc.edges + 1 <= Out
         /\ acc' = [reg |-> "data", edges |-> acc.edges + 1, data |-> acc.data]
         /\ UNCHANGED <<pc, log>>

Prints == /\ acc.reg = "data" /\ acc.edges = Out /\ acc.data # 0 /\ ~read /\ ~read'
          /\ acc' = [reg |-> "data", edges |-> 0, data |-> None]
          /\ log'.printed = Append(log.printed, acc.data)
          /\ log'.dumps = log.dumps /\ UNCHANGED pc

Ends == /\ acc.reg = "data" /\ acc.edges = Out /\ acc.data = 0 /\ ~read /\ ~read'
        /\ acc' = NoAccess /\ pc' = "idle"
        /\ log'.printed = log.printed /\ log'.dumps = log.dumps + 1

Elsewhere ==
  /\ acc.reg # "data" /\ ~read /\ ~read'
  /\ acc' = [reg |-> acc'.reg, edges |-> acc'.edges, data |-> acc'.data]
  /\ acc'.edges \in 0 .. Out
  /\ \/ acc'.reg = "data" /\ pc' = "dump" /\ acc'.edges = 0 /\ acc'.data = None
     \/ acc'.reg # "data" /\ pc' # "dump"
  /\ log'.printed = log.printed /\ log'.dumps = log.dumps

(* A step of the program is one of these.                                  *)
LEMMA ProgramMoves ==
  ASSUME Asked, Next
  PROVE  /\ read' \in BOOLEAN
         /\ Samples \/ Waits \/ Prints \/ Ends \/ Elsewhere
<1>0. /\ acc = [reg |-> acc.reg, edges |-> acc.edges, data |-> acc.data]
      /\ acc.edges \in 0 .. Out /\ (acc.reg = "data" <=> pc = "dump")
      /\ read \in BOOLEAN /\ (read <=> acc.reg = "data" /\ acc.edges = Inp + 1)
  BY DEF Asked
<1>1. Clock /\ read' \in BOOLEAN /\ (read' <=> acc.reg = "data" /\ acc.edges = Inp)
  BY NextIsClock DEF Clock, Hardware, RegRead, Sampled
<1>2. /\ NoAccess = [reg |-> None, edges |-> 0, data |-> None] /\ None # "data"
      /\ \A reg : Read(reg) => acc' = [reg |-> reg, edges |-> 0, data |-> None]
  BY NoneAssumption DEF Read, NoAccess, Registers
<1>3. Inp = 1 /\ Out = 4
  BY DEF Inp, Out
<1>4. CASE Idle
  BY <1>0, <1>1, <1>2, <1>3, <1>4 DEF Idle, Elsewhere
<1>5. CASE Access
  <2>1. /\ acc.edges < Out /\ UNCHANGED <<pc, log>>
        /\ acc' = [reg |-> acc.reg, edges |-> acc.edges + 1,
                   data |-> IF acc.edges = Inp THEN Register(acc.reg) ELSE acc.data]
    BY <1>0, <1>5 DEF Access
  <2>2. CASE acc.reg = "data" /\ acc.edges = Inp
    BY <1>0, <1>1, <1>3, <2>1, <2>2 DEF Samples, Register
  <2>3. CASE acc.reg = "data" /\ acc.edges # Inp
    BY <1>0, <1>1, <1>3, <2>1, <2>3 DEF Waits
  <2>4. CASE acc.reg # "data"
    BY <1>0, <1>1, <1>3, <2>1, <2>4 DEF Elsewhere
  <2> QED BY <2>2, <2>3, <2>4
<1>6. CASE DumpWord
  BY <1>0, <1>1, <1>2, <1>3, <1>6 DEF DumpWord, Answered, Prints
<1>7. CASE DumpEnds
  BY <1>0, <1>1, <1>3, <1>7 DEF DumpEnds, Answered, Return, Ends
<1>8. ASSUME NEW reg, reg # "data", Read(reg), acc.reg # "data", UNCHANGED pc,
             log'.printed = log.printed, log'.dumps = log.dumps
      PROVE  Elsewhere
  BY <1>0, <1>1, <1>2, <1>3, <1>8 DEF Elsewhere
<1>8a. CASE StatsExtreme
  <2>1. acc.reg # "data" /\ log'.printed = log.printed /\ log'.dumps = log.dumps /\ pc' = pc
    BY <1>8a DEF StatsExtreme, Answered
  <2>2. Read("tag_max") \/ Read("tag_data")
    BY <1>8a DEF StatsExtreme
  <2> QED BY <1>1, <1>8, <2>1, <2>2
<1>8b. CASE StatsTime
  <2>1. acc.reg # "data" /\ log'.printed = log.printed /\ log'.dumps = log.dumps /\ pc' = pc
    BY <1>8b DEF StatsTime, Answered
  <2>2. Read("tag_max") \/ Read("tag_data")
    BY <1>8b DEF StatsTime
  <2> QED BY <1>1, <1>8, <2>1, <2>2
<1>9. ASSUME Return, acc.reg # "data", log'.printed = log.printed, log'.dumps = log.dumps
      PROVE  Elsewhere
  BY <1>0, <1>1, <1>2, <1>3, <1>9 DEF Return, Elsewhere
<1>9a. CASE StatsEnds
  <2>1. acc.reg # "data" /\ log'.printed = log.printed /\ log'.dumps = log.dumps /\ Return
    BY <1>9a DEF StatsEnds, Answered
  <2> QED BY <1>1, <1>9, <2>1
<1>9b. CASE snooper_tag_alert
  <2>1. acc.reg # "data" /\ log'.printed = log.printed /\ log'.dumps = log.dumps /\ Return
    BY <1>9b DEF snooper_tag_alert, Answered
  <2> QED BY <1>1, <1>9, <2>1
<1>10. ASSUME NEW reg, reg \in {"tag_min", "tag_alert"}, NEW f, f # "dump", Call(f, reg)
       PROVE  Elsewhere
  BY <1>0, <1>1, <1>2, <1>3, <1>10 DEF Call, Elsewhere
<1>11. CASE Call("dump", "data")
  BY <1>0, <1>1, <1>2, <1>3, <1>11 DEF Call, Elsewhere
<1> QED BY <1>4, <1>5, <1>6, <1>7, <1>8a, <1>8b, <1>9a, <1>9b, <1>10, <1>11, <1>1 DEF Next, Reading

(* The accesses of a dump keep their order.                                *)
LEMMA AskedStep ==
  ASSUME Asked, Filled, InOrder, Next
  PROVE  Asked'
<1>1. PICK c, r : Bus(c, r) /\ Hardware(c, r)
  BY NextIsClock DEF Clock
<1>0. read' \in BOOLEAN
  BY ProgramMoves
<1>2. /\ (acc.reg = "data" <=> pc = "dump")
      /\ acc.reg = "data" => IF acc.edges <= Inp THEN acc.data = None ELSE acc.data \in Nat
      /\ read \in BOOLEAN /\ (read <=> acc.reg = "data" /\ acc.edges = Inp + 1)
      /\ acc.edges \in 0 .. Out
  BY DEF Asked
<1>3. fifo.valid /\ ~read => fifo'.valid /\ fifo'.data = fifo.data
  BY <1>1, <1>2, WordsMove
<1>4. fifo.valid /\ ~read => fifo.data \in Nat
  BY DEF InOrder, AtOutput
<1>5. Inp = 1 /\ Out = 4 /\ NoAccess = [reg |-> None, edges |-> 0, data |-> None] /\ None # "data"
  BY NoneAssumption DEF Inp, Out, NoAccess, Registers
<1>6. CASE Samples
  BY <1>0, <1>2, <1>3, <1>4, <1>5, <1>6 DEF Samples, Asked
<1>7. CASE Waits
  <2>1. acc.edges <= Inp => acc.edges + 1 <= Inp
    BY <1>0, <1>2, <1>5, <1>7 DEF Waits
  <2>2. acc'.reg = "data" => IF acc'.edges <= Inp THEN acc'.data = None ELSE acc'.data \in Nat
    BY <1>0, <1>2, <1>5, <1>7, <2>1 DEF Waits
  <2> QED BY <1>0, <1>2, <1>5, <1>7, <2>2 DEF Waits, Asked
<1>8. CASE Prints
  BY <1>0, <1>2, <1>5, <1>8 DEF Prints, Asked
<1>9. CASE Ends
  <2>1. acc'.reg # "data"
    BY <1>5, <1>9, NoneAssumption DEF Ends
  <2> QED BY <1>0, <1>2, <1>5, <1>9, <2>1 DEF Ends, Asked
<1>10. CASE Elsewhere
  BY <1>0, <1>2, <1>5, <1>10 DEF Elsewhere, Asked
<1> QED BY <1>6, <1>7, <1>8, <1>9, <1>10, ProgramMoves

(* The words nearest to the program, after a step.                         *)
LEMMA NearWords ==
  ASSUME Asked, Filled, InOrder, Next, NEW c, NEW r, Hardware(c, r)
  PROVE  /\ AtOutput' \subseteq InFifo \cup AtOutput
         /\ Before(AtOutput', InFifo')
         /\ \/ Shown' \subseteq Shown
            \/ Shown' \subseteq AtOutput /\ AtOutput' = {} 
         /\ \/ log'.printed = log.printed
            \/ /\ log'.printed = Append(log.printed, acc.data)
               /\ acc.data \in Shown /\ Shown' = {}
<1>1. /\ read \in BOOLEAN
      /\ acc.reg = "data" /\ acc.edges > Inp => acc.data \in Nat
  <2>1. acc.edges > Inp => ~(acc.edges <= Inp)
    BY DEF Asked, Inp, Out
  <2> QED BY <2>1 DEF Asked
<1>2. fifo'.valid => fifo'.data \in InFifo \cup AtOutput /\ Before({fifo'.data}, InFifo')
  BY <1>1, WordsMove
<1>3. AtOutput' \subseteq {w \in {fifo'.data} : fifo'.valid}
  BY DEF AtOutput
<1>4. AtOutput' \subseteq InFifo \cup AtOutput /\ Before(AtOutput', InFifo')
  BY <1>2, <1>3 DEF Before
<1>5. Shown' = {w \in {acc'.data} : acc'.reg = "data" /\ acc'.data \notin {None, 0}}
  BY DEF Shown
<1>6. CASE Samples
  <2>1. acc'.data = (IF fifo.valid THEN fifo.data ELSE 0) /\ log'.printed = log.printed
    BY <1>6 DEF Samples
  <2>2. Shown' \subseteq AtOutput
    BY <1>5, <1>6, <2>1 DEF Samples, AtOutput
  <2>3. CASE acc'.data # 0
    <3>1. AtOutput' = {}
      BY <1>6, <2>3 DEF AtOutput, Samples
    <3> QED BY <1>4, <2>1, <2>2, <3>1
  <2>4. CASE acc'.data = 0
    <3>1. Shown' = {}
      BY <1>5, <2>4
    <3> QED BY <1>4, <2>1, <3>1
  <2> QED BY <2>3, <2>4
<1>7. CASE Waits
  BY <1>4, <1>5, <1>7 DEF Waits, Shown
<1>8. CASE Prints
  <2>1. acc.data \in Nat
    BY <1>1, <1>8 DEF Prints, Inp, Out
  <2>2. acc.data \in Shown /\ Shown' = {}
    BY <1>5, <1>8, <2>1, NoneAssumption DEF Prints, Shown
  <2> QED BY <1>4, <1>8, <2>2 DEF Prints
<1>9. CASE Ends
  <2>1. acc'.data = None
    BY <1>9 DEF Ends, NoAccess
  <2> QED BY <1>4, <1>5, <1>9, <2>1 DEF Ends
<1>10. CASE Elsewhere
  BY <1>4, <1>5, <1>10 DEF Elsewhere
<1> QED BY <1>6, <1>7, <1>8, <1>9, <1>10, ProgramMoves

(* What a longer sequence holds.                                           *)
LEMMA ToSetAppend ==
  ASSUME NEW S, NEW q \in Seq(S), NEW x
  PROVE  ToSet(Append(q, x)) = ToSet(q) \cup {x}
<1>1. Len(q) \in Nat /\ Len(Append(q, x)) = Len(q) + 1 /\ Append(q, x)[Len(q) + 1] = x
      /\ \A k \in 1 .. Len(q) : Append(q, x)[k] = q[k]
  OBVIOUS
<1>2. /\ ToSet(Append(q, x)) = {Append(q, x)[k] : k \in 1 .. Len(q) + 1}
      /\ ToSet(q) = {q[k] : k \in 1 .. Len(q)}
  BY <1>1 DEF ToSet
<1>3. 1 .. Len(q) + 1 = (1 .. Len(q)) \cup {Len(q) + 1}
  BY <1>1
<1> QED BY <1>1, <1>2, <1>3

(* No step brings two words out of order.                                  *)
LEMMA InOrderStep ==
  ASSUME Asked, Filled, InOrder, bus.crowded \in Nat, Next
  PROVE  InOrder'
<1>1. PICK c, r : Bus(c, r) /\ Hardware(c, r)
  BY NextIsClock DEF Clock
<1>2. read \in BOOLEAN /\ bus.n \in Nat
  BY DEF Asked, InOrder
<1> DEFINE P == ToSet(log.printed)
           old == 1 .. bus.n
<1>3. /\ P \subseteq old /\ Shown \cup AtOutput \cup InFifo \cup Written \subseteq old
      /\ Before(P, Shown \cup AtOutput \cup InFifo \cup Written)
      /\ Before(Shown, AtOutput \cup InFifo \cup Written)
      /\ Before(AtOutput, InFifo \cup Written)
      /\ Before(InFifo, Written)
  BY DEF InOrder, ToSet
<1>4. /\ InFifo' \subseteq InFifo \cup Written
      /\ \A j, k \in 0 .. Count(F!Words, fifo)' - 1 :
           j < k => Held(F!Words, fifo, j)' < Held(F!Words, fifo, k)'
  BY <1>1, <1>2, WordsMove
<1>5. /\ AtOutput' \subseteq InFifo \cup AtOutput
      /\ Before(AtOutput', InFifo')
      /\ \/ Shown' \subseteq Shown
         \/ Shown' \subseteq AtOutput /\ AtOutput' = {}
      /\ \/ log'.printed = log.printed
         \/ /\ log'.printed = Append(log.printed, acc.data)
            /\ acc.data \in Shown /\ Shown' = {}
  BY <1>1, NearWords
<1>6. \/ bus'.n = bus.n /\ Written' = {}
      \/ bus'.n = bus.n + 1 /\ Written' \subseteq {bus.n + 1}
  BY <1>1, <1>2, EventStep
<1>7. /\ bus'.n \in Nat /\ old \subseteq 1 .. bus'.n /\ Written' \subseteq 1 .. bus'.n
      /\ Before(old, Written')
  BY <1>2, <1>6 DEF Before
<1> DEFINE Q == ToSet(log'.printed)
<1>8. /\ Q \subseteq P \cup Shown
      /\ \/ Q = P
         \/ Shown' = {}
      /\ log'.printed \in Seq(old)
      /\ \A k \in 2 .. Len(log'.printed) : log'.printed[k - 1] < log'.printed[k]
  <2>1. /\ log.printed \in Seq(old)
        /\ \A k \in 2 .. Len(log.printed) : log.printed[k - 1] < log.printed[k]
    BY DEF InOrder
  <2>2. CASE log'.printed = log.printed
    BY <2>1, <2>2
  <2>3. CASE log'.printed = Append(log.printed, acc.data) /\ acc.data \in Shown /\ Shown' = {}
    <3>1. Q = P \cup {acc.data}
      BY <2>1, <2>3, ToSetAppend
    <3>2. acc.data \in old
      BY <1>3, <2>3
    <3> HIDE DEF old
    <3>3. /\ Len(log.printed) \in Nat /\ Len(log'.printed) = Len(log.printed) + 1
          /\ log'.printed[Len(log.printed) + 1] = acc.data
          /\ \A k \in 1 .. Len(log.printed) : log'.printed[k] = log.printed[k]
          /\ log'.printed \in Seq(old)
      BY <2>1, <2>3, <3>2
    <3>4. ASSUME NEW k \in 2 .. Len(log'.printed)
          PROVE  log'.printed[k - 1] < log'.printed[k]
      <4>1. k - 1 \in 1 .. Len(log.printed)
        BY <3>3
      <4>2. CASE k = Len(log.printed) + 1
        <5>1. log.printed[k - 1] \in P
          BY <2>1, <4>1 DEF ToSet
        <5>2. log.printed[k - 1] < acc.data
          BY <1>3, <2>3, <5>1 DEF Before
        <5> QED BY <3>3, <4>1, <4>2, <5>2
      <4>3. CASE k # Len(log.printed) + 1
        <5>1. k \in 2 .. Len(log.printed) /\ k \in 1 .. Len(log.printed)
          BY <3>3, <4>3
        <5>2. log.printed[k - 1] < log.printed[k]
          BY <2>1, <5>1
        <5> QED BY <3>3, <4>1, <5>1, <5>2
      <4> QED BY <4>2, <4>3
    <3> QED BY <2>3, <3>1, <3>3, <3>4
  <2> QED BY <1>5, <2>2, <2>3
<1> HIDE DEF old, P, Q
<1>9. log'.printed \in Seq(1 .. bus'.n)
  <2> DEFINE q == log'.printed
             new == 1 .. bus'.n
  <2>1. q \in Seq(old) /\ old \subseteq new
    BY <1>7, <1>8
  <2> HIDE DEF q, new
  <2>2. Len(q) \in Nat /\ q \in [1 .. Len(q) -> new]
    BY <2>1
  <2>3. q \in Seq(new)
    BY <2>2
  <2> QED BY <2>3 DEF q, new
<1>10. /\ Shown' \cup AtOutput' \cup InFifo' \subseteq Shown \cup AtOutput \cup InFifo \cup Written
       /\ Shown' \cup AtOutput' \cup InFifo' \cup Written' \subseteq 1 .. bus'.n
  BY <1>3, <1>4, <1>5, <1>7
<1>11. Q \subseteq old
  BY <1>3, <1>8
<1>12. Before(Q, Shown' \cup AtOutput' \cup InFifo' \cup Written')
  <2>1. Before(Q, Written')
    BY <1>7, <1>11 DEF Before
  <2>2. CASE Q = P
    BY <1>3, <1>10, <2>1, <2>2 DEF Before
  <2>3. CASE Shown' = {}
    <3>1. AtOutput' \cup InFifo' \subseteq AtOutput \cup InFifo \cup Written
      BY <1>4, <1>5
    <3>2. Before(P \cup Shown, AtOutput' \cup InFifo')
      BY <1>3, <3>1 DEF Before
    <3> QED BY <1>8, <2>1, <2>3, <3>2 DEF Before
  <2> QED BY <1>8, <2>2, <2>3
<1>13. Before(Shown', AtOutput' \cup InFifo' \cup Written')
  <2>1. Before(Shown', Written')
    BY <1>3, <1>5, <1>7 DEF Before
  <2>2. CASE Shown' \subseteq Shown
    BY <1>3, <1>4, <1>5, <2>1, <2>2 DEF Before
  <2>3. CASE Shown' \subseteq AtOutput /\ AtOutput' = {}
    BY <1>3, <1>4, <2>1, <2>3 DEF Before
  <2> QED BY <1>5, <2>2, <2>3
<1>14. Before(AtOutput', InFifo' \cup Written') /\ Before(InFifo', Written')
  BY <1>3, <1>4, <1>5, <1>7 DEF Before
<1>15. Before(Q, (Shown \cup AtOutput \cup InFifo \cup Written)')
       /\ Q = ToSet(log.printed)'
  BY <1>12 DEF Q
<1> QED BY <1>4, <1>7, <1>8, <1>9, <1>10, <1>13, <1>14, <1>15 DEF InOrder, Before

(* A step loses the event of this clock, when there is no room, and the word*)
(* that is removed though the program was told there was none; no other.   *)
LEMMA AccountedStep ==
  ASSUME Asked, Filled, InOrder, Accounted, Next
  PROVE  Accounted'
<1>1. PICK c, r : Bus(c, r) /\ Hardware(c, r)
  BY NextIsClock DEF Clock
<1>2. read \in BOOLEAN /\ bus.n \in Nat /\ bus.crowded \in Nat /\ log.dumps \in Nat
  BY DEF Asked, InOrder, Accounted
<1>3. /\ Written \subseteq InFifo'
      /\ InFifo \subseteq InFifo' \cup {w \in {fifo'.data} : fifo'.valid}
      /\ fifo.valid /\ ~read => fifo'.valid /\ fifo'.data = fifo.data
  BY <1>1, <1>2, WordsMove
<1> DEFINE Lost == {w \in {fifo.data} : fifo.valid /\ read /\ acc.data = 0}
           Dropped == IF bus'.crowded = bus.crowded THEN {} ELSE {bus'.n}
           P == ToSet(log.printed)
           Q == ToSet(log'.printed)
<1>4. OnTheWay = InFifo \cup Written \cup {w \in {fifo.data} : fifo.valid} \cup Shown
  BY DEF OnTheWay, Written, Shown
<1>5. OnTheWay' = InFifo' \cup Written' \cup {w \in {fifo'.data} : fifo'.valid} \cup Shown'
  BY DEF OnTheWay, Written, Shown
<1>6. P \cup Shown \subseteq Q \cup Shown' /\ (read /\ acc.data # 0 => acc.data \in Shown)
  <2>1. log.printed \in Seq(1 .. bus.n)
    BY DEF InOrder
  <2>2. Shown' = {w \in {acc'.data} : acc'.reg = "data" /\ acc'.data \notin {None, 0}}
    BY DEF Shown
  <2>3. read /\ acc.data # 0 => acc.data \in Shown
    <3>1. read => acc.reg = "data" /\ ~(acc.edges <= Inp)
      BY DEF Asked, Inp, Out
    <3>2. read => acc.data \in Nat
      BY <3>1 DEF Asked
    <3> QED BY <3>1, <3>2, NoneAssumption DEF Shown
  <2>4. acc.reg = "data" /\ acc.edges <= Inp => acc.data = None
    BY DEF Asked
  <2>5. CASE Samples
    BY <2>3, <2>4, <2>5 DEF Samples, Shown, Inp
  <2>6. CASE Waits
    BY <2>2, <2>3, <2>6 DEF Waits, Shown
  <2>7. CASE Prints
    <3>1. Q = P \cup {acc.data}
      BY <2>1, <2>7, ToSetAppend DEF Prints
    <3> QED BY <2>3, <3>1 DEF Shown
  <2>8. CASE Ends
    BY <2>3, <2>8 DEF Ends, Shown
  <2>9. CASE Elsewhere
    BY <2>3, <2>9 DEF Elsewhere, Shown
  <2> QED BY <2>5, <2>6, <2>7, <2>8, <2>9, ProgramMoves
<1>7. {w \in {fifo.data} : fifo.valid} \subseteq
        Lost \cup Shown \cup {w \in {fifo'.data} : fifo'.valid}
  <2>1. CASE fifo.valid /\ ~read
    BY <1>3, <2>1
  <2>2. CASE fifo.valid /\ read
    <3>1. acc.data # 0 => acc.data = fifo.data
      BY <2>2 DEF Asked
    <3> QED BY <1>6, <2>2, <3>1
  <2>3. CASE ~fifo.valid
    BY <2>3
  <2> QED BY <1>2, <2>1, <2>2, <2>3
<1>8. P \cup OnTheWay \subseteq Q \cup OnTheWay' \cup Lost
  BY <1>3, <1>4, <1>5, <1>6, <1>7
<1>9. 1 .. bus'.n \subseteq (1 .. bus.n) \cup Dropped \cup Written'
      /\ bus'.crowded \in Nat /\ bus'.crowded - bus.crowded \in {0, 1}
  <2>1. \/ /\ bus'.n = bus.n + 1 /\ bus'.crowded = bus.crowded /\ Written' = {bus.n + 1}
        \/ /\ bus'.n = bus.n + 1 /\ bus'.crowded = bus.crowded + 1
        \/ /\ bus'.n = bus.n /\ bus'.crowded = bus.crowded
    BY <1>1, <1>2, EventStep
  <2>2. 1 .. bus.n + 1 = (1 .. bus.n) \cup {bus.n + 1}
    BY <1>2
  <2> QED BY <1>2, <2>1, <2>2
<1> HIDE DEF Lost, Dropped, P, Q
<1>10. Missing' \subseteq Missing \cup Lost \cup Dropped
  <2>1. Missing' = (1 .. bus'.n) \ (Q \cup OnTheWay') /\ Missing = (1 .. bus.n) \ (P \cup OnTheWay)
    BY DEF Missing, P, Q
  <2> QED BY <1>5, <1>8, <1>9, <2>1
<1>11. IsFiniteSet(Missing) /\ Cardinality(Missing) \in Nat
  <2>1. IsFiniteSet(1 .. bus.n)
    <3>1. 1 \in Int /\ bus.n \in Int
      BY <1>2
    <3> QED BY <3>1, FS_Interval
  <2>2. Missing \subseteq 1 .. bus.n
    BY DEF Missing
  <2> QED BY <2>1, <2>2, FS_Subset, FS_CardinalityType
<1> DEFINE lost == One(read /\ acc.data = 0)
           drop == bus'.crowded - bus.crowded
<1>12. /\ IsFiniteSet(Missing \cup Lost \cup Dropped)
       /\ Cardinality(Missing \cup Lost \cup Dropped) <= Cardinality(Missing) + lost + drop
  <2>1. ASSUME NEW S, IsFiniteSet(S), NEW T, NEW x, T = {} \/ T = {x}
        PROVE  /\ IsFiniteSet(S \cup T) /\ Cardinality(S) \in Nat
               /\ Cardinality(S \cup T) \in Nat
               /\ T = {} => Cardinality(S \cup T) = Cardinality(S)
               /\ Cardinality(S \cup T) <= Cardinality(S) + 1
    <3>1. CASE T = {}
      <4>1. S \cup T = S
        BY <3>1
      <4> QED BY <2>1, <4>1, FS_CardinalityType
    <3>2. CASE T = {x}
      <4>1. S \cup T = S \cup {x} /\ T # {}
        BY <3>2
      <4>2. Cardinality(S) \in Nat
        BY <2>1, FS_CardinalityType
      <4>3. /\ IsFiniteSet(S \cup {x})
            /\ Cardinality(S \cup {x}) = IF x \in S THEN Cardinality(S) ELSE Cardinality(S) + 1
        BY <2>1, FS_AddElement
      <4>4. CASE x \in S
        <5>1. Cardinality(S \cup T) = Cardinality(S)
          BY <4>1, <4>3, <4>4
        <5> QED BY <4>1, <4>2, <4>3, <5>1
      <4>5. CASE x \notin S
        <5>1. Cardinality(S \cup T) = Cardinality(S) + 1
          BY <4>1, <4>3, <4>5
        <5>2. Cardinality(S \cup T) \in Nat /\ Cardinality(S \cup T) <= Cardinality(S) + 1
          BY <4>2, <5>1
        <5> QED BY <4>1, <4>2, <4>3, <5>2
      <4> QED BY <4>4, <4>5
    <3> QED BY <2>1, <3>1, <3>2
  <2>2. /\ Lost = {} \/ Lost = {fifo.data}
        /\ ~(read /\ acc.data = 0) => Lost = {}
    BY DEF Lost
  <2>3. /\ Dropped = {} \/ Dropped = {bus'.n}
        /\ drop = 0 => Dropped = {}
    BY <1>2, <1>9 DEF Dropped
  <2>4. /\ IsFiniteSet(Missing \cup Lost) /\ Cardinality(Missing \cup Lost) \in Nat
        /\ Lost = {} => Cardinality(Missing \cup Lost) = Cardinality(Missing)
        /\ Cardinality(Missing \cup Lost) <= Cardinality(Missing) + 1
    BY <1>11, <2>1, <2>2
  <2>5. /\ IsFiniteSet(Missing \cup Lost \cup Dropped)
        /\ Cardinality(Missing \cup Lost \cup Dropped) \in Nat
        /\ Dropped = {} =>
             Cardinality(Missing \cup Lost \cup Dropped) = Cardinality(Missing \cup Lost)
        /\ Cardinality(Missing \cup Lost \cup Dropped) <= Cardinality(Missing \cup Lost) + 1
    BY <2>1, <2>3, <2>4
  <2>6. /\ lost \in {0, 1} /\ (read /\ acc.data = 0 => lost = 1)
        /\ ~(read /\ acc.data = 0) => lost = 0
    BY <1>2 DEF One
  <2> HIDE DEF lost, drop
  <2>7. drop \in {0, 1}
    BY <1>9 DEF drop
  <2>8. Cardinality(Missing \cup Lost) <= Cardinality(Missing) + lost
    BY <1>11, <2>2, <2>4, <2>6
  <2>9. Cardinality(Missing \cup Lost \cup Dropped) <= Cardinality(Missing \cup Lost) + drop
    BY <2>3, <2>4, <2>5, <2>7
  <2> QED BY <1>11, <2>4, <2>5, <2>6, <2>7, <2>8, <2>9
<1>13. Cardinality(Missing') <= Cardinality(Missing) + lost + drop /\ Cardinality(Missing') \in Nat
  <2>1. /\ IsFiniteSet(Missing')
        /\ Cardinality(Missing') <= Cardinality(Missing \cup Lost \cup Dropped)
        /\ Cardinality(Missing \cup Lost \cup Dropped) \in Nat
    BY <1>10, <1>12, FS_Subset, FS_CardinalityType
  <2>2. Cardinality(Missing') \in Nat
    BY <2>1, FS_CardinalityType
  <2>3. lost \in {0, 1} /\ drop \in {0, 1}
    BY <1>9 DEF One
  <2> HIDE DEF lost, drop
  <2> QED BY <1>11, <1>12, <2>1, <2>2, <2>3
<1> DEFINE ended == One(pc = "dump" /\ acc.data = 0 /\ ~read)
           ended2 == One(pc' = "dump" /\ acc'.data = 0 /\ ~read')
<1>14. log'.dumps \in Nat /\ log.dumps + ended + lost <= log'.dumps + ended2
  <2>1. /\ acc.reg = "data" <=> pc = "dump"
        /\ acc.reg = "data" => IF acc.edges <= Inp THEN acc.data = None ELSE acc.data \in Nat
        /\ read <=> (acc.reg = "data" /\ acc.edges = Inp + 1)
        /\ acc.edges \in 0 .. Out
    BY DEF Asked
  <2>2. None # 0 /\ Inp = 1 /\ Out = 4
    BY NoneAssumption DEF Inp, Out
  <2>3. CASE Samples
    <3>1. ended = 0 /\ lost = 0 /\ ended2 = 0 /\ log'.dumps = log.dumps
      BY <2>1, <2>2, <2>3 DEF Samples, One
    <3> QED BY <1>2, <3>1
  <2>4. CASE Waits
    <3>1. /\ log'.dumps = log.dumps /\ acc'.data = acc.data /\ pc' = pc /\ pc = "dump" /\ ~read'
      BY <2>1, <2>4 DEF Waits
    <3>2. CASE acc.data = 0
      <4>1. ended2 = 1 /\ ended + lost = 1 /\ ended \in {0, 1} /\ lost \in {0, 1}
        BY <3>1, <3>2 DEF One
      <4> HIDE DEF ended, ended2, lost
      <4> QED BY <1>2, <3>1, <4>1
    <3>3. CASE acc.data # 0
      <4>1. ended2 = 0 /\ ended = 0 /\ lost = 0
        BY <3>1, <3>3 DEF One
      <4> QED BY <1>2, <3>1, <4>1
    <3> QED BY <3>2, <3>3
  <2>5. CASE Prints
    <3>1. ended = 0 /\ lost = 0 /\ ended2 = 0 /\ log'.dumps = log.dumps
      BY <2>1, <2>2, <2>5 DEF Prints, One
    <3> QED BY <1>2, <3>1
  <2>6. CASE Ends
    <3>1. ended = 1 /\ lost = 0 /\ ended2 = 0 /\ log'.dumps = log.dumps + 1
      BY <2>1, <2>2, <2>6 DEF Ends, One
    <3> QED BY <1>2, <3>1
  <2>7. CASE Elsewhere
    <3>1. ended = 0 /\ lost = 0 /\ ended2 = 0 /\ log'.dumps = log.dumps
      BY <2>1, <2>2, <2>7 DEF Elsewhere, One
    <3> QED BY <1>2, <3>1
  <2> QED BY <2>3, <2>4, <2>5, <2>6, <2>7, ProgramMoves
<1>15. Cardinality(Missing) <= bus.crowded + log.dumps + ended
  BY DEF Accounted
<1>16. Cardinality(Missing') <= bus'.crowded + log'.dumps + ended2
  <2>1. lost \in {0, 1} /\ drop \in {0, 1} /\ ended \in {0, 1} /\ ended2 \in {0, 1}
        /\ bus'.crowded = bus.crowded + drop
    BY <1>2, <1>9 DEF One
  <2> HIDE DEF lost, drop, ended, ended2
  <2> QED BY <1>2, <1>9, <1>11, <1>13, <1>14, <1>15, <2>1
<1> QED BY <1>9, <1>14, <1>16 DEF Accounted

(* The inductive invariant of the trace.                                   *)
LEMMA TraceHolds == Spec => []TraceInv
<1>1. Init => TraceInv
  <2> SUFFICES ASSUME Init PROVE TraceInv
    OBVIOUS
  <2>1. /\ fifo = F!FifoInit /\ write = None /\ read = FALSE /\ acc = NoAccess /\ pc = "idle"
        /\ bus.n = 0 /\ bus.crowded = 0 /\ log.printed = <<>> /\ log.dumps = 0
    BY DEF Init
  <2>2. /\ fifo.waddr = 0 /\ fifo.raddr = 0 /\ fifo.empty /\ ~fifo.full /\ ~fifo.valid
        /\ fifo.mem = [a \in Addresses(F!Words) |-> None]
        /\ fifo.empty \in BOOLEAN /\ fifo.full \in BOOLEAN /\ fifo.valid \in BOOLEAN
    BY <2>1 DEF F!FifoInit, Addresses
  <2>3. /\ 0 \in Addresses(F!Words) /\ F!Words \in Nat /\ F!Words >= 4
    BY TraceAssumption DEF Addresses
  <2>4. Count(F!Words, fifo) = 0
    BY <2>2, <2>3, Apart DEF Count, Away
  <2>5. Filled
    BY <2>1, <2>2, <2>3, <2>4 DEF Filled, Ring, One
  <2>6. Asked
    <3>1. /\ acc = [reg |-> None, edges |-> 0, data |-> None] /\ None # "data"
          /\ read \in BOOLEAN /\ ~read /\ pc # "dump"
      BY <2>1, NoneAssumption DEF NoAccess, Registers
    <3> QED BY <3>1 DEF Asked, Inp, Out
  <2>7. /\ Shown = {} /\ AtOutput = {} /\ Written = {} /\ InFifo = {}
        /\ ToSet(log.printed) = {}
    <3>1. InFifo = {Held(F!Words, fifo, k) : k \in 0 .. Count(F!Words, fifo) - 1}
      BY DEF InFifo, Held, Count
    <3>2. 0 .. Count(F!Words, fifo) - 1 = {}
      BY <2>4
    <3>3. Shown = {}
      BY <2>1, NoneAssumption DEF Shown, NoAccess, Registers
    <3> QED BY <2>1, <2>2, <3>1, <3>2, <3>3 DEF AtOutput, Written, ToSet
  <2>8. InOrder
    BY <2>1, <2>4, <2>7 DEF InOrder, Before
  <2>9. Accounted
    <3>1. Missing = {}
      BY <2>1 DEF Missing
    <3>2. Cardinality(Missing) = 0
      BY <3>1, FS_EmptySet
    <3> QED BY <2>1, <3>2 DEF Accounted, One
  <2> QED BY <2>5, <2>6, <2>8, <2>9 DEF TraceInv
<1>2. ASSUME TraceInv, [Next]_vars
      PROVE  TraceInv'
  <2>1. CASE Next
    <3>1. PICK c, r : Bus(c, r) /\ Hardware(c, r)
      BY <2>1, NextIsClock DEF Clock
    <3>2. Filled'
      BY <1>2, <3>1, FilledStep DEF TraceInv, Asked, InOrder
    <3> QED BY <1>2, <2>1, <3>2, AskedStep, InOrderStep, AccountedStep DEF TraceInv, Accounted
  <2>2. CASE UNCHANGED vars
    <3>1. /\ Filled' = Filled /\ Asked' = Asked /\ InOrder' = InOrder /\ Accounted' = Accounted
      BY <2>2 DEF vars, hardware, Filled, Asked, InOrder, Accounted, Ring, Count, Held, Stored,
                  Shown, AtOutput, InFifo, Written, Missing, OnTheWay
    <3> QED BY <1>2, <3>1 DEF TraceInv
  <2> QED BY <1>2, <2>1, <2>2
<1> QED BY <1>1, <1>2, PTL DEF Spec

(* For any size of the fifo, with a slack of two words at least: the trace *)
(* that snooper_dump prints is in the order of the bus and has no event    *)
(* twice, the fifo is never written over, and what is missing came when the*)
(* fifo had no room or was removed at the end of a dump.                   *)
THEOREM TraceIsTrue == Spec => []TraceTrue
<1>1. TraceInv => TraceTrue
  <2> SUFFICES ASSUME TraceInv PROVE TraceTrue
    OBVIOUS
  <2>1. /\ bus.n \in Nat /\ bus.crowded \in Nat /\ log.dumps \in Nat
        /\ Cardinality(Missing) <= bus.crowded + log.dumps
             + One(pc = "dump" /\ acc.data = 0 /\ ~read)
        /\ \A k \in 2 .. Len(log.printed) : log.printed[k - 1] < log.printed[k]
    BY DEF TraceInv, InOrder, Accounted
  <2> DEFINE u == IF pc = "dump" /\ acc.data = 0 THEN 1 ELSE 0
             v == One(pc = "dump" /\ acc.data = 0 /\ ~read)
             m == Cardinality(Missing)
  <2>2. u \in {0, 1} /\ v \in {0, 1} /\ v <= u
    BY DEF One
  <2>3. m \in Nat
    <3>1. IsFiniteSet(1 .. bus.n)
      <4>1. 1 \in Int /\ bus.n \in Int
        BY <2>1
      <4> QED BY <4>1, FS_Interval
    <3>2. Missing \subseteq 1 .. bus.n
      BY DEF Missing
    <3> QED BY <3>1, <3>2, FS_Subset, FS_CardinalityType
  <2>4. m <= bus.crowded + log.dumps + u
    <3>1. m <= bus.crowded + log.dumps + v
      BY <2>1
    <3> HIDE DEF u, v, m
    <3> QED BY <2>1, <2>2, <2>3, <3>1
  <2> QED BY <2>1, <2>4 DEF TraceTrue, Missing
<1> QED BY <1>1, TraceHolds, PTL

-----------------------------------------------------------------------------
(* The times.                                                              *)

(* Seen by the registers tag by tag: a tag is in use, answered in the last *)
(* clock (rtag_d), Left in the one before and in wen after that; then its  *)
(* counter is cleared.                                                     *)
Left == tag.track_d \ tag.track

Counted ==
  /\ Left \subseteq Tags /\ tag.wen \subseteq Tags
  /\ \A i, j \in Left : i = j
  /\ \A i, j \in tag.wen : i = j
  /\ Left \cap tag.track = {} /\ Left \cap tag.wen = {} /\ tag.wen \cap tag.track = {}
  /\ \A i \in Left : bus.rest[i] < 3
  /\ tag.counters \in [Tags -> Nat]
  /\ \A i \in Tags : InUse(i) => tag.counters[i] + 1 = bus.age[i]
  /\ \A i \in Tags \ (tag.track \cup Left \cup tag.wen) : tag.counters[i] = 0

(* How many times were taken when the one in a stage, or the last one to   *)
(* leave it, was: the stages are rtag_d, Left, wen, tq_wen, tq_wen_d,      *)
(* tq_wen_dd, the memory of tq and its output register.                    *)
At1 == Len(bus.took)
At2 == At1 - One(tag.rtag_d # None)
At3 == At2 - One(Left # {})
At4 == At3 - One(tag.wen # {})
At5 == At4 - One(tag.tq_wen)
At6 == At5 - One(tag.tq_wen_d)
At7 == At6 - One(tag.tq_wen_dd)
At8 == At7 - One(~tag.tq.empty)
Recorded == At8 - One(tag.tq.valid)

(* The fifo in the middle never holds more than one word in its memory.    *)
Drained ==
  /\ tag.tq.raddr \in Addresses(A!Tq!Words)
  /\ tag.tq.mem = [a \in Addresses(A!Tq!Words) |-> tag.tq.mem[a]]
  /\ tag.tq.empty \in BOOLEAN /\ tag.tq.valid \in BOOLEAN /\ tag.tq_read \in BOOLEAN
  /\ tag.tq.waddr = IF tag.tq.empty THEN tag.tq.raddr ELSE (tag.tq.raddr + 1) % A!Tq!Words
  /\ tag.tq.valid => tag.tq_read

(* Every stage holds the time that was taken when its command answered.    *)
InStages ==
  /\ bus.took \in Seq(Nat \ {0}) /\ Recorded \in Nat
  /\ tag.tq_wen \in BOOLEAN /\ tag.tq_wen_d \in BOOLEAN /\ tag.tq_wen_dd \in BOOLEAN
  /\ tag.rtag_d # None => bus.took[At1] = tag.counters[tag.rtag_d] + 1
  /\ \A i \in Left : bus.took[At2] = tag.counters[i]
  /\ \A i \in tag.wen : bus.took[At3] = tag.counters[i]
  /\ tag.tq_wen => bus.took[At4] = tag.counters_d[tag.find]
  /\ tag.tq_wen_d => bus.took[At5] = tag.tq_wdata
  /\ tag.tq_wen_dd => bus.took[At6] = tag.tq_wdata_d
  /\ ~tag.tq.empty => bus.took[At7] = tag.tq.mem[tag.tq.raddr]
  /\ tag.tq.valid => bus.took[At8] = tag.tq.data

(* The last fifo has a free word, two unless full is raised.               *)
OutWords == Total(A!Out!Words, tag.out)
OutWord(k) == Word(A!Out!Words, tag.out, k)
Roomy ==
  /\ Ring(A!Out!Words, tag.out)
  /\ Count(A!Out!Words, tag.out) <= A!Out!Words - (IF tag.out.full THEN 1 ELSE 2)

(* The access of snooper_tag_stats under way.                              *)
AskedTime ==
  /\ acc = [reg |-> acc.reg, edges |-> acc.edges, data |-> acc.data]
  /\ acc.edges \in 0 .. Out
  /\ acc.reg \in {"tag_min", "tag_max", "tag_data"} => pc = "stats"
  /\ acc.reg = "tag_data" /\ acc.edges <= Inp => acc.data = None
  /\ acc.reg = "tag_data" /\ acc.edges > Inp => acc.data \in {0} \cup ToSet(bus.took)
  /\ tag_read \in BOOLEAN /\ (tag_read <=> acc.reg = "tag_data" /\ acc.edges = Inp + 1)
  /\ tag_read /\ acc.data # 0 => tag.out.valid
  /\ tag_read /\ acc.data # 0 /\ ~bus.mixed => acc.data = tag.out.data
  /\ acc.reg = "tag_data" /\ ~tag.out.empty /\ ~tag.out.valid => bus.mixed

(* The times printed and the one about to be.                              *)
Given == acc.reg = "tag_data" /\ acc.data \notin {None, 0} /\ ~tag_read
Sent == IF Given THEN Append(log.times, acc.data) ELSE log.times

(* The times printed or to be printed, in that order.                      *)
RowLen == Len(Sent) + OutWords
Row(k) == IF k <= Len(Sent) THEN Sent[k] ELSE OutWord(k - Len(Sent) - 1)

Sourced ==
  /\ log.times \in Seq(Nat \ {0}) /\ ToSet(log.times) \subseteq ToSet(bus.took)
  /\ tag.out.data \in {0} \cup ToSet(bus.took)
  /\ \A k \in 0 .. OutWords - 1 : OutWord(k) \in ToSet(bus.took)

(* They are times of the history, in the order of the responses.           *)
Increasing(at, K) == \A j, k \in 1 .. K : j < k => at[j] < at[k]

Embedded ==
  \E at \in [1 .. RowLen -> 1 .. Recorded] :
    /\ Increasing(at, RowLen)
    /\ \A k \in 1 .. RowLen : Row(k) = bus.took[at[k]]

Hidden == acc.reg = "tag_data" /\ acc.data = 0 /\ ~tag_read
AllCounted ==
  /\ log.stats \in Nat /\ bus.spilled \in Nat
  /\ RowLen <= Recorded
  /\ Recorded <= RowLen + log.stats + One(Hidden) + bus.spilled

Busy == /\ Counted /\ Drained /\ InStages /\ Roomy /\ AskedTime
        /\ Sourced /\ (~bus.mixed => Embedded) /\ AllCounted

Unused ==
  /\ tag = A!TagInit /\ bus.took = <<>> /\ log.times = <<>> /\ log.stats = 0
  /\ bus.age = [i \in Tags |-> None] /\ bus.spilled = 0 /\ ~bus.wrong
  /\ acc.reg \notin {"tag_min", "tag_max", "tag_data"}

TimesInv == /\ tag_anal_en /\ ~bus.wrong => Busy
            /\ ~tag_anal_en => Unused

-----------------------------------------------------------------------------
(* A clock in which no tag is misused, until now either.                   *)
Proper(c, r) ==
  /\ c \in Tags \cup {None} /\ r \in Tags \cup {None}
  /\ Bus(c, r) /\ Hardware(c, r)
  /\ tag_anal_en /\ ~bus.wrong /\ ~bus'.wrong

(* What is then known of the tags.                                         *)
LEMMA ProperTags ==
  ASSUME IInv, NEW c, NEW r, Proper(c, r)
  PROVE  /\ c # None => ~InUse(c) /\ c # tag.rtag_d /\ bus.rest[c] >= Rest
         /\ r # None => InUse(r)
         /\ c = r => c = None
         /\ tag.track = {i \in Tags : InUse(i) \/ i = tag.rtag_d}
         /\ tag.rtag_d \in Tags \cup {None}
         /\ tag.rtag_d # None => ~InUse(tag.rtag_d) /\ bus.rest[tag.rtag_d] < 2
         /\ bus.age \in Ages /\ bus.rest \in [Tags -> Nat]
         /\ tag' = A!TagEdge(tag, c, r, tag_read)
         /\ tag'.track = (tag.track \cup ({c} \ {None})) \ {tag.rtag_d}
         /\ tag'.rtag_d = r
<1>1. /\ tag.track \subseteq Tags /\ tag.rtag_d \in Tags \cup {None}
      /\ bus.age \in Ages /\ bus.rest \in [Tags -> Nat] /\ Tracked
  BY DEF IInv, Proper
<1>2. ~Misused(c, r)
  BY DEF Proper, Bus
<1>3. /\ c = r => c = None
      /\ c # None => InUse(c) \/ bus.rest[c] >= Rest
  BY DEF Proper, Bus, MayCommand
<1>4. c # None => ~InUse(c) /\ c # tag.rtag_d /\ bus.rest[c] >= Rest
  <2>1. c # None => ~InUse(c) /\ bus.rest[c] >= Rest
    BY <1>2, <1>3 DEF Misused
  <2>2. c # None => bus.rest[c] \in Nat
    BY <1>1 DEF Proper
  <2>3. c # None /\ c = tag.rtag_d => bus.rest[c] < 2
    BY <1>1 DEF Tracked
  <2> QED BY <2>1, <2>2, <2>3, RestAssumption
<1>5. r # None => InUse(r)
  BY <1>2 DEF Misused
<1>6. tag' = A!TagEdge(tag, c, r, tag_read)
  BY DEF Proper, Hardware
<1>7. /\ tag'.track = (tag.track \cup ({c} \ {None})) \ {tag.rtag_d}
      /\ tag'.rtag_d = r
  BY <1>6, EdgeTracks DEF A!Track
<1> QED BY <1>1, <1>3, <1>4, <1>5, <1>6, <1>7 DEF Tracked

(* The registers that carry the times.                                     *)
LEMMA ProperEdge ==
  ASSUME IInv, NEW c, NEW r, Proper(c, r)
  PROVE  /\ tag'.track_d = tag.track /\ tag'.counters = A!Counters(tag)
         /\ tag'.counters_d = tag.counters
         /\ tag'.wen = Left \ tag.wen /\ tag'.find = A!Find(tag.wen)
         /\ tag'.tq_wen = (tag.wen # {}) /\ tag'.tq_wen_d = tag.tq_wen
         /\ tag'.tq_wen_dd = tag.tq_wen_d
         /\ tag'.tq_wdata = tag.counters_d[tag.find] /\ tag'.tq_wdata_d = tag.tq_wdata
         /\ tag'.tq_read = ~tag.tq.empty
         /\ tag'.tq = A!Tq!FifoEdge(tag.tq, FALSE,
                         IF tag.tq_wen_dd THEN tag.tq_wdata_d ELSE None, tag.tq_read)
         /\ tag'.out = A!Out!FifoEdge(tag.out, FALSE,
                          IF tag.out.full THEN None
                          ELSE IF tag.tq.valid THEN tag.tq.data ELSE None, tag_read)
<1>1. tag' = A!TagEdge(tag, c, r, tag_read)
  BY ProperTags
<1> QED BY <1>1 DEF A!TagEdge, Left

(* What the bus does then.                                                 *)
LEMMA ProperBus ==
  ASSUME IInv, NEW c, NEW r, Proper(c, r)
  PROVE  /\ bus'.took = IF r # None THEN Append(bus.took, bus.age[r] + 1) ELSE bus.took
         /\ \A i \in Tags :
              bus'.age[i] = IF InUse(i) THEN IF i = r THEN None ELSE bus.age[i] + 1
                            ELSE IF i = c THEN 1 ELSE None
         /\ \A i \in Tags : bus.age[i] \in Nat \cup {None}
         /\ \A i \in Tags : ~InUse(i) /\ bus.rest[i] < 2 => bus'.rest[i] < 3
         /\ r # None => bus'.rest[r] = 1
         /\ bus'.mixed = (bus.mixed \/ (pc = "stats" /\ tag.tq.valid))
         /\ bus'.spilled = bus.spilled + One(tag.tq.valid /\ tag.out.full)
<1>1. /\ bus'.age = [i \in Tags |->
                       IF InUse(i) THEN IF i = r THEN None ELSE bus.age[i] + 1
                       ELSE IF i = c /\ tag_anal_en THEN 1 ELSE None]
      /\ bus'.rest = [i \in Tags |->
                        IF i = r /\ InUse(i) THEN 1
                        ELSE IF bus.rest[i] = Rest THEN Rest ELSE bus.rest[i] + 1]
      /\ bus'.took = IF r # None /\ InUse(r) THEN Append(bus.took, bus.age[r] + 1)
                     ELSE bus.took
      /\ bus'.mixed = (bus.mixed \/ (pc = "stats" /\ tag.tq.valid))
      /\ bus'.spilled = bus.spilled + (IF tag.tq.valid /\ tag.out.full THEN 1 ELSE 0)
      /\ tag_anal_en /\ r \in Tags \cup {None}
  BY DEF Proper, Bus
<1>2. /\ bus.age \in [Tags -> Nat \cup {None}] /\ bus.rest \in [Tags -> Nat]
      /\ r # None => InUse(r)
  BY ProperTags DEF Ages
<1>3. ASSUME NEW i \in Tags, ~InUse(i), bus.rest[i] < 2
      PROVE  bus'.rest[i] < 3
  BY <1>1, <1>2, <1>3, RestAssumption
<1>4. r # None => bus'.rest[r] = 1
  BY <1>1, <1>2
<1> QED BY <1>1, <1>2, <1>3, <1>4 DEF One

(* The tags go from register to register.                                  *)
LEMMA CountedStep ==
  ASSUME IInv, Counted, NEW c, NEW r, Proper(c, r)
  PROVE  /\ Counted'
         /\ Left' = {tag.rtag_d} \ {None} /\ tag'.wen = Left
         /\ \A i \in Tags : tag'.counters[i] =
              IF i \in tag.wen THEN 0 ELSE tag.counters[i] + One(i \in tag.track)
<1>1. /\ Left \subseteq Tags /\ tag.wen \subseteq Tags
      /\ \A i, j \in Left : i = j
      /\ Left \cap tag.track = {} /\ Left \cap tag.wen = {} /\ tag.wen \cap tag.track = {}
      /\ \A i \in Left : bus.rest[i] < 3
      /\ tag.counters \in [Tags -> Nat]
      /\ \A i \in Tags : InUse(i) => tag.counters[i] + 1 = bus.age[i]
      /\ \A i \in Tags \ (tag.track \cup Left \cup tag.wen) : tag.counters[i] = 0
  BY DEF Counted
<1>2. /\ c # None => ~InUse(c) /\ c # tag.rtag_d /\ bus.rest[c] >= Rest
      /\ r # None => InUse(r)
      /\ c \in Tags \cup {None} /\ r \in Tags \cup {None}
      /\ tag.track = {i \in Tags : InUse(i) \/ i = tag.rtag_d}
      /\ tag.rtag_d \in Tags \cup {None}
      /\ tag.rtag_d # None => ~InUse(tag.rtag_d) /\ bus.rest[tag.rtag_d] < 2
      /\ bus.rest \in [Tags -> Nat]
      /\ tag'.track = (tag.track \cup ({c} \ {None})) \ {tag.rtag_d}
      /\ tag'.rtag_d = r
  BY ProperTags DEF Proper
<1>3. /\ tag'.track_d = tag.track /\ tag'.counters = A!Counters(tag)
      /\ tag'.wen = Left \ tag.wen
  BY ProperEdge
<1>4. /\ \A i \in Tags :
           bus'.age[i] = IF InUse(i) THEN IF i = r THEN None ELSE bus.age[i] + 1
                         ELSE IF i = c THEN 1 ELSE None
      /\ \A i \in Tags : ~InUse(i) /\ bus.rest[i] < 2 => bus'.rest[i] < 3
  BY ProperBus
<1>5. /\ tag'.counters \in [Tags -> Nat]
      /\ \A i \in Tags : tag'.counters[i] =
           IF i \in tag.wen THEN 0 ELSE tag.counters[i] + One(i \in tag.track)
  BY <1>1, <1>3 DEF A!Counters, One
<1>6. /\ Left' = {tag.rtag_d} \ {None} /\ tag'.wen = Left
      /\ None \notin Tags
  BY <1>1, <1>2, <1>3, NoneAssumption DEF Left
<1>7. c \notin Left
  BY <1>1, <1>2, <1>6, RestAssumption
<1>8. /\ Left' \subseteq Tags /\ tag'.wen \subseteq Tags
      /\ \A i, j \in Left' : i = j
      /\ \A i, j \in tag'.wen : i = j
      /\ Left' \cap tag'.track = {} /\ Left' \cap tag'.wen = {} /\ tag'.wen \cap tag'.track = {}
  BY <1>1, <1>2, <1>6, <1>7
<1>9. \A i \in Left' : bus'.rest[i] < 3
  BY <1>2, <1>4, <1>6
<1>10. ASSUME NEW i \in Tags, InUse(i)'
       PROVE  tag'.counters[i] + 1 = bus'.age[i]
  <2>1. bus'.age[i] # None
    BY <1>10 DEF InUse
  <2>2. CASE InUse(i)
    <3>1. bus'.age[i] = bus.age[i] + 1 /\ i \in tag.track /\ i \notin tag.wen
      BY <1>1, <1>2, <1>4, <2>1, <2>2
    <3>2. tag'.counters[i] = tag.counters[i] + 1 /\ tag.counters[i] + 1 = bus.age[i]
      BY <1>1, <1>5, <2>2, <3>1 DEF One
    <3> QED BY <3>1, <3>2
  <2>3. CASE ~InUse(i)
    <3>1. bus'.age[i] = 1 /\ i = c
      BY <1>4, <2>1, <2>3
    <3>2. i \notin tag.track /\ i \notin Left
      BY <1>2, <1>6, <1>7, <2>3, <3>1
    <3>3. tag'.counters[i] = 0
      <4>1. CASE i \in tag.wen
        BY <1>5, <4>1
      <4>2. CASE i \notin tag.wen
        BY <1>1, <1>5, <3>2, <4>2 DEF One
      <4> QED BY <4>1, <4>2
    <3> QED BY <3>1, <3>3
  <2> QED BY <2>2, <2>3
<1>11. ASSUME NEW i \in Tags \ (tag'.track \cup Left' \cup tag'.wen)
       PROVE  tag'.counters[i] = 0
  <2>1. i \notin tag.track /\ i \notin Left
    BY <1>2, <1>6, <1>11
  <2>2. CASE i \in tag.wen
    BY <1>5, <2>2
  <2>3. CASE i \notin tag.wen
    BY <1>1, <1>5, <2>1, <2>3 DEF One
  <2> QED BY <2>2, <2>3
<1> QED BY <1>5, <1>6, <1>8, <1>9, <1>10, <1>11 DEF Counted

(* The history of the times only grows.                                    *)
LEMMA TookGrows ==
  ASSUME IInv, NEW c, NEW r, Proper(c, r), bus.took \in Seq(Nat \ {0})
  PROVE  /\ bus'.took \in Seq(Nat \ {0}) /\ Len(bus.took) \in Nat
         /\ Len(bus'.took) = Len(bus.took) + One(r # None)
         /\ \A x \in 1 .. Len(bus.took) : bus'.took[x] = bus.took[x]
         /\ ToSet(bus.took) \subseteq ToSet(bus'.took)
         /\ r # None => bus'.took[Len(bus'.took)] = bus.age[r] + 1 /\ bus.age[r] \in Nat
<1> DEFINE s == bus.took
           t == bus'.took
<1>0. bus'.took = IF r # None THEN Append(bus.took, bus.age[r] + 1) ELSE bus.took
  BY ProperBus
<1>1. CASE r = None
  <2>1. t = s
    BY <1>0, <1>1
  <2> QED BY <1>1, <2>1 DEF One
<1>2. CASE r # None
  <2>1. t = Append(s, bus.age[r] + 1)
    BY <1>0, <1>2
  <2>2. bus.age[r] \in Nat
    <3>1. r \in Tags /\ InUse(r)
      BY <1>2, ProperTags DEF Proper
    <3>2. bus.age[r] \in Nat \cup {None} /\ bus.age[r] # None
      BY <3>1, ProperBus DEF InUse
    <3> QED BY <3>2
  <2> DEFINE v == bus.age[r] + 1
  <2>3. v \in Nat \ {0} /\ t = Append(s, v)
    BY <2>1, <2>2
  <2> HIDE DEF s, t, v
  <2>4. s \in Seq(Nat \ {0})
    BY DEF s
  <2>5. /\ t \in Seq(Nat \ {0}) /\ Len(s) \in Nat /\ Len(t) = Len(s) + 1
        /\ \A x \in 1 .. Len(s) : t[x] = s[x]
        /\ t[Len(t)] = v
    BY <2>3, <2>4
  <2>6. ToSet(t) = ToSet(s) \cup {v}
    BY <2>3, <2>4, ToSetAppend
  <2> QED BY <1>2, <2>2, <2>5, <2>6 DEF One, s, t, v
<1> QED BY <1>1, <1>2

(* A stage in use holds one of the times taken.                            *)
LEMMA StagesHold ==
  ASSUME InStages
  PROVE  /\ \A k \in {At1, At2, At3, At4, At5, At6, At7, At8, Recorded} :
              k \in Nat /\ k <= Len(bus.took)
         /\ tag.rtag_d # None => At1 >= 1
         /\ Left # {} => At2 >= 1
         /\ tag.wen # {} => At3 >= 1
         /\ tag.tq_wen => At4 >= 1
         /\ tag.tq_wen_d => At5 >= 1
         /\ tag.tq_wen_dd => At6 >= 1
         /\ ~tag.tq.empty => At7 >= 1
         /\ tag.tq.valid => At8 >= 1
<1>1. Recorded \in Nat /\ Len(bus.took) \in Nat
  BY DEF InStages
<1>2. At8 \in Nat /\ Recorded <= At8 /\ (tag.tq.valid => At8 >= 1)
  <2>1. Recorded = At8 - One(tag.tq.valid) /\ One(tag.tq.valid) \in {0, 1}
        /\ (tag.tq.valid => One(tag.tq.valid) = 1) /\ At8 \in Int
    BY <1>1 DEF Recorded, One, At8, At7, At6, At5, At4, At3, At2, At1
  <2> QED BY <1>1, <2>1
<1>3. At7 \in Nat /\ At8 <= At7 /\ (~tag.tq.empty => At7 >= 1)
  <2>1. At8 = At7 - One(~tag.tq.empty) /\ One(~tag.tq.empty) \in {0, 1}
        /\ (~tag.tq.empty => One(~tag.tq.empty) = 1) /\ At7 \in Int
    BY <1>1 DEF One, At8, At7, At6, At5, At4, At3, At2, At1
  <2> QED BY <1>2, <2>1
<1>4. At6 \in Nat /\ At7 <= At6 /\ (tag.tq_wen_dd => At6 >= 1)
  <2>1. At7 = At6 - One(tag.tq_wen_dd) /\ One(tag.tq_wen_dd) \in {0, 1}
        /\ (tag.tq_wen_dd => One(tag.tq_wen_dd) = 1) /\ At6 \in Int
    BY <1>1 DEF One, At7, At6, At5, At4, At3, At2, At1
  <2> QED BY <1>3, <2>1
<1>5. At5 \in Nat /\ At6 <= At5 /\ (tag.tq_wen_d => At5 >= 1)
  <2>1. At6 = At5 - One(tag.tq_wen_d) /\ One(tag.tq_wen_d) \in {0, 1}
        /\ (tag.tq_wen_d => One(tag.tq_wen_d) = 1) /\ At5 \in Int
    BY <1>1 DEF One, At6, At5, At4, At3, At2, At1
  <2> QED BY <1>4, <2>1
<1>6. At4 \in Nat /\ At5 <= At4 /\ (tag.tq_wen => At4 >= 1)
  <2>1. At5 = At4 - One(tag.tq_wen) /\ One(tag.tq_wen) \in {0, 1}
        /\ (tag.tq_wen => One(tag.tq_wen) = 1) /\ At4 \in Int
    BY <1>1 DEF One, At5, At4, At3, At2, At1
  <2> QED BY <1>5, <2>1
<1>7. At3 \in Nat /\ At4 <= At3 /\ (tag.wen # {} => At3 >= 1)
  <2>1. At4 = At3 - One(tag.wen # {}) /\ One(tag.wen # {}) \in {0, 1}
        /\ (tag.wen # {} => One(tag.wen # {}) = 1) /\ At3 \in Int
    BY <1>1 DEF One, At4, At3, At2, At1
  <2> QED BY <1>6, <2>1
<1>8. At2 \in Nat /\ At3 <= At2 /\ (Left # {} => At2 >= 1)
  <2>1. At3 = At2 - One(Left # {}) /\ One(Left # {}) \in {0, 1}
        /\ (Left # {} => One(Left # {}) = 1) /\ At2 \in Int
    BY <1>1 DEF One, At3, At2, At1
  <2> QED BY <1>7, <2>1
<1>9. At1 \in Nat /\ At2 <= At1 /\ (tag.rtag_d # None => At1 >= 1) /\ At1 = Len(bus.took)
  <2>1. At2 = At1 - One(tag.rtag_d # None) /\ One(tag.rtag_d # None) \in {0, 1}
        /\ (tag.rtag_d # None => One(tag.rtag_d # None) = 1) /\ At1 = Len(bus.took)
    BY <1>1 DEF One, At2, At1
  <2> QED BY <1>1, <1>8, <2>1
<1> QED BY <1>1, <1>2, <1>3, <1>4, <1>5, <1>6, <1>7, <1>8, <1>9

(* The fifo in the middle passes a word on in the clock after it came.     *)
LEMMA DrainedStep ==
  ASSUME IInv, Drained, InStages, NEW c, NEW r, Proper(c, r)
  PROVE  /\ Drained'
         /\ ~tag'.tq.empty <=> tag.tq_wen_dd
         /\ tag.tq_wen_dd => tag'.tq.mem[tag'.tq.raddr] = tag.tq_wdata_d
         /\ tag'.tq.valid <=> ~tag.tq.empty
         /\ ~tag.tq.empty => tag'.tq.data = tag.tq.mem[tag.tq.raddr]
<1> DEFINE f == tag.tq
           g == tag'.tq
           n == A!Tq!Words
           w == IF tag.tq_wen_dd THEN tag.tq_wdata_d ELSE None
           p == (~f.valid \/ tag.tq_read) /\ ~f.empty
<1>1. /\ f.raddr \in Addresses(n) /\ f.mem = [a \in Addresses(n) |-> f.mem[a]]
      /\ f.empty \in BOOLEAN /\ f.valid \in BOOLEAN /\ tag.tq_read \in BOOLEAN
      /\ f.waddr = IF f.empty THEN f.raddr ELSE (f.raddr + 1) % n
      /\ f.valid => tag.tq_read
  BY DEF Drained
<1>2. /\ g.mem = IF w = None THEN f.mem ELSE [f.mem EXCEPT ![f.waddr] = w]
      /\ g.waddr = IF w = None THEN f.waddr ELSE (f.waddr + 1) % n
      /\ g.raddr = IF p THEN (f.raddr + 1) % n ELSE f.raddr
      /\ g.empty = (w = None /\ (f.empty \/ (p /\ g.raddr = f.waddr)))
      /\ g.valid = (p \/ (f.valid /\ ~tag.tq_read))
      /\ g.data = IF p THEN f.mem[f.raddr] ELSE f.data
  <2>1. g = A!Tq!FifoEdge(f, FALSE, w, tag.tq_read)
    BY ProperEdge
  <2> QED BY <2>1 DEF A!Tq!FifoEdge, A!Tq!FifoPop
<1>3. tag'.tq_read = ~f.empty
  BY ProperEdge
<1>4. /\ n \in Nat \ {0}
      /\ \A x \in Addresses(n) : (x + 1) % n \in Addresses(n)
  BY TimesAssumption DEF Addresses
<1>5. w # None <=> tag.tq_wen_dd
  <2>1. ASSUME tag.tq_wen_dd PROVE tag.tq_wdata_d \in Nat
    <3>1. /\ At6 \in 1 .. Len(bus.took) /\ bus.took[At6] = tag.tq_wdata_d
          /\ bus.took \in Seq(Nat \ {0})
      BY <2>1, StagesHold DEF InStages
    <3> QED BY <3>1
  <2> QED BY <2>1, NoneAssumption
<1> HIDE DEF f, g, n, w
<1>6. p <=> ~f.empty
  BY <1>1
<1>7. f.waddr \in Addresses(n) /\ g.raddr = f.waddr
  BY <1>1, <1>2, <1>4, <1>6
<1>8. ~g.empty <=> tag.tq_wen_dd
  BY <1>1, <1>2, <1>5, <1>6, <1>7
<1>9. tag.tq_wen_dd => g.mem[g.raddr] = tag.tq_wdata_d
  BY <1>1, <1>2, <1>5, <1>7 DEF w
<1>10. g.valid <=> ~f.empty
  BY <1>1, <1>2, <1>6
<1>11. ~f.empty => g.data = f.mem[f.raddr]
  BY <1>2, <1>6
<1>12. /\ g.raddr \in Addresses(n)
       /\ g.mem = [a \in Addresses(n) |-> g.mem[a]]
       /\ g.empty \in BOOLEAN /\ g.valid \in BOOLEAN /\ tag'.tq_read \in BOOLEAN
  BY <1>1, <1>2, <1>3, <1>7
<1>13. g.waddr = IF g.empty THEN g.raddr ELSE (g.raddr + 1) % n
  BY <1>2, <1>5, <1>7, <1>8
<1>14. g.valid => tag'.tq_read
  BY <1>3, <1>10
<1> QED BY <1>8, <1>9, <1>10, <1>11, <1>12, <1>13, <1>14 DEF Drained, f, g, n

(* The only tag of a set is the one the encoder finds.                     *)
LEMMA FindOnly ==
  ASSUME NEW i \in Tags
  PROVE  A!Find({i}) = i
<1>1. i \in Nat
  BY TagsAssumption
<1> DEFINE G(x) == x \in {i} \cup {0} /\ \A j \in {i} : j <= x
<1>2. G(i)
  BY <1>1
<1>3. \A x : G(x) => x = i
  BY <1>1
<1>4. A!Find({i}) = CHOOSE x : G(x)
  BY DEF A!Find
<1> HIDE DEF G
<1> QED BY <1>2, <1>3, <1>4

(* Each stage takes over what was in the one before.                       *)
LEMMA StagesStep ==
  ASSUME IInv, Counted, Drained, InStages, NEW c, NEW r, Proper(c, r)
  PROVE  InStages' /\ Recorded' = At8
<1>1. /\ Left' = {tag.rtag_d} \ {None} /\ tag'.wen = Left
      /\ \A i \in Tags : tag'.counters[i] =
           IF i \in tag.wen THEN 0 ELSE tag.counters[i] + One(i \in tag.track)
  BY CountedStep
<1>2. /\ tag'.rtag_d = r /\ tag.rtag_d \in Tags \cup {None}
      /\ tag.track = {i \in Tags : InUse(i) \/ i = tag.rtag_d}
      /\ r \in Tags \cup {None} /\ (r # None => InUse(r))
  BY ProperTags DEF Proper
<1>3. /\ bus'.took \in Seq(Nat \ {0}) /\ Len(bus.took) \in Nat
      /\ Len(bus'.took) = Len(bus.took) + One(r # None)
      /\ \A x \in 1 .. Len(bus.took) : bus'.took[x] = bus.took[x]
      /\ r # None => bus'.took[Len(bus'.took)] = bus.age[r] + 1
  BY TookGrows DEF InStages
<1>4. /\ ~tag'.tq.empty <=> tag.tq_wen_dd
      /\ tag.tq_wen_dd => tag'.tq.mem[tag'.tq.raddr] = tag.tq_wdata_d
      /\ tag'.tq.valid <=> ~tag.tq.empty
      /\ ~tag.tq.empty => tag'.tq.data = tag.tq.mem[tag.tq.raddr]
  BY DrainedStep
<1>5. /\ tag'.counters_d = tag.counters /\ tag'.find = A!Find(tag.wen)
      /\ tag'.tq_wen = (tag.wen # {}) /\ tag'.tq_wen_d = tag.tq_wen
      /\ tag'.tq_wen_dd = tag.tq_wen_d
      /\ tag'.tq_wdata = tag.counters_d[tag.find] /\ tag'.tq_wdata_d = tag.tq_wdata
  BY ProperEdge
<1>6. /\ \A k \in {At1, At2, At3, At4, At5, At6, At7, At8, Recorded} :
           k \in Nat /\ k <= Len(bus.took)
      /\ tag.rtag_d # None => At1 >= 1
      /\ Left # {} => At2 >= 1
      /\ tag.wen # {} => At3 >= 1
      /\ tag.tq_wen => At4 >= 1
      /\ tag.tq_wen_d => At5 >= 1
      /\ tag.tq_wen_dd => At6 >= 1
      /\ ~tag.tq.empty => At7 >= 1
  BY StagesHold
<1>7. At2' = At1
  <2>1. At2' = Len(bus'.took) - One(r # None) /\ One(r # None) \in {0, 1}
    BY <1>2 DEF At2, At1, One
  <2> QED BY <1>3, <2>1 DEF At1
<1>8. At3' = At2
  <2>1. Left' # {} <=> tag.rtag_d # None
    BY <1>1
  <2> QED BY <1>7, <2>1 DEF At3, At2, One
<1>9. At4' = At3
  <2>1. tag'.wen # {} <=> Left # {}
    BY <1>1
  <2> QED BY <1>8, <2>1 DEF At4, At3, One
<1>10. At5' = At4
  BY <1>5, <1>9 DEF At5, At4, One
<1>11. At6' = At5
  BY <1>5, <1>10 DEF At6, At5, One
<1>12. At7' = At6
  BY <1>5, <1>11 DEF At7, At6, One
<1>13. At8' = At7
  BY <1>4, <1>12 DEF At8, At7, One
<1>14. Recorded' = At8
  BY <1>4, <1>13 DEF Recorded, At8, One
<1>15. r # None => bus'.took[At1'] = tag'.counters[r] + 1
  <2>1. ASSUME r # None PROVE tag'.counters[r] = bus.age[r]
    <3>1. r \in Tags /\ InUse(r) /\ r \in tag.track
      BY <1>2, <2>1
    <3>2. r \notin tag.wen /\ tag.counters[r] + 1 = bus.age[r]
      BY <3>1 DEF Counted
    <3> QED BY <1>1, <3>1, <3>2 DEF One
  <2> QED BY <1>3, <2>1 DEF At1
<1>16. ASSUME NEW i \in Left'
       PROVE  bus'.took[At2'] = tag'.counters[i]
  <2>1. i = tag.rtag_d /\ tag.rtag_d # None /\ i \in Tags /\ i \in tag.track
    BY <1>1, <1>2, <1>16
  <2>2. i \notin tag.wen /\ tag.counters[i] \in Nat
    BY <2>1 DEF Counted
  <2>3. tag'.counters[i] = tag.counters[i] + 1
    BY <1>1, <2>1, <2>2 DEF One
  <2>4. bus.took[At1] = tag.counters[i] + 1
    BY <2>1 DEF InStages
  <2>5. At1 \in 1 .. Len(bus.took)
    BY <1>3, <1>6, <2>1
  <2> QED BY <1>3, <1>7, <2>3, <2>4, <2>5
<1>17. ASSUME NEW i \in tag'.wen
       PROVE  bus'.took[At3'] = tag'.counters[i]
  <2>1. i \in Left /\ i \in Tags /\ i \notin tag.track /\ i \notin tag.wen
        /\ tag.counters[i] \in Nat
    BY <1>1, <1>17 DEF Counted
  <2>2. tag'.counters[i] = tag.counters[i]
    BY <1>1, <2>1 DEF One
  <2>3. bus.took[At2] = tag.counters[i]
    BY <2>1 DEF InStages
  <2>4. At2 \in 1 .. Len(bus.took)
    BY <1>3, <1>6, <2>1
  <2> QED BY <1>3, <1>8, <2>2, <2>3, <2>4
<1>18. tag'.tq_wen => bus'.took[At4'] = tag'.counters_d[tag'.find]
  <2>1. SUFFICES ASSUME tag.wen # {}
                 PROVE  bus'.took[At3] = tag.counters[A!Find(tag.wen)]
    BY <1>5, <1>9
  <2>2. PICK i \in Tags : tag.wen = {i}
    BY <2>1 DEF Counted
  <2>3. A!Find(tag.wen) = i
    BY <2>2, FindOnly
  <2>4. bus.took[At3] = tag.counters[i]
    BY <2>2 DEF InStages
  <2>5. At3 \in 1 .. Len(bus.took)
    BY <1>3, <1>6, <2>1
  <2> QED BY <1>3, <2>3, <2>4, <2>5
<1>19. tag'.tq_wen_d => bus'.took[At5'] = tag'.tq_wdata
  <2>1. SUFFICES ASSUME tag.tq_wen
                 PROVE  bus'.took[At4] = tag.counters_d[tag.find]
    BY <1>5, <1>10
  <2>2. bus.took[At4] = tag.counters_d[tag.find] /\ At4 \in 1 .. Len(bus.took)
    BY <1>3, <1>6, <2>1 DEF InStages
  <2> QED BY <1>3, <2>2
<1>20. tag'.tq_wen_dd => bus'.took[At6'] = tag'.tq_wdata_d
  <2>1. SUFFICES ASSUME tag.tq_wen_d
                 PROVE  bus'.took[At5] = tag.tq_wdata
    BY <1>5, <1>11
  <2>2. bus.took[At5] = tag.tq_wdata /\ At5 \in 1 .. Len(bus.took)
    BY <1>3, <1>6, <2>1 DEF InStages
  <2> QED BY <1>3, <2>2
<1>21. ~tag'.tq.empty => bus'.took[At7'] = tag'.tq.mem[tag'.tq.raddr]
  <2>1. SUFFICES ASSUME tag.tq_wen_dd
                 PROVE  bus'.took[At6] = tag.tq_wdata_d
    BY <1>4, <1>12
  <2>2. bus.took[At6] = tag.tq_wdata_d /\ At6 \in 1 .. Len(bus.took)
    BY <1>3, <1>6, <2>1 DEF InStages
  <2> QED BY <1>3, <2>2
<1>22. tag'.tq.valid => bus'.took[At8'] = tag'.tq.data
  <2>1. SUFFICES ASSUME ~tag.tq.empty
                 PROVE  bus'.took[At7] = tag.tq.mem[tag.tq.raddr]
    BY <1>4, <1>13
  <2>2. bus.took[At7] = tag.tq.mem[tag.tq.raddr] /\ At7 \in 1 .. Len(bus.took)
    BY <1>3, <1>6, <2>1 DEF InStages
  <2> QED BY <1>3, <2>2
<1>23. /\ Recorded' \in Nat
       /\ tag'.tq_wen \in BOOLEAN /\ tag'.tq_wen_d \in BOOLEAN /\ tag'.tq_wen_dd \in BOOLEAN
  BY <1>5, <1>6, <1>14 DEF InStages
<1>24. tag'.rtag_d # None => bus'.took[At1'] = tag'.counters[tag'.rtag_d] + 1
  BY <1>2, <1>15
<1> QED BY <1>3, <1>14, <1>16, <1>17, <1>18, <1>19, <1>20, <1>21, <1>22, <1>23, <1>24 DEF InStages

(* A word at the output of the last fifo is the oldest.                    *)
OldestAtHand ==
  /\ OutWords \in Nat
  /\ tag.out.valid \in BOOLEAN /\ tag.out.full \in BOOLEAN
  /\ tag.out.valid => OutWords >= 1 /\ OutWord(0) = tag.out.data

(* So it is when the fifo is a ring with a free word.                      *)
LEMMA AtHand == Roomy => OldestAtHand
<1> SUFFICES ASSUME Roomy PROVE OldestAtHand
  OBVIOUS
<1> DEFINE n == A!Out!Words
           C == Count(n, tag.out)
<1>1. n \in Nat \ {0}
  BY TimesAssumption
<1>2. /\ tag.out.raddr \in Addresses(n) /\ tag.out.waddr \in Addresses(n)
      /\ tag.out.valid \in BOOLEAN /\ tag.out.full \in BOOLEAN
  BY DEF Roomy, Ring
<1> HIDE DEF n
<1>3. C \in Addresses(n)
  BY <1>1, <1>2, Apart DEF Count
<1>4. C \in Nat
  BY <1>3 DEF Addresses
<1>5. OutWords = One(tag.out.valid) + C
  BY DEF OutWords, Total, n
<1> HIDE DEF C
<1>6. OutWords \in Nat /\ (tag.out.valid => OutWords >= 1)
  BY <1>4, <1>5 DEF One
<1>7. tag.out.valid => OutWord(0) = tag.out.data
  BY DEF OutWord, Word
<1> QED BY <1>2, <1>6, <1>7 DEF OldestAtHand

(* The same of the state after a step.                                     *)
LEMMA AtHandNext == Roomy' => OldestAtHand'
  BY AtHand, PTL

(* What the clock does to the last fifo: it takes the time that leaves the *)
(* one before, unless full is raised, and loses the one at the output when *)
(* it is read.                                                             *)
LEMMA QueueStep ==
  ASSUME IInv, Roomy, InStages, tag_read \in BOOLEAN, NEW c, NEW r, Proper(c, r)
  PROVE  LET d == One(tag_read /\ tag.out.valid)
             o == One(tag.tq.valid /\ ~tag.out.full)
         IN  /\ Roomy'
             /\ d <= OutWords /\ OutWords' \in Nat /\ OutWords' = OutWords - d + o
             /\ \A k \in 0 .. OutWords' - 1 :
                  IF k + d < OutWords THEN Word(A!Out!Words, tag'.out, k) = OutWord(k + d)
                  ELSE Word(A!Out!Words, tag'.out, k) = tag.tq.data
             /\ tag.out.valid /\ ~tag_read => tag'.out.valid /\ tag'.out.data = tag.out.data
             /\ ~tag.out.empty => tag'.out.valid
             /\ tag'.out.valid \/ tag'.out.data = tag.out.data
             /\ ~tag'.out.empty /\ ~tag'.out.valid => tag.tq.valid
<1> DEFINE n == A!Out!Words
           f == tag.out
           g == tag'.out
           w == IF f.full THEN None ELSE IF tag.tq.valid THEN tag.tq.data ELSE None
           p == F!FifoPop(f, tag_read)
           d == One(tag_read /\ f.valid)
           o == One(tag.tq.valid /\ ~f.full)
           C == Count(n, f)
           D == Count(n, g)
<1>1. n \in Nat /\ n >= 2
  BY TimesAssumption
<1>2. /\ Ring(n, f) /\ C <= n - (IF f.full THEN 1 ELSE 2)
      /\ f.full \in BOOLEAN /\ f.valid \in BOOLEAN
  BY DEF Roomy, Ring
<1>3. w # None <=> tag.tq.valid /\ ~f.full
  <2>1. ASSUME tag.tq.valid PROVE tag.tq.data \in Nat
    <3>1. At8 \in Nat /\ At8 <= Len(bus.took) /\ At8 >= 1
      BY <2>1, StagesHold
    <3>2. bus.took[At8] = tag.tq.data /\ bus.took \in Seq(Nat \ {0})
      BY <2>1 DEF InStages
    <3> QED BY <3>1, <3>2
  <2> QED BY <2>1, NoneAssumption
<1>4. One(w # None) = o /\ o \in {0, 1} /\ (f.full => o = 0)
  BY <1>3 DEF One
<1>5. g = A!Out!FifoEdge(f, FALSE, w, tag_read)
  BY ProperEdge
<1>6. C \in Nat
  <2>1. /\ f.raddr \in Addresses(n) /\ f.waddr \in Addresses(n) /\ n \in Nat \ {0}
    BY <1>1, <1>2 DEF Ring
  <2> HIDE DEF n, f
  <2>2. C \in Addresses(n)
    BY <2>1, Apart DEF Count
  <2> QED BY <2>2 DEF Addresses
<1>7. C + One(w # None) < n
  <2> HIDE DEF C, n, w, o, f
  <2> QED BY <1>1, <1>2, <1>4, <1>6
<1>8. Stepped(n, 2, f, w, tag_read, g)
  <2> HIDE DEF w
  <2> QED BY <1>2, <1>5, <1>7, TimesFifoStep
<1>9. /\ Ring(n, g) /\ D = C - One(p) + o /\ One(p) \in {0, 1} /\ (p => C > 0)
      /\ g.valid <=> p \/ (f.valid /\ ~tag_read)
      /\ ~p => g.data = f.data
      /\ g.full <=> n - 1 - C <= 2
      /\ ~p => One(p) = 0
  BY <1>4, <1>8 DEF Stepped, One
<1>10. /\ p <=> (~f.valid \/ tag_read) /\ ~f.empty
       /\ f.empty <=> C = 0
       /\ g.empty <=> D = 0
       /\ g.full \in BOOLEAN
  BY <1>2, <1>9 DEF F!FifoPop, Ring
<1>11. /\ Total(n, f) \in Nat /\ Total(n, g) \in Nat /\ d <= Total(n, f)
       /\ Total(n, g) = Total(n, f) - d + One(w # None)
       /\ \A k \in 0 .. Total(n, g) - 1 :
            IF k + d < Total(n, f) THEN Word(n, g, k) = Word(n, f, k + d)
            ELSE Word(n, g, k) = w
  <2> HIDE DEF n, f, g, w
  <2> QED BY <1>1, <1>2, <1>8, FifoIsQueue DEF d
<1>12. /\ OutWords = Total(n, f) /\ OutWords' = Total(n, g)
       /\ \A k : OutWord(k) = Word(n, f, k)
  BY DEF OutWords, OutWord, Total, Count
<1>13. D <= n - (IF g.full THEN 1 ELSE 2)
  <2> HIDE DEF n, f, g, w, p, o, C, D
  <2>0. One(p) <= C
    BY <1>6, <1>9
  <2>1. CASE g.full /\ f.full
    BY <1>1, <1>2, <1>4, <1>6, <1>9, <2>0, <2>1
  <2>2. CASE g.full /\ ~f.full
    BY <1>1, <1>2, <1>4, <1>6, <1>9, <2>0, <2>2
  <2>3. CASE ~g.full
    <3>1. C <= n - 4
      BY <1>1, <1>6, <1>9, <2>3
    <3> QED BY <1>1, <1>4, <1>6, <1>9, <2>0, <2>3, <3>1
  <2> QED BY <1>2, <1>10, <2>1, <2>2, <2>3
<1>14. Roomy'
  <2>1. Roomy' <=> Ring(n, g) /\ D <= n - (IF g.full THEN 1 ELSE 2)
    BY DEF Roomy, Ring, Count
  <2> QED BY <1>9, <1>13, <2>1
<1>15. ~g.empty /\ ~g.valid => tag.tq.valid
  <2> HIDE DEF n, f, g, w, p, o, C, D
  <2>1. ASSUME ~g.empty, ~g.valid PROVE o # 0
    <3>1. ~p /\ f.empty
      BY <1>9, <1>10, <2>1
    <3> QED BY <1>6, <1>9, <1>10, <2>1, <3>1
  <2> QED BY <2>1 DEF o, One
<1>16. ASSUME NEW k \in 0 .. OutWords' - 1
       PROVE  IF k + d < OutWords THEN Word(n, g, k) = OutWord(k + d)
              ELSE Word(n, g, k) = tag.tq.data
  <2> HIDE DEF n, f, g, p, C, D
  <2>1. IF k + d < Total(n, f) THEN Word(n, g, k) = Word(n, f, k + d)
        ELSE Word(n, g, k) = w
    BY <1>11, <1>12, <1>16
  <2>2. CASE k + d < Total(n, f)
    BY <1>12, <2>1, <2>2
  <2>3. CASE ~(k + d < Total(n, f))
    <3>1. o # 0
      <4> HIDE DEF w, o, d
      <4>0. d \in {0, 1}
        BY DEF d, One
      <4> QED BY <1>4, <1>11, <1>12, <1>16, <2>3, <4>0
    <3>2. w = tag.tq.data
      BY <3>1 DEF o, One
    <3> QED BY <1>12, <2>1, <2>3, <3>2
  <2> QED BY <2>2, <2>3
<1>17. /\ f.valid /\ ~tag_read => g.valid /\ g.data = f.data
       /\ ~f.empty => g.valid
       /\ g.valid \/ g.data = f.data
  BY <1>9, <1>10
<1>18. d <= OutWords /\ OutWords' \in Nat /\ OutWords' = OutWords - d + o
  BY <1>4, <1>11, <1>12
<1> HIDE DEF p, C, D, n, w
<1> QED BY <1>14, <1>15, <1>16, <1>17, <1>18 DEF n

(* What the program's step does to an access to the times, as Samples to   *)
(* Elsewhere for the trace.                                                *)
SamplesTime ==
  /\ acc.reg = "tag_data" /\ acc.edges = Inp /\ ~tag_read /\ tag_read'
  /\ acc' = [reg |-> "tag_data", edges |-> Inp + 1, data |-> A!TagData(tag)]
  /\ UNCHANGED <<pc, log>>

WaitsTime ==
  /\ acc.reg = "tag_data" /\ acc.edges # Inp /\ ~tag_read' /\ acc.edges + 1 <= Out
  /\ acc' = [reg |-> "tag_data", edges |-> acc.edges + 1, data |-> acc.data]
  /\ UNCHANGED <<pc, log>>

PrintsTime ==
  /\ acc.reg = "tag_data" /\ acc.edges = Out /\ acc.data # 0 /\ ~tag_read /\ ~tag_read'
  /\ acc' = [reg |-> "tag_data", edges |-> 0, data |-> None]
  /\ log'.times = Append(log.times, acc.data)
  /\ log'.stats = log.stats /\ UNCHANGED pc

EndsTimes ==
  /\ acc.reg = "tag_data" /\ acc.edges = Out /\ acc.data = 0 /\ ~tag_read /\ ~tag_read'
  /\ acc' = NoAccess
  /\ log'.times = log.times /\ log'.stats = log.stats + 1

NoTimes ==
  /\ acc.reg # "tag_data" /\ ~tag_read /\ ~tag_read'
  /\ acc' = [reg |-> acc'.reg, edges |-> acc'.edges, data |-> acc'.data]
  /\ acc'.edges \in 0 .. Out
  /\ acc'.reg \in {"tag_min", "tag_max", "tag_data"} => pc' = "stats"
  /\ acc'.reg = "tag_data" => acc'.edges = 0 /\ acc'.data = None /\ pc = "stats"
  /\ log'.times = log.times /\ log'.stats = log.stats

(* A step of the program is one of these.                                  *)
LEMMA TimeMoves ==
  ASSUME AskedTime, Next
  PROVE  /\ tag_read' \in BOOLEAN
         /\ SamplesTime \/ WaitsTime \/ PrintsTime \/ EndsTimes \/ NoTimes
<1>0. /\ acc = [reg |-> acc.reg, edges |-> acc.edges, data |-> acc.data]
      /\ acc.edges \in 0 .. Out
      /\ acc.reg \in {"tag_min", "tag_max", "tag_data"} => pc = "stats"
      /\ tag_read \in BOOLEAN /\ (tag_read <=> acc.reg = "tag_data" /\ acc.edges = Inp + 1)
  BY DEF AskedTime
<1>1. Clock /\ tag_read' \in BOOLEAN /\ (tag_read' <=> acc.reg = "tag_data" /\ acc.edges = Inp)
  BY NextIsClock DEF Clock, Hardware, Sampled
<1>2. /\ NoAccess = [reg |-> None, edges |-> 0, data |-> None]
      /\ None \notin {"data", "tag_min", "tag_max", "tag_data", "tag_alert"}
      /\ \A reg : Read(reg) => acc' = [reg |-> reg, edges |-> 0, data |-> None]
  BY NoneAssumption DEF Read, NoAccess, Registers
<1>3. Inp = 1 /\ Out = 4
  BY DEF Inp, Out
<1>4. CASE Idle
  BY <1>0, <1>1, <1>2, <1>3, <1>4 DEF Idle, NoTimes
<1>5. CASE Access
  <2>1. /\ acc.edges < Out /\ UNCHANGED <<pc, log>>
        /\ acc' = [reg |-> acc.reg, edges |-> acc.edges + 1,
                   data |-> IF acc.edges = Inp THEN Register(acc.reg) ELSE acc.data]
    BY <1>0, <1>5 DEF Access
  <2>2. CASE acc.reg = "tag_data" /\ acc.edges = Inp
    BY <1>0, <1>1, <1>3, <2>1, <2>2 DEF SamplesTime, Register
  <2>3. CASE acc.reg = "tag_data" /\ acc.edges # Inp
    BY <1>0, <1>1, <1>3, <2>1, <2>3 DEF WaitsTime
  <2>4. CASE acc.reg # "tag_data"
    BY <1>0, <1>1, <1>3, <2>1, <2>4 DEF NoTimes
  <2> QED BY <2>2, <2>3, <2>4
<1>6. ASSUME NEW reg, Read(reg), acc.reg # "tag_data",
             reg \in {"tag_min", "tag_max", "tag_data"} => pc' = "stats",
             reg = "tag_data" => pc = "stats",
             log'.times = log.times, log'.stats = log.stats
      PROVE  NoTimes
  BY <1>0, <1>1, <1>2, <1>3, <1>6 DEF NoTimes
<1>7. ASSUME Return, acc.reg # "tag_data", log'.times = log.times, log'.stats = log.stats
      PROVE  NoTimes
  BY <1>0, <1>1, <1>2, <1>3, <1>7 DEF Return, NoTimes
<1>8. CASE DumpWord
  <2>1. acc.reg = "data" /\ Read("data") /\ log'.times = log.times /\ log'.stats = log.stats
    BY <1>8 DEF DumpWord, Answered
  <2> QED BY <1>1, <1>6, <2>1
<1>9. CASE DumpEnds
  <2>1. acc.reg = "data" /\ Return /\ log'.times = log.times /\ log'.stats = log.stats
    BY <1>9 DEF DumpEnds, Answered
  <2> QED BY <1>1, <1>7, <2>1
<1>10. CASE StatsExtreme
  <2>1. /\ acc.reg \in {"tag_min", "tag_max"} /\ (Read("tag_max") \/ Read("tag_data"))
        /\ pc' = pc /\ log'.times = log.times /\ log'.stats = log.stats
    BY <1>10 DEF StatsExtreme, Answered
  <2> QED BY <1>0, <1>1, <1>6, <2>1
<1>11. CASE StatsTime
  <2>1. /\ acc.reg = "tag_data" /\ acc.edges = Out /\ acc.data # 0 /\ Read("tag_data")
        /\ log'.times = Append(log.times, acc.data) /\ log'.stats = log.stats /\ UNCHANGED pc
    BY <1>11 DEF StatsTime, Answered
  <2> QED BY <1>0, <1>1, <1>2, <1>3, <2>1 DEF PrintsTime
<1>12. CASE StatsEnds
  <2>1. /\ acc.reg = "tag_data" /\ acc.edges = Out /\ acc.data = 0 /\ Return
        /\ log'.times = log.times /\ log'.stats = log.stats + 1
    BY <1>12 DEF StatsEnds, Answered
  <2> QED BY <1>0, <1>1, <1>2, <1>3, <2>1 DEF EndsTimes, Return
<1>13. CASE snooper_tag_alert
  <2>1. acc.reg = "tag_alert" /\ log'.times = log.times /\ log'.stats = log.stats /\ Return
    BY <1>13 DEF snooper_tag_alert, Answered
  <2> QED BY <1>1, <1>7, <2>1
<1>14. ASSUME NEW reg, reg \in {"data", "tag_min", "tag_alert"}, NEW f,
              reg = "tag_min" => f = "stats", Call(f, reg)
       PROVE  NoTimes
  <2>1. pc = "idle" /\ pc' = f /\ Read(reg) /\ log' = log
    BY <1>14 DEF Call
  <2> QED BY <1>0, <1>6, <1>14, <2>1
<1> QED BY <1>1, <1>4, <1>5, <1>8, <1>9, <1>10, <1>11, <1>12, <1>13, <1>14 DEF Next, Reading

(* A word that is read is there, and no other if no time came while times  *)
(* were read.                                                              *)
LEMMA AskedTimeStep ==
  ASSUME IInv, AskedTime, InStages, Roomy, Sourced, Next, NEW c, NEW r, Proper(c, r)
  PROVE  AskedTime'
<1>0. /\ acc.reg \in {"tag_min", "tag_max", "tag_data"} => pc = "stats"
      /\ acc.reg = "tag_data" /\ acc.edges <= Inp => acc.data = None
      /\ acc.reg = "tag_data" /\ acc.edges > Inp => acc.data \in {0} \cup ToSet(bus.took)
      /\ tag_read \in BOOLEAN /\ (tag_read <=> acc.reg = "tag_data" /\ acc.edges = Inp + 1)
      /\ acc.reg = "tag_data" /\ ~tag.out.empty /\ ~tag.out.valid => bus.mixed
      /\ acc.edges \in 0 .. Out
  BY DEF AskedTime
<1>1. tag_read' \in BOOLEAN
  BY TimeMoves
<1>2. /\ tag.out.valid /\ ~tag_read => tag'.out.valid /\ tag'.out.data = tag.out.data
      /\ ~tag.out.empty => tag'.out.valid
      /\ ~tag'.out.empty /\ ~tag'.out.valid => tag.tq.valid
  BY <1>0, QueueStep
<1>3. bus'.mixed = (bus.mixed \/ (pc = "stats" /\ tag.tq.valid))
  BY ProperBus
<1>4. ToSet(bus.took) \subseteq ToSet(bus'.took)
  BY TookGrows DEF InStages
<1>5. Inp = 1 /\ Out = 4 /\ NoAccess = [reg |-> None, edges |-> 0, data |-> None]
      /\ None \notin {"tag_min", "tag_max", "tag_data"}
  BY NoneAssumption DEF Inp, Out, NoAccess, Registers
<1>6. ASSUME pc = "stats", ~tag'.out.empty, ~tag'.out.valid
      PROVE  bus'.mixed
  BY <1>2, <1>3, <1>6
<1>7. CASE SamplesTime
  <2>1. acc'.reg = "tag_data" /\ acc'.edges = 2 /\ acc'.data = A!TagData(tag) /\ pc' = "stats"
        /\ acc' = [reg |-> acc'.reg, edges |-> acc'.edges, data |-> acc'.data]
        /\ tag_read' /\ ~tag_read /\ pc = "stats" /\ acc.reg = "tag_data"
    BY <1>0, <1>5, <1>7 DEF SamplesTime
  <2>2. acc'.data = IF tag.out.empty THEN 0 ELSE tag.out.data
    BY <2>1 DEF A!TagData
  <2>3. acc'.data \in {0} \cup ToSet(bus'.took)
    BY <1>4, <2>2 DEF Sourced
  <2>4. acc'.data # 0 => tag'.out.valid
    BY <1>2, <2>2
  <2>5. acc'.data # 0 /\ ~bus'.mixed => acc'.data = tag'.out.data
    BY <1>0, <1>2, <1>3, <2>1, <2>2
  <2> QED BY <1>1, <1>5, <1>6, <2>1, <2>3, <2>4, <2>5 DEF AskedTime
<1>8. CASE WaitsTime
  <2>1. acc'.reg = "tag_data" /\ acc'.edges = acc.edges + 1 /\ acc'.data = acc.data
        /\ pc' = "stats" /\ ~tag_read' /\ pc = "stats" /\ acc.reg = "tag_data"
        /\ acc' = [reg |-> acc'.reg, edges |-> acc'.edges, data |-> acc'.data]
        /\ acc.edges # 1 /\ acc'.edges <= Out
    BY <1>0, <1>5, <1>8 DEF WaitsTime
  <2>2. acc'.edges <= Inp => acc'.data = None
    BY <1>0, <1>5, <2>1
  <2>3. acc'.edges > Inp => acc'.data \in {0} \cup ToSet(bus'.took)
    BY <1>0, <1>4, <1>5, <2>1
  <2>4. acc'.edges # Inp + 1
    BY <1>0, <1>5, <2>1
  <2> QED BY <1>0, <1>1, <1>5, <1>6, <2>1, <2>2, <2>3, <2>4 DEF AskedTime
<1>9. CASE PrintsTime
  <2>1. acc' = [reg |-> "tag_data", edges |-> 0, data |-> None] /\ pc' = "stats" /\ pc = "stats"
        /\ ~tag_read'
    BY <1>0, <1>9 DEF PrintsTime
  <2> QED BY <1>1, <1>5, <1>6, <2>1 DEF AskedTime
<1>10. CASE EndsTimes
  <2>1. acc' = [reg |-> None, edges |-> 0, data |-> None] /\ ~tag_read'
    BY <1>5, <1>10 DEF EndsTimes
  <2> QED BY <1>1, <1>5, <2>1 DEF AskedTime
<1>11. CASE NoTimes
  <2>1. /\ acc' = [reg |-> acc'.reg, edges |-> acc'.edges, data |-> acc'.data] /\ ~tag_read'
        /\ acc'.edges \in 0 .. Out
        /\ acc'.reg \in {"tag_min", "tag_max", "tag_data"} => pc' = "stats"
        /\ acc'.reg = "tag_data" => acc'.edges = 0 /\ acc'.data = None /\ pc = "stats"
    BY <1>11 DEF NoTimes
  <2>2. acc'.reg = "tag_data" =>
          acc'.edges <= Inp /\ ~(acc'.edges > Inp) /\ acc'.edges # Inp + 1 /\ acc'.data = None
    BY <1>5, <2>1
  <2> QED BY <1>1, <1>5, <1>6, <2>1, <2>2 DEF AskedTime
<1> QED BY <1>7, <1>8, <1>9, <1>10, <1>11, TimeMoves

(* What the program does to the times given to it, and that it ends for a  *)
(* word that was removed unseen.                                           *)
LEMMA SentMoves ==
  ASSUME AskedTime, Sourced, Next, bus.took \in Seq(Nat \ {0}), log.stats \in Nat
  PROVE  LET given == tag_read /\ acc.data # 0
             gone  == tag_read /\ tag.out.valid
         IN  /\ Sent \in Seq(Nat \ {0})
             /\ given => /\ gone /\ acc.data \in ToSet(bus.took)
                         /\ ~bus.mixed => acc.data = tag.out.data
             /\ Sent' = IF given THEN Append(Sent, acc.data) ELSE Sent
             /\ log'.stats \in Nat
             /\ log.stats + One(Hidden) + One(gone) - One(given) <= log'.stats + One(Hidden')
<1> DEFINE given == tag_read /\ acc.data # 0
           gone  == tag_read /\ tag.out.valid
<1>0. /\ acc.reg = "tag_data" /\ acc.edges <= Inp => acc.data = None
      /\ acc.reg = "tag_data" /\ acc.edges > Inp => acc.data \in {0} \cup ToSet(bus.took)
      /\ tag_read \in BOOLEAN /\ (tag_read <=> acc.reg = "tag_data" /\ acc.edges = Inp + 1)
      /\ acc.edges \in 0 .. Out /\ Inp = 1 /\ Out = 4
  BY DEF AskedTime, Inp, Out
<1>1. \A v \in ToSet(bus.took) : v \in Nat \ {0} /\ v # None
  BY NoneAssumption DEF ToSet
<1>2. acc.reg = "tag_data" /\ acc.edges > Inp /\ acc.data # 0 =>
        acc.data \in ToSet(bus.took) /\ acc.data \in Nat \ {0} /\ acc.data # None
  BY <1>0, <1>1
<1>3. given => /\ gone /\ acc.data \in ToSet(bus.took)
               /\ ~bus.mixed => acc.data = tag.out.data
  <2>1. given => gone /\ (~bus.mixed => acc.data = tag.out.data)
    BY DEF AskedTime
  <2> QED BY <1>0, <1>2, <2>1
<1>4. Given <=> acc.reg = "tag_data" /\ acc.edges > Inp /\ acc.data # 0 /\ ~tag_read
  BY <1>0, <1>2 DEF Given
<1>5. Sent \in Seq(Nat \ {0}) /\ log.times \in Seq(Nat \ {0})
  <2>1. log.times \in Seq(Nat \ {0})
    BY DEF Sourced
  <2>2. CASE Given
    <3>1. acc.data \in Nat \ {0}
      BY <1>2, <1>4, <2>2
    <3> QED BY <2>1, <2>2, <3>1 DEF Sent
  <2>3. CASE ~Given
    BY <2>1, <2>3 DEF Sent
  <2> QED BY <2>1, <2>2, <2>3
<1>6. /\ None # 0 /\ None # "tag_data"
      /\ NoAccess = [reg |-> None, edges |-> 0, data |-> None]
  BY NoneAssumption DEF NoAccess, Registers
<1>7. CASE SamplesTime
  <2>1. ~Given /\ ~Given' /\ ~Hidden /\ ~Hidden' /\ ~tag_read /\ log' = log
    BY <1>0, <1>6, <1>7 DEF SamplesTime, Given, Hidden
  <2> QED BY <1>3, <1>5, <2>1 DEF Sent, One
<1>8. CASE WaitsTime
  <2>1. /\ acc.reg = "tag_data" /\ acc'.reg = "tag_data" /\ acc'.data = acc.data /\ ~tag_read'
        /\ log' = log
    BY <1>8 DEF WaitsTime
  <2>2. CASE tag_read
    <3>1. ~Given /\ (Given' <=> given) /\ ~Hidden /\ (Hidden' <=> ~given)
      BY <1>0, <1>2, <2>1, <2>2 DEF Given, Hidden
    <3>2. One(Hidden) + One(gone) - One(given) <= One(Hidden')
      BY <1>3, <3>1 DEF One
    <3>3. One(Hidden) \in Nat /\ One(gone) \in Nat /\ One(given) \in Nat /\ One(Hidden') \in Nat
      BY DEF One
    <3>4. log.stats + One(Hidden) + One(gone) - One(given) <= log'.stats + One(Hidden')
      BY <2>1, <3>2, <3>3
    <3>5. Sent' = IF given THEN Append(Sent, acc.data) ELSE Sent
      BY <2>1, <3>1 DEF Sent
    <3> QED BY <1>3, <1>5, <2>1, <3>4, <3>5
  <2>3. CASE ~tag_read
    <3>1. (Given' <=> Given) /\ (Hidden' <=> Hidden)
      BY <2>1, <2>3 DEF Given, Hidden
    <3>2. Sent' = Sent
      BY <2>1, <3>1 DEF Sent
    <3> QED BY <1>3, <1>5, <2>1, <2>3, <3>1, <3>2 DEF One
  <2> QED BY <1>0, <2>2, <2>3
<1>9. CASE PrintsTime
  <2>1. /\ Given /\ ~Given' /\ ~Hidden /\ ~Hidden' /\ ~tag_read /\ log'.stats = log.stats
        /\ log'.times = Append(log.times, acc.data)
    BY <1>0, <1>4, <1>6, <1>9 DEF PrintsTime, Given, Hidden
  <2> QED BY <1>3, <1>5, <2>1 DEF Sent, One
<1>10. CASE EndsTimes
  <2>1. /\ ~Given /\ ~Given' /\ Hidden /\ ~Hidden' /\ ~tag_read
        /\ log'.stats = log.stats + 1 /\ log'.times = log.times
    BY <1>0, <1>6, <1>10 DEF EndsTimes, Given, Hidden
  <2> QED BY <1>3, <1>5, <2>1 DEF Sent, One
<1>11. CASE NoTimes
  <2>1. /\ ~Given /\ ~Given' /\ ~Hidden /\ ~Hidden' /\ ~tag_read
        /\ log'.stats = log.stats /\ log'.times = log.times
    BY <1>0, <1>6, <1>11 DEF NoTimes, Given, Hidden
  <2> QED BY <1>3, <1>5, <2>1 DEF Sent, One
<1> QED BY <1>7, <1>8, <1>9, <1>10, <1>11, TimeMoves

(* Positions at, in a history of B, of a row of K elements: new are those  *)
(* when the element after the first f of them leaves the row (skip) and    *)
(* one that is newer than all enters it (o), in a history of b.            *)
Repositioned(K, B, at, f, skip, o, b) ==
  \E new \in [1 .. K - skip + o -> 1 .. b] :
    /\ Increasing(new, K - skip + o)
    /\ \A k \in 1 .. K - skip + o :
         LET s == IF k <= f THEN k ELSE k + skip
         IN  /\ s <= K => s \in 1 .. K /\ new[k] = at[s]
             /\ ~(s <= K) => o = 1 /\ new[k] = B + 1

(* When the row loses its first element or takes the last of the history,  *)
(* the places of the others serve again.                                   *)
LEMMA EmbedMoves ==
  ASSUME NEW K \in Nat, NEW B \in Nat, NEW at \in [1 .. K -> 1 .. B], Increasing(at, K),
         NEW f \in Nat, NEW skip \in {0, 1}, NEW o \in {0, 1}, f + skip <= K,
         NEW b \in Nat, B + o <= b
  PROVE  Repositioned(K, B, at, f, skip, o, b)
<1> DEFINE M == K - skip + o
           src(k) == IF k <= f THEN k ELSE k + skip
           new == [k \in 1 .. M |-> IF src(k) <= K THEN at[src(k)] ELSE B + 1]
<1>1. ASSUME NEW k \in 1 .. M
      PROVE  /\ src(k) \in 1 .. K + o
             /\ src(k) <= K => src(k) \in 1 .. K
             /\ ~(src(k) <= K) => o = 1 /\ src(k) = K + 1
  OBVIOUS
<1>2. ASSUME NEW j \in 1 .. M, NEW k \in 1 .. M, j < k
      PROVE  src(j) < src(k)
  BY <1>2
<1>3. ASSUME NEW k \in 1 .. M
      PROVE  /\ new[k] = IF src(k) <= K THEN at[src(k)] ELSE B + 1
             /\ src(k) <= K => at[src(k)] \in 1 .. B
             /\ new[k] \in 1 .. b
  <2>1. src(k) <= K => at[src(k)] \in 1 .. B
    BY <1>1
  <2> QED BY <1>1, <2>1
<1>4. ASSUME NEW j \in 1 .. M, NEW k \in 1 .. M, j < k
      PROVE  new[j] < new[k]
  <2> HIDE DEF src, new, M
  <2>1. src(j) < src(k) /\ src(j) \in 1 .. K + o /\ src(k) \in 1 .. K + o
    BY <1>1, <1>2, <1>4
  <2>a. \A x, y \in 1 .. K : x < y => at[x] < at[y]
    BY DEF Increasing
  <2>2. CASE src(k) <= K
    <3>1. src(j) \in 1 .. K /\ src(k) \in 1 .. K /\ src(j) <= K
      BY <2>1, <2>2
    <3> QED BY <1>3, <2>1, <2>2, <2>a, <3>1
  <2>3. CASE ~(src(k) <= K)
    <3>1. src(j) <= K
      BY <1>1, <2>1, <2>3
    <3>2. new[j] \in 1 .. B /\ new[k] = B + 1
      BY <1>3, <2>3, <3>1
    <3> QED BY <3>2
  <2> QED BY <2>2, <2>3
<1>5. new \in [1 .. M -> 1 .. b]
  <2> HIDE DEF src, M
  <2>1. \A k \in 1 .. M : (IF src(k) <= K THEN at[src(k)] ELSE B + 1) \in 1 .. b
    BY <1>3
  <2> QED BY <2>1
<1>6. ASSUME NEW k \in 1 .. M
      PROVE  /\ src(k) <= K => src(k) \in 1 .. K /\ new[k] = at[src(k)]
             /\ ~(src(k) <= K) => o = 1 /\ new[k] = B + 1
  <2> HIDE DEF src, M, new
  <2> QED BY <1>1, <1>3
<1> HIDE DEF new
<1> QED BY <1>4, <1>5, <1>6 DEF Repositioned, Increasing

(* The row in a clock: the time that leaves the fifo is given to the       *)
(* program, or lost when the program was told that there is none.          *)
LEMMA RowMoves ==
  ASSUME IInv, InStages, Roomy, AskedTime, Sourced, log.stats \in Nat, Next,
         NEW c, NEW r, Proper(c, r)
  PROVE  LET f == Len(Sent)
             skip == One(tag_read /\ tag.out.valid) - One(tag_read /\ acc.data # 0)
             o == One(tag.tq.valid /\ ~tag.out.full)
         IN  /\ f \in Nat /\ skip \in {0, 1} /\ RowLen \in Nat /\ f + skip <= RowLen
             /\ RowLen' = RowLen - skip + o
             /\ ~bus.mixed =>
                  \A k \in 1 .. RowLen' :
                    LET s == IF k <= f THEN k ELSE k + skip
                    IN  /\ s <= RowLen => Row(k)' = Row(s)
                        /\ ~(s <= RowLen) => Row(k)' = tag.tq.data
<1> DEFINE f == Len(Sent)
           d == One(tag_read /\ tag.out.valid)
           g == One(tag_read /\ acc.data # 0)
           skip == d - g
           o == One(tag.tq.valid /\ ~tag.out.full)
           T == OutWords
           W(k) == Word(A!Out!Words, tag'.out, k)
<1>1. tag_read \in BOOLEAN /\ bus.took \in Seq(Nat \ {0})
  BY DEF AskedTime, InStages
<1>2. /\ Sent \in Seq(Nat \ {0})
      /\ tag_read /\ acc.data # 0 =>
           tag.out.valid /\ acc.data \in ToSet(bus.took) /\ (~bus.mixed => acc.data = tag.out.data)
      /\ Sent' = IF tag_read /\ acc.data # 0 THEN Append(Sent, acc.data) ELSE Sent
  BY <1>1, SentMoves
<1>3. /\ d <= T /\ OutWords' \in Nat /\ OutWords' = T - d + o
      /\ \A k \in 0 .. OutWords' - 1 :
           IF k + d < T THEN W(k) = OutWord(k + d) ELSE W(k) = tag.tq.data
  BY <1>1, QueueStep
<1>4. /\ T \in Nat /\ f \in Nat
      /\ tag.out.valid => OutWord(0) = tag.out.data
  BY <1>2, AtHand DEF OldestAtHand
<1>5. /\ d \in {0, 1} /\ g \in {0, 1} /\ o \in {0, 1} /\ g <= d
      /\ g = 1 <=> tag_read /\ acc.data # 0
  BY <1>2 DEF One
<1>6. /\ Len(Sent') = f + g
      /\ \A k \in 1 .. f : Sent'[k] = Sent[k]
      /\ g = 1 /\ ~bus.mixed => Sent'[f + 1] = OutWord(0)
  <2>1. CASE g = 1
    <3>1. /\ Sent' = Append(Sent, acc.data) /\ acc.data \in Nat \ {0}
          /\ ~bus.mixed => acc.data = OutWord(0)
      BY <1>1, <1>2, <1>4, <1>5, <2>1 DEF ToSet
    <3>2. Len(Sent') = f + 1 /\ Sent'[f + 1] = acc.data /\ \A k \in 1 .. f : Sent'[k] = Sent[k]
      BY <1>2, <3>1
    <3> HIDE DEF f, g
    <3> QED BY <2>1, <3>1, <3>2
  <2>2. CASE g # 1
    <3>1. Sent' = Sent /\ g = 0
      BY <1>2, <1>5, <2>2
    <3> HIDE DEF g
    <3> QED BY <1>4, <2>2, <3>1
  <2> QED BY <2>1, <2>2
<1>7. RowLen = f + T /\ RowLen' = Len(Sent') + OutWords'
  BY DEF RowLen
<1>8. /\ skip \in {0, 1} /\ RowLen \in Nat /\ f + skip <= RowLen
      /\ RowLen' = RowLen - skip + o
  <2> HIDE DEF f, g, d, o, T, W
  <2> QED BY <1>3, <1>4, <1>5, <1>6, <1>7
<1>9. /\ \A k : Row(k) = IF k <= f THEN Sent[k] ELSE OutWord(k - f - 1)
      /\ \A k : Row(k)' = IF k <= Len(Sent') THEN Sent'[k] ELSE W(k - Len(Sent') - 1)
  BY DEF Row, OutWord, Word, Held
<1>10. ASSUME ~bus.mixed, NEW k \in 1 .. RowLen'
       PROVE  LET s == IF k <= f THEN k ELSE k + skip
              IN  /\ s <= RowLen => Row(k)' = Row(s)
                  /\ ~(s <= RowLen) => Row(k)' = tag.tq.data
  <2> HIDE DEF f, g, d, o, T, W
  <2>1. CASE k <= f
    <3>1. k <= Len(Sent') /\ k \in 1 .. f
      BY <1>4, <1>5, <1>6, <1>8, <2>1
    <3>2. Row(k)' = Row(k) /\ k <= RowLen
      BY <1>4, <1>6, <1>7, <1>9, <2>1, <3>1
    <3> QED BY <2>1, <3>2
  <2>2. CASE k = f + 1 /\ g = 1
    <3>1. Row(k)' = OutWord(0) /\ skip = 0
      BY <1>5, <1>6, <1>9, <1>10, <2>2
    <3>2. Row(k) = OutWord(0) /\ k <= RowLen /\ ~(k <= f)
      BY <1>3, <1>4, <1>5, <1>7, <1>9, <2>2
    <3> QED BY <1>8, <3>1, <3>2
  <2>3. CASE k > f + g
    <3> DEFINE i == k - f - g - 1
    <3>1. i \in 0 .. OutWords' - 1 /\ k \in Nat
      BY <1>3, <1>4, <1>5, <1>6, <1>7, <2>3
    <3>2. Row(k)' = W(i)
      <4>1. ~(k <= Len(Sent')) /\ k - Len(Sent') - 1 = i
        BY <1>4, <1>5, <1>6, <2>3, <3>1
      <4> QED BY <1>9, <4>1
    <3> DEFINE s == k + skip
    <3>3. ~(k <= f) /\ ~(s <= f) /\ s - f - 1 = i + d
      BY <1>4, <1>5, <2>3, <3>1
    <3>4. s <= RowLen <=> i + d < T
      BY <1>3, <1>4, <1>5, <1>7, <3>1
    <3> HIDE DEF i, s, skip
    <3>5. Row(s) = OutWord(i + d)
      BY <1>9, <3>3
    <3> QED BY <1>3, <3>1, <3>2, <3>3, <3>4, <3>5 DEF s
  <2>4. k <= f \/ (k = f + 1 /\ g = 1) \/ k > f + g
    BY <1>4, <1>5, <1>8
  <2> QED BY <2>1, <2>2, <2>3, <2>4
<1> HIDE DEF f, d, g, o, T, W
<1> QED BY <1>4, <1>8, <1>10 DEF f, d, g, o

(* The row stays embedded in the history, while no time comes during a     *)
(* reading.                                                                *)
LEMMA EmbeddedStep ==
  ASSUME IInv, Counted, Drained, InStages, Roomy, AskedTime, Sourced, log.stats \in Nat,
         ~bus.mixed, Embedded, Next, NEW c, NEW r, Proper(c, r)
  PROVE  Embedded'
<1> DEFINE f == Len(Sent)
           skip == One(tag_read /\ tag.out.valid) - One(tag_read /\ acc.data # 0)
           o == One(tag.tq.valid /\ ~tag.out.full)
           K == RowLen
           B == Recorded
           b == Recorded'
           src(k) == IF k <= f THEN k ELSE k + skip
<1>1. /\ f \in Nat /\ skip \in {0, 1} /\ K \in Nat /\ f + skip <= K
      /\ RowLen' = K - skip + o
      /\ \A k \in 1 .. RowLen' :
           /\ src(k) <= K => Row(k)' = Row(src(k))
           /\ ~(src(k) <= K) => Row(k)' = tag.tq.data
  BY RowMoves
<1>2. o \in {0, 1} /\ (o = 1 => tag.tq.valid)
  BY DEF One
<1>3. B \in Nat /\ B <= Len(bus.took) /\ At8 \in Nat /\ At8 <= Len(bus.took)
      /\ B = At8 - One(tag.tq.valid)
  BY StagesHold DEF Recorded
<1>4. b = At8 /\ b \in Nat /\ B + o <= b /\ (tag.tq.valid => At8 = B + 1)
  <2>1. b = At8
    BY StagesStep
  <2> QED BY <1>2, <1>3, <2>1 DEF One
<1>5. PICK at \in [1 .. K -> 1 .. B] :
        /\ Increasing(at, K)
        /\ \A k \in 1 .. K : Row(k) = bus.took[at[k]]
  BY DEF Embedded
<1>6. \A x \in 1 .. Len(bus.took) : bus'.took[x] = bus.took[x]
  BY TookGrows DEF InStages
<1> HIDE DEF f, skip, o, K, B, b
<1>m. Repositioned(K, B, at, f, skip, o, b)
  <2>1. K \in Nat /\ B \in Nat /\ f \in Nat /\ skip \in {0, 1} /\ o \in {0, 1} /\ f + skip <= K
        /\ b \in Nat /\ B + o <= b
    BY <1>1, <1>2, <1>3, <1>4 DEF B
  <2>2. at \in [1 .. K -> 1 .. B] /\ Increasing(at, K)
    BY <1>5
  <2> HIDE DEF src
  <2> QED BY <2>1, <2>2, EmbedMoves
<1>7. PICK new \in [1 .. K - skip + o -> 1 .. b] :
        /\ Increasing(new, K - skip + o)
        /\ \A k \in 1 .. K - skip + o :
             /\ src(k) <= K => src(k) \in 1 .. K /\ new[k] = at[src(k)]
             /\ ~(src(k) <= K) => o = 1 /\ new[k] = B + 1
  BY <1>m DEF Repositioned
<1> HIDE DEF src
<1>8. ASSUME NEW k \in 1 .. RowLen'
      PROVE  Row(k)' = bus'.took[new[k]]
  <2>1. CASE src(k) <= K
    <3>1. src(k) \in 1 .. K /\ new[k] = at[src(k)] /\ Row(k)' = Row(src(k))
      BY <1>1, <1>7, <2>1
    <3>2. Row(src(k)) = bus.took[at[src(k)]] /\ at[src(k)] \in 1 .. B
      BY <1>5, <3>1
    <3>3. at[src(k)] \in 1 .. Len(bus.took)
      BY <1>3, <3>2 DEF B
    <3> QED BY <1>6, <3>1, <3>2, <3>3
  <2>2. CASE ~(src(k) <= K)
    <3>1. new[k] = At8 /\ Row(k)' = tag.tq.data /\ tag.tq.valid
      BY <1>1, <1>2, <1>4, <1>7, <2>2
    <3>2. bus.took[At8] = tag.tq.data
      BY <3>1 DEF InStages
    <3>3. At8 \in 1 .. Len(bus.took)
      BY <1>3, <3>1, StagesHold
    <3> QED BY <1>6, <3>1, <3>2, <3>3
  <2> QED BY <2>1, <2>2
<1>9. new \in [1 .. RowLen' -> 1 .. Recorded']
      /\ Increasing(new, RowLen')
  BY <1>1, <1>7 DEF b
<1> QED BY <1>8, <1>9 DEF Embedded, Increasing

(* Whatever is printed or waits was taken.                                 *)
LEMMA SourcedStep ==
  ASSUME IInv, Counted, Drained, InStages, Roomy, AskedTime, Sourced, Next,
         NEW c, NEW r, Proper(c, r)
  PROVE  Sourced'
<1> DEFINE S == ToSet(bus.took)
           Z == ToSet(bus'.took)
<1>1. S \subseteq Z /\ bus.took \in Seq(Nat \ {0})
  BY TookGrows DEF InStages
<1>2. log'.times \in Seq(Nat \ {0}) /\ ToSet(log'.times) \subseteq S
  <2>1. log.times \in Seq(Nat \ {0}) /\ ToSet(log.times) \subseteq S
    BY DEF Sourced
  <2>2. CASE PrintsTime
    <3>1. acc.data \in S
      <4>1. acc.reg = "tag_data" /\ acc.edges > Inp /\ acc.data # 0
        BY <2>2 DEF PrintsTime, Inp, Out
      <4> QED BY <4>1 DEF AskedTime
    <3>2. acc.data \in Nat \ {0}
      BY <1>1, <3>1 DEF ToSet
    <3>3. log'.times = Append(log.times, acc.data)
      BY <2>2 DEF PrintsTime
    <3>4. ToSet(log'.times) = ToSet(log.times) \cup {acc.data}
      BY <2>1, <3>3, ToSetAppend
    <3> QED BY <2>1, <3>1, <3>2, <3>3, <3>4
  <2>3. CASE ~PrintsTime
    <3>1. log'.times = log.times
      BY <2>3, TimeMoves DEF SamplesTime, WaitsTime, EndsTimes, NoTimes
    <3> QED BY <2>1, <3>1
  <2> QED BY <2>2, <2>3
<1> DEFINE d == One(tag_read /\ tag.out.valid)
           o == One(tag.tq.valid /\ ~tag.out.full)
           W(k) == Word(A!Out!Words, tag'.out, k)
<1>3. /\ Roomy' /\ d <= OutWords /\ OutWords' \in Nat /\ OutWords' = OutWords - d + o
      /\ \A k \in 0 .. OutWords' - 1 :
           IF k + d < OutWords THEN W(k) = OutWord(k + d) ELSE W(k) = tag.tq.data
      /\ tag'.out.valid \/ tag'.out.data = tag.out.data
  BY QueueStep DEF AskedTime
<1>4. ASSUME NEW k \in 0 .. OutWords' - 1
      PROVE  W(k) \in S
  <2>0. d \in {0, 1} /\ o \in {0, 1} /\ OutWords \in Nat /\ (o = 1 => tag.tq.valid)
    BY AtHand DEF One, OldestAtHand
  <2> HIDE DEF d, o, W
  <2>1. CASE k + d < OutWords
    <3>1. k + d \in 0 .. OutWords - 1 /\ W(k) = OutWord(k + d)
      BY <1>3, <2>0, <2>1
    <3> QED BY <3>1 DEF Sourced
  <2>2. CASE ~(k + d < OutWords)
    <3>1. W(k) = tag.tq.data
      BY <1>3, <2>2
    <3>2. o = 1
      BY <1>3, <2>0, <2>2
    <3>3. At8 \in Nat /\ At8 <= Len(bus.took) /\ At8 >= 1
      BY <2>0, <3>2, StagesHold
    <3>4. bus.took[At8] = tag.tq.data
      BY <2>0, <3>2 DEF InStages
    <3>5. At8 \in DOMAIN bus.took
      BY <1>1, <3>3
    <3> QED BY <3>1, <3>4, <3>5 DEF ToSet
  <2> QED BY <2>1, <2>2
<1>5. \A k \in 0 .. OutWords' - 1 : OutWord(k)' = W(k)
  BY DEF OutWord, Word, Held
<1>6. tag'.out.data \in {0} \cup S
  <2>1. CASE tag'.out.valid
    <3>1. /\ tag'.out.valid => OutWords' >= 1 /\ OutWord(0)' = tag'.out.data
      BY <1>3, AtHandNext DEF OldestAtHand
    <3>2. 0 \in 0 .. OutWords' - 1
      BY <1>3, <2>1, <3>1
    <3> QED BY <1>4, <1>5, <2>1, <3>1, <3>2
  <2>2. CASE ~tag'.out.valid
    BY <1>3, <2>2 DEF Sourced
  <2> QED BY <2>1, <2>2
<1> HIDE DEF S, Z, d, o, W
<1>7. \A k \in 0 .. OutWords' - 1 : OutWord(k)' \in Z
  BY <1>1, <1>4, <1>5
<1>8. tag'.out.data \in {0} \cup Z /\ ToSet(log'.times) \subseteq Z
  BY <1>1, <1>2, <1>6
<1> QED BY <1>2, <1>7, <1>8 DEF Sourced, Z

(* Every time recorded is in the row, spilled, or lost to a reading that   *)
(* has ended or will.                                                      *)
LEMMA AllCountedStep ==
  ASSUME IInv, Counted, Drained, InStages, Roomy, AskedTime, Sourced, AllCounted, Next,
         NEW c, NEW r, Proper(c, r)
  PROVE  AllCounted'
<1> DEFINE d == One(tag_read /\ tag.out.valid)
           g == One(tag_read /\ acc.data # 0)
           o == One(tag.tq.valid /\ ~tag.out.full)
           v == One(tag.tq.valid)
           x == One(tag.tq.valid /\ tag.out.full)
           h == One(Hidden)
           h2 == One(Hidden')
           K == RowLen
           B == Recorded
<1>1. /\ log.stats \in Nat /\ bus.spilled \in Nat
      /\ K <= B /\ B <= K + log.stats + h + bus.spilled
  BY DEF AllCounted
<1>2. /\ d - g \in {0, 1} /\ K \in Nat /\ RowLen' = K - (d - g) + o
  BY <1>1, RowMoves
<1>3. log'.stats \in Nat /\ log.stats + h + d - g <= log'.stats + h2
  BY <1>1, SentMoves DEF InStages
<1>4. /\ v \in {0, 1} /\ x \in {0, 1} /\ o \in {0, 1} /\ h \in {0, 1} /\ h2 \in {0, 1}
      /\ d \in {0, 1} /\ g \in {0, 1} /\ v = x + o
  BY DEF One
<1>5. bus'.spilled = bus.spilled + x
  BY ProperBus
<1>6. B \in Nat /\ Recorded' = B + v
  <2>1. B = At8 - v /\ Recorded' = At8
    BY StagesStep DEF Recorded
  <2>2. At8 \in Nat /\ B \in Nat
    BY StagesHold
  <2> HIDE DEF v
  <2> QED BY <1>4, <2>1, <2>2
<1> HIDE DEF d, g, o, v, x, h, h2, K, B
<1>7. bus'.spilled \in Nat /\ RowLen' <= Recorded'
  BY <1>1, <1>2, <1>4, <1>5, <1>6
<1>8. Recorded' <= RowLen' + log'.stats + h2 + bus'.spilled
  BY <1>1, <1>2, <1>3, <1>4, <1>5, <1>6
<1> QED BY <1>3, <1>7, <1>8 DEF AllCounted, h2, One

(* Increasing positions are different ones.                                *)
LEMMA Positions ==
  ASSUME NEW at, NEW m \in Nat, \A k \in 1 .. m : at[k] \in Nat, Increasing(at, m)
  PROVE  Cardinality({at[k] : k \in 1 .. m}) = m
<1> DEFINE I == {at[k] : k \in 1 .. m}
           M == [k \in 1 .. m |-> at[k]]
<1>1. M \in [1 .. m -> I] /\ \A t \in I : \E k \in 1 .. m : M[k] = t
  OBVIOUS
<1>2. IsInjective(M)
  <2>1. ASSUME NEW j \in 1 .. m, NEW k \in 1 .. m, j # k
        PROVE  at[j] # at[k]
    <3>1. j < k \/ k < j
      BY <2>1
    <3> QED BY <3>1 DEF Increasing
  <2> QED BY <2>1 DEF IsInjective
<1>3. M \in Bijection(1 .. m, I)
  BY <1>1, <1>2 DEF Bijection, Injection, Surjection
<1>4. ExistsBijection(1 .. m, I)
  BY <1>3 DEF ExistsBijection
<1> QED BY <1>4, FS_CountingElements

(* A sequence found at increasing positions of another is a subsequence.   *)
LEMMA SubsequenceAt ==
  ASSUME NEW S, NEW T, NEW s \in Seq(S), NEW t \in Seq(T),
         NEW at, \A k \in 1 .. Len(s) : at[k] \in 1 .. Len(t),
         Increasing(at, Len(s)), \A k \in 1 .. Len(s) : s[k] = t[at[k]]
  PROVE  Subsequence(s, t)
<1> DEFINE L == Len(s)
           kept == {at[k] : k \in 1 .. L}
           rank(k) == Cardinality({j \in kept : j <= k})
<1>1. L \in Nat /\ Len(t) \in Nat /\ DOMAIN t = 1 .. Len(t)
  OBVIOUS
<1>2. kept \in SUBSET DOMAIN t /\ \A k \in 1 .. L : at[k] \in Nat
  BY <1>1
<1>3. Cardinality(kept) = L
  BY <1>1, <1>2, Positions
<1>4. ASSUME NEW i \in 1 .. L
      PROVE  s[rank(at[i])] = t[at[i]]
  <2>1. {j \in kept : j <= at[i]} = {at[k] : k \in 1 .. i}
    <3>1. ASSUME NEW k \in 1 .. L
          PROVE  at[k] <= at[i] <=> k <= i
      <4>1. k < i => at[k] < at[i]
        BY DEF Increasing
      <4>2. i < k => at[i] < at[k]
        BY DEF Increasing
      <4>3. at[k] \in Nat /\ at[i] \in Nat
        BY <1>2
      <4>4. k < i \/ k = i \/ i < k
        BY <1>1
      <4> QED BY <1>1, <4>1, <4>2, <4>3, <4>4
    <3>2. \A k : k \in 1 .. i <=> k \in 1 .. L /\ k <= i
      BY <1>1
    <3> QED BY <3>1, <3>2
  <2>2. i \in Nat /\ \A k \in 1 .. i : at[k] \in Nat
    BY <1>1, <1>2
  <2>3. Increasing(at, i)
    BY <1>1 DEF Increasing
  <2>4. Cardinality({at[k] : k \in 1 .. i}) = i
    BY <2>2, <2>3, Positions
  <2>5. rank(at[i]) = i
    BY <2>1, <2>4
  <2> HIDE DEF rank
  <2> QED BY <2>5
<1>5. \A k \in kept : s[rank(k)] = t[k]
  <2> HIDE DEF rank
  <2> QED BY <1>4
<1> QED BY <1>2, <1>3, <1>5 DEF Subsequence

(* Without the tag analyser no time is taken.                              *)
LEMMA UnusedStep ==
  ASSUME ~tag_anal_en, Unused, Next
  PROVE  Unused'
<1>1. PICK c, r : c \in Tags \cup {None} /\ r \in Tags \cup {None} /\ Bus(c, r) /\ Hardware(c, r)
  BY NextIsClock DEF Clock
<1>2. /\ tag = A!TagInit /\ bus.took = <<>> /\ log.times = <<>> /\ log.stats = 0
      /\ bus.age = [i \in Tags |-> None] /\ bus.spilled = 0 /\ ~bus.wrong
      /\ acc.reg \notin {"tag_min", "tag_max", "tag_data"}
  BY DEF Unused
<1>3. tag' = tag /\ ~tag.tq.valid
  BY <1>1, <1>2 DEF Hardware, A!TagInit, A!Tq!FifoInit
<1>4. r = None
  BY <1>1, <1>2 DEF Bus, MayRespond, InUse
<1>5. bus'.took = <<>> /\ bus'.spilled = 0 /\ ~bus'.wrong /\ bus'.age = [i \in Tags |-> None]
  <2>1. /\ bus'.took = IF r # None /\ InUse(r) THEN Append(bus.took, bus.age[r] + 1)
                       ELSE bus.took
        /\ bus'.spilled = bus.spilled + (IF tag.tq.valid /\ tag.out.full THEN 1 ELSE 0)
        /\ bus'.wrong = (bus.wrong \/ (tag_anal_en /\ Misused(c, r)))
        /\ bus'.age = [i \in Tags |->
                         IF InUse(i) THEN IF i = r THEN None ELSE bus.age[i] + 1
                         ELSE IF i = c /\ tag_anal_en THEN 1 ELSE None]
    BY <1>1 DEF Bus
  <2>2. bus'.age = [i \in Tags |-> None]
    <3>1. \A i \in Tags : ~InUse(i)
      BY <1>2 DEF InUse
    <3> QED BY <2>1, <3>1
  <2>3. bus'.took = <<>>
    BY <1>2, <1>4, <2>1
  <2>4. bus'.spilled = 0
    BY <1>2, <1>3, <2>1
  <2>5. ~bus'.wrong
    BY <1>2, <2>1
  <2> QED BY <2>2, <2>3, <2>4, <2>5
<1>6. /\ log'.times = <<>> /\ log'.stats = 0
      /\ acc'.reg \notin {"tag_min", "tag_max", "tag_data"}
  <2>0. /\ None \notin {"tag_min", "tag_max", "tag_data"} /\ NoAccess.reg = None
        /\ \A reg : Read(reg) => acc'.reg = reg
    BY NoneAssumption DEF Registers, NoAccess, Read
  <2>1. CASE Idle
    BY <1>2, <2>1 DEF Idle
  <2>2. CASE Access
    BY <1>2, <2>2 DEF Access
  <2>3. CASE DumpWord
    BY <1>2, <2>0, <2>3 DEF DumpWord
  <2>4. CASE DumpEnds
    BY <1>2, <2>0, <2>4 DEF DumpEnds, Return
  <2>5. CASE StatsExtreme \/ StatsTime \/ StatsEnds
    BY <1>2, <2>5 DEF StatsExtreme, StatsTime, StatsEnds, Answered
  <2>6. CASE snooper_tag_alert
    BY <1>2, <2>0, <2>6 DEF snooper_tag_alert, Return
  <2>7. CASE Call("dump", "data")
    BY <1>2, <2>0, <2>7 DEF Call
  <2> QED BY <1>2, <2>1, <2>2, <2>3, <2>4, <2>5, <2>6, <2>7 DEF Next, Reading
<1> QED BY <1>2, <1>3, <1>5, <1>6 DEF Unused

(* A step of the whole.                                                    *)
LEMMA BusyStep ==
  ASSUME IInv, Busy, tag_anal_en, ~bus.wrong, ~bus'.wrong, Next
  PROVE  Busy'
<1>1. PICK c, r : c \in Tags \cup {None} /\ r \in Tags \cup {None} /\ Bus(c, r) /\ Hardware(c, r)
  BY NextIsClock DEF Clock
<1>2. Proper(c, r)
  BY <1>1 DEF Proper
<1>3. /\ Counted /\ Drained /\ InStages /\ Roomy /\ AskedTime /\ Sourced /\ AllCounted
      /\ ~bus.mixed => Embedded
      /\ tag_read \in BOOLEAN /\ log.stats \in Nat
  BY DEF Busy, AskedTime, AllCounted
<1>4. Counted'
  BY <1>2, <1>3, CountedStep
<1>5. Drained'
  BY <1>2, <1>3, DrainedStep
<1>6. InStages'
  BY <1>2, <1>3, StagesStep
<1>7. Roomy'
  BY <1>2, <1>3, QueueStep
<1>8. AskedTime'
  BY <1>2, <1>3, AskedTimeStep
<1>9. Sourced'
  BY <1>2, <1>3, SourcedStep
<1>10. AllCounted'
  BY <1>2, <1>3, AllCountedStep
<1>11. ~bus'.mixed => Embedded'
  <2>1. ~bus'.mixed => ~bus.mixed
    BY <1>2, ProperBus
  <2> QED BY <1>2, <1>3, <2>1, EmbeddedStep
<1> QED BY <1>4, <1>5, <1>6, <1>7, <1>8, <1>9, <1>10, <1>11 DEF Busy

(* It starts empty.                                                        *)
LEMMA BusyInit ==
  ASSUME Init
  PROVE  Busy /\ (~tag_anal_en => Unused)
<1>1. /\ tag = A!TagInit /\ tag_read = FALSE /\ acc = NoAccess /\ pc = "idle"
      /\ bus.age = [i \in Tags |-> None] /\ bus.took = <<>> /\ ~bus.wrong
      /\ bus.spilled = 0 /\ bus.mixed = FALSE
      /\ log.times = <<>> /\ log.stats = 0
  BY DEF Init
<1>2. /\ tag.track = {} /\ tag.track_d = {} /\ tag.rtag_d = None /\ tag.wen = {}
      /\ tag.counters = [i \in Tags |-> 0]
      /\ tag.tq_wen = FALSE /\ tag.tq_wen_d = FALSE /\ tag.tq_wen_dd = FALSE
      /\ tag.tq_read = FALSE /\ tag.tq = A!Tq!FifoInit
      /\ tag.out = [A!Out!FifoInit EXCEPT !.data = 0]
  BY <1>1 DEF A!TagInit, A!Zeros
<1>3. /\ tag.tq.mem = [a \in Addresses(A!Tq!Words) |-> None]
      /\ tag.tq.waddr = 0 /\ tag.tq.raddr = 0
      /\ tag.tq.empty = TRUE /\ tag.tq.valid = FALSE
  BY <1>2 DEF A!Tq!FifoInit, Addresses
<1>4. /\ tag.out.mem = [a \in Addresses(A!Out!Words) |-> None]
      /\ tag.out.waddr = 0 /\ tag.out.raddr = 0 /\ tag.out.empty = TRUE
      /\ tag.out.full = FALSE /\ tag.out.valid = FALSE /\ tag.out.data = 0
  BY <1>2 DEF A!Out!FifoInit, Addresses
<1>5. /\ 0 \in Addresses(A!Tq!Words) /\ 0 \in Addresses(A!Out!Words)
      /\ A!Out!Words \in Nat \ {0} /\ A!Out!Words >= 2
  BY TimesAssumption DEF Addresses
<1>6. acc = [reg |-> None, edges |-> 0, data |-> None]
      /\ None \notin {"data", "tag_min", "tag_max", "tag_data"}
  BY <1>1, NoneAssumption DEF NoAccess, Registers
<1>7. Left = {}
  BY <1>2 DEF Left
<1>8. Counted
  <2>1. \A i \in Tags : ~InUse(i)
    BY <1>1 DEF InUse
  <2> QED BY <1>2, <1>7, <2>1 DEF Counted
<1>9. Drained
  BY <1>2, <1>3, <1>5 DEF Drained
<1>10. Recorded = 0
  BY <1>1, <1>2, <1>3, <1>7 DEF Recorded, At8, At7, At6, At5, At4, At3, At2, At1, One
<1>11. InStages
  <2>1. bus.took \in Seq(Nat \ {0})
    BY <1>1
  <2>2. tag.tq_wen \in BOOLEAN /\ tag.tq_wen_d \in BOOLEAN /\ tag.tq_wen_dd \in BOOLEAN
    BY <1>2
  <2> QED BY <1>2, <1>3, <1>7, <1>10, <2>1, <2>2 DEF InStages
<1>12. Count(A!Out!Words, tag.out) = 0
  <2>1. Count(A!Out!Words, tag.out) = Away(A!Out!Words, 0, 0)
    BY <1>4, <1>5, Apart DEF Count
  <2> QED BY <2>1 DEF Away
<1>13. Roomy
  <2>1. Ring(A!Out!Words, tag.out)
    BY <1>4, <1>5, <1>12 DEF Ring
  <2>2. ~tag.out.full /\ 0 <= A!Out!Words - 2
    BY <1>4, <1>5
  <2> QED BY <1>12, <2>1, <2>2 DEF Roomy
<1>14. AskedTime
  <2>1. acc.reg = None /\ acc.edges = 0 /\ acc.reg # "tag_data" /\ acc.edges \in 0 .. Out
        /\ acc = [reg |-> acc.reg, edges |-> acc.edges, data |-> acc.data]
    BY <1>6 DEF Out
  <2>2. tag_read \in BOOLEAN /\ ~tag_read
    BY <1>1
  <2> QED BY <1>6, <2>1, <2>2 DEF AskedTime
<1>15. OutWords = 0 /\ Sent = <<>> /\ RowLen = 0 /\ ~Hidden
  <2>1. OutWords = 0
    BY <1>4, <1>12 DEF OutWords, Total, One
  <2>2. Sent = <<>> /\ ~Hidden
    BY <1>1, <1>6 DEF Sent, Given, Hidden
  <2> QED BY <2>1, <2>2 DEF RowLen
<1>16. Sourced
  BY <1>1, <1>4, <1>15 DEF Sourced, ToSet
<1>17. Embedded
  <2>1. [k \in 1 .. 0 |-> 0] \in [1 .. RowLen -> 1 .. Recorded]
    BY <1>15
  <2>2. \A k : k \notin 1 .. RowLen
    BY <1>15
  <2> QED BY <2>1, <2>2 DEF Embedded, Increasing
<1>18. AllCounted
  BY <1>1, <1>10, <1>15 DEF AllCounted, One
<1>19. Unused
  BY <1>1, <1>6 DEF Unused
<1> QED BY <1>8, <1>9, <1>11, <1>13, <1>14, <1>16, <1>17, <1>18, <1>19 DEF Busy

(* The inductive invariant of the times.                                   *)
LEMMA TimesHold == Spec => []TimesInv
<1>1. Init => TimesInv
  BY BusyInit DEF TimesInv
<1>2. ASSUME IInv, TimesInv, [Next]_vars
      PROVE  TimesInv'
  <2>1. CASE Next
    <3>1. tag_anal_en' = tag_anal_en
      BY <2>1, NextIsClock DEF Clock
    <3>2. ASSUME tag_anal_en, ~bus'.wrong PROVE Busy'
      <4>1. ~bus.wrong
        <5>1. PICK c, r : Bus(c, r)
          BY <2>1, NextIsClock DEF Clock
        <5>2. bus'.wrong = (bus.wrong \/ (tag_anal_en /\ Misused(c, r)))
          BY <5>1 DEF Bus
        <5> QED BY <3>2, <5>2
      <4> QED BY <1>2, <2>1, <3>2, <4>1, BusyStep DEF TimesInv
    <3>3. ASSUME ~tag_anal_en PROVE Unused'
      BY <1>2, <2>1, <3>3, UnusedStep DEF TimesInv
    <3> QED BY <3>1, <3>2, <3>3 DEF TimesInv
  <2>2. CASE UNCHANGED vars
    <3>1. /\ tag_anal_en' = tag_anal_en /\ tag' = tag /\ tag_read' = tag_read /\ acc' = acc
          /\ pc' = pc /\ bus' = bus /\ log' = log
      BY <2>2 DEF vars, hardware
    <3>2. Counted' = Counted /\ Drained' = Drained /\ Roomy' = Roomy /\ AskedTime' = AskedTime
      BY <3>1 DEF Counted, Left, InUse, Drained, Roomy, Ring, Count, AskedTime
    <3>3. InStages' = InStages /\ Recorded' = Recorded
      BY <3>1 DEF InStages, Left, Recorded, At8, At7, At6, At5, At4, At3, At2, At1
    <3>4. Sourced' = Sourced
      BY <3>1 DEF Sourced, OutWords, OutWord, Total, Count, Word, Held
    <3>5. AllCounted' = AllCounted /\ RowLen' = RowLen
      BY <3>1, <3>3 DEF AllCounted, Hidden, RowLen, OutWords, Total, Count, Sent, Given
    <3>6. Embedded' = Embedded
      BY <3>1, <3>3, <3>5 DEF Embedded, Row, OutWord, Word, Held, Sent, Given
    <3>7. Unused' = Unused
      BY <3>1 DEF Unused
    <3> QED BY <1>2, <3>1, <3>2, <3>3, <3>4, <3>5, <3>6, <3>7 DEF TimesInv, Busy
  <2> QED BY <1>2, <2>1, <2>2
<1> QED BY <1>1, <1>2, InvariantHolds, PTL DEF Spec

(* For any number of tags, sizes of the fifos and traffic on the bus: the  *)
(* times snooper_tag_stats prints are times the commands took, in the order*)
(* of the responses unless one was recorded while they were read, and of   *)
(* those recorded none is missing but one for a call and those that found  *)
(* the last fifo full.                                                     *)
THEOREM TimesAreTrue == Spec => []TimesTrue
<1>1. TimesInv => TimesTrue
  <2> SUFFICES ASSUME TimesInv, ~bus.wrong
               PROVE  /\ ~bus.mixed => Subsequence(log.times, bus.took)
                      /\ ToSet(log.times) \subseteq ToSet(bus.took)
                      /\ Settled =>
                           /\ Len(log.times) + TimesLeft <= Len(bus.took)
                           /\ Len(bus.took) <= Len(log.times) + TimesLeft + log.stats
                                + (IF pc = "stats" /\ acc.data = 0 THEN 1 ELSE 0) + bus.spilled
    BY DEF TimesTrue
  <2>1. CASE ~tag_anal_en
    <3>1. /\ bus.took = <<>> /\ log.times = <<>> /\ log.stats = 0 /\ bus.spilled = 0
          /\ tag = A!TagInit /\ acc.reg # "tag_data"
      BY <2>1 DEF TimesInv, Unused
    <3>2. TimesLeft = 0
      <4>1. tag.out.waddr = 0 /\ tag.out.raddr = 0 /\ tag.out.valid = FALSE
        BY <3>1 DEF A!TagInit, A!Out!FifoInit
      <4>2. (0 - 0) % A!Out!Words = 0
        <5>1. A!Out!Words \in Nat \ {0}
          BY TimesAssumption
        <5> QED BY <5>1
      <4> QED BY <3>1, <4>1, <4>2 DEF TimesLeft
    <3>3. Subsequence(log.times, bus.took)
      <4>1. <<>> \in Seq(Nat) /\ Len(<<>>) = 0
        OBVIOUS
      <4>2. Increasing(<<>>, 0)
        BY DEF Increasing
      <4>3. Subsequence(<<>>, <<>>)
        <5>1. \A k : k \notin 1 .. Len(<<>>)
          BY <4>1
        <5> QED BY <4>1, <4>2, <5>1, SubsequenceAt
      <4> QED BY <3>1, <4>3
    <3> QED BY <3>1, <3>2, <3>3
  <2>2. CASE tag_anal_en
    <3>1. /\ InStages /\ Roomy /\ AskedTime /\ Sourced /\ AllCounted
          /\ ~bus.mixed => Embedded
      BY <2>2 DEF TimesInv, Busy
    <3>2. /\ bus.took \in Seq(Nat \ {0}) /\ log.times \in Seq(Nat \ {0})
          /\ ToSet(log.times) \subseteq ToSet(bus.took)
          /\ Len(bus.took) \in Nat /\ Len(log.times) \in Nat
      BY <3>1 DEF InStages, Sourced
    <3>3. /\ Len(Sent) = Len(log.times) + One(Given)
          /\ \A k \in 1 .. Len(log.times) : Sent[k] = log.times[k]
      <4>1. CASE Given
        BY <3>2, <4>1 DEF Sent, One
      <4>2. CASE ~Given
        BY <3>2, <4>2 DEF Sent, One
      <4> QED BY <4>1, <4>2
    <3>4. OutWords \in Nat /\ One(Given) \in {0, 1} /\ Recorded \in Nat
          /\ Recorded <= Len(bus.took)
      BY <3>1, AtHand, StagesHold DEF OldestAtHand, One
    <3>5. ASSUME ~bus.mixed PROVE Subsequence(log.times, bus.took)
      <4>1. PICK at \in [1 .. RowLen -> 1 .. Recorded] :
              /\ Increasing(at, RowLen)
              /\ \A k \in 1 .. RowLen : Row(k) = bus.took[at[k]]
        BY <3>1, <3>5 DEF Embedded
      <4>2. ASSUME NEW k \in 1 .. Len(log.times)
            PROVE  k \in 1 .. RowLen /\ Row(k) = log.times[k]
        BY <3>2, <3>3, <3>4 DEF RowLen, Row
      <4>3. \A k \in 1 .. Len(log.times) :
              at[k] \in 1 .. Len(bus.took) /\ log.times[k] = bus.took[at[k]]
        <5> SUFFICES ASSUME NEW k \in 1 .. Len(log.times)
                     PROVE  at[k] \in 1 .. Len(bus.took) /\ log.times[k] = bus.took[at[k]]
          OBVIOUS
        <5>1. at[k] \in 1 .. Recorded /\ Row(k) = bus.took[at[k]] /\ Row(k) = log.times[k]
          BY <4>1, <4>2
        <5> QED BY <3>2, <3>4, <5>1
      <4>4. Increasing(at, Len(log.times))
        BY <4>1, <4>2 DEF Increasing
      <4> QED BY <3>2, <4>3, <4>4, SubsequenceAt
    <3>6. ASSUME Settled PROVE Recorded = Len(bus.took)
      BY <3>2, <3>6 DEF Settled, Left, Recorded, At8, At7, At6, At5, At4, At3, At2, At1, One
    <3>7. RowLen = Len(log.times) + TimesLeft
      <4>1. Given => pc = "stats"
        BY <3>1 DEF Given, AskedTime
      <4>2. TimesLeft = OutWords + One(Given)
        <5>1. One(Given) = IF pc = "stats" /\ acc.reg = "tag_data" /\ acc.data \notin {None, 0}
                             /\ ~tag_read THEN 1 ELSE 0
          BY <4>1 DEF One, Given
        <5>2. OutWords = One(tag.out.valid) + Count(A!Out!Words, tag.out)
          BY DEF OutWords, Total
        <5>3. Count(A!Out!Words, tag.out) \in Int
          <6>1. /\ tag.out.waddr \in Addresses(A!Out!Words)
                /\ tag.out.raddr \in Addresses(A!Out!Words)
                /\ A!Out!Words \in Nat \ {0}
            BY <3>1, TimesAssumption DEF Roomy, Ring
          <6>2. Count(A!Out!Words, tag.out) \in Addresses(A!Out!Words)
            BY <6>1, Apart DEF Count
          <6> QED BY <6>2 DEF Addresses
        <5>4. TimesLeft = Count(A!Out!Words, tag.out) + One(tag.out.valid) + One(Given)
          BY <5>1 DEF TimesLeft, Count, One
        <5>5. One(tag.out.valid) \in {0, 1}
          BY DEF One
        <5> QED BY <3>4, <5>2, <5>3, <5>4, <5>5
      <4>3. RowLen = Len(log.times) + One(Given) + OutWords
        BY <3>3 DEF RowLen
      <4>4. Len(log.times) \in Nat
        BY <3>2
      <4> QED BY <3>4, <4>2, <4>3, <4>4
    <3> DEFINE h == One(Hidden)
               u == IF pc = "stats" /\ acc.data = 0 THEN 1 ELSE 0
    <3>8. h \in {0, 1} /\ u \in {0, 1} /\ h <= u
      <4>1. Hidden => pc = "stats" /\ acc.data = 0
        BY <3>1 DEF Hidden, AskedTime
      <4> QED BY <4>1 DEF One
    <3>9. /\ RowLen <= Recorded /\ Recorded <= RowLen + log.stats + h + bus.spilled
          /\ log.stats \in Nat /\ bus.spilled \in Nat
          /\ RowLen \in Nat
      BY <3>1, <3>2, <3>3, <3>4 DEF AllCounted, RowLen
    <3>10. ASSUME Settled
           PROVE  /\ Len(log.times) + TimesLeft <= Len(bus.took)
                  /\ Len(bus.took) <= Len(log.times) + TimesLeft + log.stats + u + bus.spilled
      <4> HIDE DEF h, u
      <4>1. RowLen <= Len(bus.took) /\ Len(bus.took) <= RowLen + log.stats + u + bus.spilled
        <5>1. Recorded = Len(bus.took) /\ Len(bus.took) \in Nat
          BY <3>2, <3>6, <3>10
        <5> QED BY <3>8, <3>9, <5>1
      <4> QED BY <3>7, <4>1
    <3> QED BY <3>2, <3>5, <3>10
  <2> QED BY <2>1, <2>2
<1> QED BY <1>1, TimesHold, PTL
=============================================================================
