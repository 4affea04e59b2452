-------------------------- MODULE WqueueSetupProofs --------------------------
(***************************************************************************)
(* AllOrNothing, RegistersFound and VersionIsTrimmed of WqueueSetupProps   *)
(* for every place of the program's register blocks, every length of the   *)
(* ring and every build version.                                           *)
(***************************************************************************)
EXTENDS WqueueSetupProps, SequenceTheorems, TLAPS

(* What a call has allocated once the AFU is open.                         *)
Opened == {"wed", "afu"} \cup (IF cxl = "emul" THEN {"mutex", "cond"} ELSE {})

Afus == [mmio : Int, queue_len : Int, stop : Int, item_count : Int]

(* At every step of wqueue_init and wqueue_cleanup exactly what the steps  *)
(* before it allocated is allocated.                                       *)
HeapHeld ==
  /\ pc = "down" => heap = {}
  /\ pc \in {"open", "free_wed"} => heap = {"wed"}
  /\ pc = "mutex" => heap = {"wed", "afu"}
  /\ pc = "cond" => heap = {"wed", "afu", "mutex"}
  /\ pc \in {"attach", "create", "map", "len", "up", "free_afu", "destroy"} =>
       heap = Opened
  /\ pc \in {"mutex", "cond", "create", "destroy"} => cxl = "emul"

(* The AFU runs from the attach on, and is left alone until it is freed.   *)
ThreadHeld ==
  /\ pc \in {"map", "len", "up"} => thrd = "running"
  /\ thrd # "none" => pc \in {"map", "len", "up", "free_afu"}

(* The emulator's thread has not been told to stop, and from the first     *)
(* write on the emulator knows the place of the registers, so that no      *)
(* other write of the program can be taken for one to force_stop.          *)
NotStopped ==
  cxl = "emul" =>
    /\ pc \in {"mutex", "cond", "attach", "create", "map", "len"} => afu.mmio = Unset
    /\ pc \in {"create", "map", "len", "up"} => afu.stop = 0
    /\ pc = "up" => afu.mmio = mmio

IInv ==
  /\ afu \in Afus
  /\ pc # "down" => mmio \in Bases /\ queue_len \in Lens
  /\ HeapHeld /\ ThreadHeld /\ NotStopped

-----------------------------------------------------------------------------
LEMMA NoAfuIsAfu == NoAfu \in Afus
  BY DEF NoAfu, Afus, Unwritten

(* What the assumption on the constants says of them one by one.           *)
LEMMA PlacesApart ==
  /\ \A n \in Lens : n \in Nat
  /\ \A b \in Bases : b \in Nat /\ VersionAt # b + R!ForceStopReg
  /\ VersionAt \in Nat
<1>1. Lens \subseteq Nat /\ Bases \subseteq Nat /\ VersionAt \in Nat
  BY PlaceAssumption
<1>2. ASSUME NEW b \in Bases
      PROVE  VersionAt # b + R!ForceStopReg
  <2>1. b + R!BlockWords <= VersionAt \/ VersionAt + V!VersionBlock <= b
    BY PlaceAssumption
  <2>2. QED
    BY <1>1, <2>1 DEF R!BlockWords, V!VersionBlock, R!ForceStopReg
<1>3. QED
  BY <1>1, <1>2

(* Where the emulator learns the place of its registers.                   *)
LEMMA WriteFinds ==
  ASSUME NEW r \in Afus, r.mmio = Unset, NEW a \in Nat, NEW d \in Int
  PROVE  /\ R!Write64(r, a + R!QueueLenReg, d) \in Afus
         /\ R!Write64(r, a + R!QueueLenReg, d).mmio = a
         /\ R!Write64(r, a + R!QueueLenReg, d).stop = r.stop
<1> DEFINE f == R!Found(r, a)
<1>1. f \in Afus /\ f.mmio = a /\ f.stop = r.stop
  BY DEF R!Found, R!QueueLenReg, Afus
<1>2. R!Inside(f, a)
  BY <1>1 DEF R!Inside, R!BlockWords, Unset
<1>3. R!Write64(r, a, d) = [f EXCEPT !.queue_len = d + 1]
  <2>1. a = f.mmio + R!QueueLenReg
    BY <1>1 DEF R!QueueLenReg
  <2>2. a # f.mmio + R!ForceStopReg
    BY <1>1 DEF R!ForceStopReg
  <2> HIDE DEF f
  <2>3. QED
    BY <1>2, <2>1, <2>2 DEF R!Write64, f
<1>4. a + R!QueueLenReg = a
  BY DEF R!QueueLenReg
<1> HIDE DEF f
<1>5. QED
  BY <1>1, <1>3, <1>4 DEF Afus

(* A write that is not one to force_stop.                                  *)
LEMMA WriteKeeps ==
  ASSUME NEW r \in Afus, r.mmio \in Nat, NEW a \in Nat, NEW d \in Int,
         a # r.mmio + R!ForceStopReg
  PROVE  /\ R!Write64(r, a, d) \in Afus
         /\ R!Write64(r, a, d).mmio = r.mmio
         /\ R!Write64(r, a, d).stop = r.stop
  BY DEF R!Write64, R!Found, R!Inside, R!QueueLenReg, R!ForceStopReg, R!BlockWords,
         Afus, Unset

LEMMA WriteIsAfu ==
  ASSUME NEW r \in Afus, NEW a \in Nat, NEW d \in Int
  PROVE  R!Write64(r, a, d) \in Afus
  BY DEF R!Write64, R!Found, R!Inside, R!QueueLenReg, R!ForceStopReg, R!BlockWords,
         Afus, Unset

-----------------------------------------------------------------------------
(* The steps of wqueue_init and wqueue_cleanup.                            *)
LEMMA SetUpKeeps ==
  ASSUME IInv, SetUp
  PROVE  IInv'
<1> USE DEF Keep, Goto, regs
<1>1. ASSUME NEW b \in Bases, NEW n \in Lens, InitCall(b, n)
      PROVE  IInv'
  BY <1>1 DEF InitCall, IInv, HeapHeld, ThreadHeld, NotStopped, Opened
<1>2. CASE OpenProper
  BY <1>2 DEF OpenProper, IInv, HeapHeld, ThreadHeld, NotStopped, Opened
<1>3. CASE OpenFails
  BY <1>3 DEF OpenFails, IInv, HeapHeld, ThreadHeld, NotStopped, Opened
<1>4. CASE OpenEmul
  <2>1. afu' \in Afus /\ afu'.mmio = Unset
    BY <1>4 DEF OpenEmul, IInv, Afus, Unset
  <2>2. QED
    BY <1>4, <2>1 DEF OpenEmul, IInv, HeapHeld, ThreadHeld, NotStopped
<1>5. CASE MutexInit
  BY <1>5 DEF MutexInit, IInv, HeapHeld, ThreadHeld, NotStopped, Opened
<1>6. CASE CondInit
  BY <1>6 DEF CondInit, IInv, HeapHeld, ThreadHeld, NotStopped, Opened
<1>7. CASE OpenUnwinds
  BY <1>7, NoAfuIsAfu
  DEF OpenUnwinds, IInv, HeapHeld, ThreadHeld, NotStopped, Opened
<1>8. CASE AttachProper
  BY <1>8 DEF AttachProper, IInv, HeapHeld, ThreadHeld, NotStopped, Opened
<1>9. CASE AttachEmul
  BY <1>9 DEF AttachEmul, IInv, HeapHeld, ThreadHeld, NotStopped, Opened, Afus
<1>10. CASE CreateThread
  BY <1>10 DEF CreateThread, IInv, HeapHeld, ThreadHeld, NotStopped, Opened
<1>11. CASE AttachFails
  BY <1>11 DEF AttachFails, IInv, HeapHeld, ThreadHeld, NotStopped, Opened
<1>12. CASE Map
  BY <1>12 DEF Map, IInv, HeapHeld, ThreadHeld, NotStopped, Opened
<1>13. CASE MapFails
  BY <1>13 DEF MapFails, MapFailGuard, IInv, HeapHeld, ThreadHeld, NotStopped, Opened
<1>14. CASE WriteLen
  <2>1. /\ mmio \in Nat /\ queue_len - 1 \in Int
        /\ cxl = "emul" => afu.mmio = Unset
    <3>1. mmio \in Bases /\ queue_len \in Lens /\ (cxl = "emul" => afu.mmio = Unset)
      BY <1>14 DEF WriteLen, IInv, NotStopped
    <3>2. mmio \in Nat /\ queue_len \in Nat
      BY <3>1, PlacesApart
    <3>3. QED
      BY <3>1, <3>2
  <2>2. /\ afu' \in Afus
        /\ cxl = "emul" => afu'.mmio = mmio /\ afu'.stop = afu.stop
    BY <1>14, <2>1, WriteFinds DEF WriteLen, Write, IInv
  <2>3. QED
    BY <1>14, <2>2 DEF WriteLen, IInv, HeapHeld, ThreadHeld, NotStopped, Opened
<1>15. QED
  BY <1>1, <1>2, <1>3, <1>4, <1>5, <1>6, <1>7, <1>8, <1>9, <1>10, <1>11, <1>12,
     <1>13, <1>14 DEF SetUp

LEMMA TearDownKeeps ==
  ASSUME IInv, Cleanup \/ TearDown
  PROVE  IInv'
<1> USE DEF Keep, Goto, regs
<1>1. CASE Cleanup
  <2>1. mmio + R!ForceStopReg \in Nat
    BY <1>1, PlacesApart DEF Cleanup, IInv, R!ForceStopReg
  <2>2. afu' \in Afus
    BY <1>1, <2>1, WriteIsAfu DEF Cleanup, StopAfu, Write, IInv
  <2>3. QED
    BY <1>1, <2>2 DEF Cleanup, IInv, HeapHeld, ThreadHeld, NotStopped, Opened
<1>2. CASE FreeProper
  BY <1>2 DEF FreeProper, IInv, HeapHeld, ThreadHeld, NotStopped, Opened
<1>3. CASE FreeEmul
  BY <1>3 DEF FreeEmul, JoinThread, IInv, HeapHeld, ThreadHeld, NotStopped, Opened
<1>4. CASE JoinUnset
  BY <1>4 DEF JoinUnset, IInv, HeapHeld, ThreadHeld, NotStopped, Opened
<1>5. CASE Destroy
  BY <1>5, NoAfuIsAfu DEF Destroy, IInv, HeapHeld, ThreadHeld, NotStopped, Opened
<1>6. CASE FreeWed
  BY <1>6 DEF FreeWed, IInv, HeapHeld, ThreadHeld, NotStopped, Opened
<1>7. QED
  BY <1>1, <1>2, <1>3, <1>4, <1>5, <1>6 DEF TearDown

(* The emulator's thread ends only when it was told to.                    *)
LEMMA ThreadKeeps ==
  ASSUME IInv, Thread
  PROVE  IInv'
<1> USE DEF Keep
<1>1. CASE ItemDone
  BY <1>1 DEF ItemDone, IInv, HeapHeld, ThreadHeld, NotStopped, Opened, Afus
<1>2. CASE ThreadEnds
  <2>1. pc \notin {"map", "len", "up"}
    BY <1>2 DEF ThreadEnds, IInv, ThreadHeld, NotStopped
  <2>2. QED
    BY <1>2, <2>1 DEF ThreadEnds, IInv, HeapHeld, ThreadHeld, NotStopped, Opened
<1>3. QED
  BY <1>1, <1>2 DEF Thread

(* What the program does with a queue that is up.                          *)
LEMMA UseKeeps ==
  ASSUME IInv, Registers \/ build_version_get \/ build_version_print
  PROVE  IInv'
<1>1. ASSUME NEW a \in {mmio + R!CroomReg, VersionAt}, WriteOther(a)
      PROVE  IInv'
  <2>1. /\ mmio \in Bases /\ mmio \in Nat /\ a \in Nat
        /\ a # mmio + R!ForceStopReg
    BY <1>1, PlacesApart DEF WriteOther, IInv, R!CroomReg, R!ForceStopReg
  <2>2. CASE cxl = "emul"
    <3>1. afu.mmio = mmio /\ afu \in Afus
      BY <1>1, <2>2 DEF WriteOther, IInv, NotStopped
    <3>2. /\ R!Write64(afu, a, 1) \in Afus
          /\ R!Write64(afu, a, 1).mmio = mmio
          /\ R!Write64(afu, a, 1).stop = afu.stop
      BY <2>1, <3>1, WriteKeeps
    <3>3. afu' = R!Write64(afu, a, 1) \/ afu' = afu
      BY <1>1, <2>2 DEF WriteOther, Write, R!Write32
    <3>4. QED
      BY <1>1, <3>1, <3>2, <3>3
      DEF WriteOther, Keep, IInv, HeapHeld, ThreadHeld, NotStopped, Opened
  <2>3. CASE cxl # "emul"
    BY <1>1, <2>3
    DEF WriteOther, Write, Keep, IInv, HeapHeld, ThreadHeld, NotStopped, Opened
  <2>4. QED
    BY <2>2, <2>3
<1>2. ASSUME UNCHANGED <<cxl, pc, regs, mmio, queue_len>>
      PROVE  IInv'
  BY <1>2 DEF regs, IInv, HeapHeld, ThreadHeld, NotStopped, Opened
<1>3. ASSUME NEW a, ReadRegister(a) \/ ReadHalf(a)
      PROVE  IInv'
  BY <1>2, <1>3 DEF ReadRegister, ReadHalf, regs
<1>4. ASSUME build_version_get \/ build_version_print
      PROVE  IInv'
  BY <1>2, <1>4
  DEF build_version_get, GetCall, GetRead, GetStamp, GetTrim, GetReturns,
      build_version_print, regs
<1>5. QED
  BY <1>1, <1>3, <1>4 DEF Registers

LEMMA InvariantHolds == Spec => []IInv
<1>1. Init => IInv
  BY NoAfuIsAfu DEF Init, IInv, HeapHeld, ThreadHeld, NotStopped
<1>2. ASSUME IInv, [Next]_vars
      PROVE  IInv'
  <2>1. CASE wqueue_emul_init
    BY <1>2, <2>1 DEF wqueue_emul_init, regs, IInv, HeapHeld, ThreadHeld, NotStopped
  <2>2. CASE UNCHANGED vars
    BY <1>2, <2>2 DEF vars, regs, IInv, HeapHeld, ThreadHeld, NotStopped, Opened
  <2>3. QED
    BY <1>2, <2>1, <2>2, SetUpKeeps, TearDownKeeps, ThreadKeeps, UseKeeps DEF Next
<1>3. QED
  BY <1>1, <1>2, PTL DEF Spec

(* Whichever step of wqueue_init fails, a return leaves a whole work queue *)
(* or nothing, and nothing the running AFU uses is freed: emul_afu_free    *)
(* joins its thread, afu_free detaches the hardware, before anything goes. *)
THEOREM SetupIsAllOrNothing == Spec => []AllOrNothing
<1>1. IInv => AllOrNothing
  BY DEF IInv, HeapHeld, ThreadHeld, Opened, AllOrNothing
<1>2. QED
  BY <1>1, InvariantHolds, PTL

-----------------------------------------------------------------------------
(* What the registers answer.                                              *)

Placed == cxl = "emul" /\ pc = "up" => afu.queue_len = queue_len

(* Nothing is asked of a queue that is not up.                             *)
Asked == pc # "up" => answer = NoAnswer /\ vpc = "idle"

AInv == IInv /\ Placed /\ Asked /\ RegistersFound

LEMMA Even ==
  /\ \A b \in Bases : b % 2 = 0
  /\ \A p \in Probes : p \in Nat
  BY PlaceAssumption

LEMMA Parity ==
  ASSUME NEW b \in Nat, b % 2 = 0, NEW a \in Nat
  PROVE  /\ a % 2 \in 0 .. 1
         /\ a = b \/ a = b + 1 => a - (a % 2) = b
         /\ a = b + 8 \/ a = b + 9 => a - (a % 2) = b + 8
  OBVIOUS

(* A 64-bit read of queue_len or of the two counters.                      *)
LEMMA ReadAnswers ==
  ASSUME NEW r, NEW b \in Nat, r.mmio = b, NEW outside
  PROVE  /\ R!Read64(r, b + R!QueueLenReg, outside) = R!Low(r.queue_len)
         /\ R!Read64(r, b + R!CountsReg, outside) = R!Low(0)
<1>1. ASSUME NEW a \in {b + R!QueueLenReg, b + R!CountsReg}
      PROVE  R!Inside(r, a)
  BY <1>1 DEF R!Inside, R!QueueLenReg, R!CountsReg, R!BlockWords, Unset
<1>2. R!Read64(r, b + R!QueueLenReg, outside) = R!Low(r.queue_len)
  <2>1. R!Inside(r, b + R!QueueLenReg)
    BY <1>1
  <2>2. /\ b + R!QueueLenReg # r.mmio + R!DebugReg
        /\ b + R!QueueLenReg # r.mmio + R!CountsReg
    BY DEF R!CountsReg, R!QueueLenReg, R!DebugReg
  <2>3. QED
    BY <2>1, <2>2 DEF R!Read64
<1>3. R!Read64(r, b + R!CountsReg, outside) = R!Low(0)
  <2>1. /\ b + R!CountsReg # r.mmio + R!QueueLenReg
        /\ b + R!CountsReg # r.mmio + R!DebugReg
    BY DEF R!CountsReg, R!QueueLenReg, R!DebugReg
  <2>2. QED
    BY <1>1, <2>1 DEF R!Read64
<1>4. QED
  BY <1>2, <1>3

(* The first write, and the writes after it, leave the length where reads  *)
(* find it.                                                                *)
LEMMA WriteLength ==
  ASSUME NEW r \in Afus, NEW a \in Nat, NEW d \in Int
  PROVE  /\ r.mmio = Unset => R!Write64(r, a + R!QueueLenReg, d).queue_len = d + 1
         /\ r.mmio \in Nat /\ a # r.mmio + R!QueueLenReg
              => R!Write64(r, a, d).queue_len = r.queue_len
<1>1. CASE r.mmio = Unset
  <2> DEFINE f == R!Found(r, a)
  <2>1. f \in Afus /\ f.mmio = a
    BY <1>1 DEF R!Found, R!QueueLenReg, Afus
  <2>2. R!Inside(f, a) /\ a = f.mmio + R!QueueLenReg /\ a + R!QueueLenReg = a
    BY <2>1 DEF R!Inside, R!BlockWords, R!QueueLenReg, Unset
  <2>3. a # f.mmio + R!ForceStopReg
    BY <2>1 DEF R!ForceStopReg
  <2> HIDE DEF f
  <2>4. R!Write64(r, a, d) = [f EXCEPT !.queue_len = d + 1]
    BY <2>2, <2>3 DEF R!Write64, f
  <2>5. QED
    BY <1>1, <2>1, <2>2, <2>4 DEF Afus, Unset
<1>2. CASE r.mmio # Unset
  BY <1>2 DEF R!Write64, R!Found, R!Inside, R!BlockWords, R!QueueLenReg, R!ForceStopReg, Afus
<1>3. QED
  BY <1>1, <1>2

LEMMA PlacedKeeps ==
  ASSUME IInv, Placed, Next
  PROVE  Placed'
<1> USE DEF Keep, Goto, regs
<1>0. afu \in Afus /\ (pc # "down" => mmio \in Bases /\ queue_len \in Lens)
  BY DEF IInv
<1>1. CASE WriteLen
  <2>1. mmio \in Nat /\ queue_len \in Nat
    BY <1>0, <1>1, PlacesApart DEF WriteLen
  <2>2. cxl = "emul" => afu.mmio = Unset
    BY <1>1 DEF WriteLen, IInv, NotStopped
  <2>3. cxl = "emul" => afu'.queue_len = queue_len - 1 + 1
    BY <1>0, <1>1, <2>1, <2>2, WriteLength DEF WriteLen, Write
  <2>4. QED
    BY <1>1, <2>1, <2>3 DEF WriteLen, Placed
<1>2. ASSUME NEW a \in {mmio + R!CroomReg, VersionAt}, WriteOther(a)
      PROVE  Placed'
  <2>1. CASE cxl = "emul"
    <3>1. /\ afu.mmio = mmio /\ mmio \in Nat /\ a \in Nat
          /\ a # mmio + R!QueueLenReg
      <4>1. pc = "up" /\ mmio \in Bases
        BY <1>0, <1>2 DEF WriteOther
      <4>2. VersionAt # mmio + R!QueueLenReg
        <5>1. mmio + R!BlockWords <= VersionAt \/ VersionAt + V!VersionBlock <= mmio
          BY <4>1, PlaceAssumption
        <5>2. QED
          BY <4>1, <5>1, PlacesApart DEF R!BlockWords, V!VersionBlock, R!QueueLenReg
      <4>3. QED
        BY <2>1, <4>1, <4>2, PlacesApart DEF IInv, NotStopped, R!CroomReg, R!QueueLenReg
    <3>2. R!Write64(afu, a, 1).queue_len = afu.queue_len
      BY <1>0, <3>1, WriteLength
    <3>3. afu' = R!Write64(afu, a, 1) \/ afu' = afu
      BY <1>2, <2>1 DEF WriteOther, Write, R!Write32
    <3>4. QED
      BY <1>2, <3>2, <3>3 DEF WriteOther, Placed
  <2>2. CASE cxl # "emul"
    BY <1>2, <2>2 DEF WriteOther, Placed
  <2>3. QED
    BY <2>1, <2>2
<1>3. CASE ItemDone
  BY <1>0, <1>3 DEF ItemDone, Placed, Afus
<1>4. ASSUME UNCHANGED <<cxl, pc, afu, queue_len>>
      PROVE  Placed'
  BY <1>4 DEF Placed
<1>5. ASSUME pc' # "up"
      PROVE  Placed'
  BY <1>5 DEF Placed
<1>6. CASE wqueue_emul_init
  BY <1>6 DEF wqueue_emul_init, Placed
<1>7. CASE SetUp
  BY <1>1, <1>5, <1>7
  DEF SetUp, InitCall, OpenProper, OpenFails, OpenEmul, MutexInit, CondInit, OpenUnwinds,
      AttachProper, AttachEmul, CreateThread, AttachFails, Map, MapFails
<1>8. CASE Cleanup \/ TearDown
  BY <1>5, <1>8
  DEF Cleanup, TearDown, FreeProper, FreeEmul, JoinThread, JoinUnset, Destroy, FreeWed
<1>9. CASE ThreadEnds
  BY <1>4, <1>9 DEF ThreadEnds
<1>10. CASE build_version_get \/ build_version_print
  BY <1>4, <1>10
  DEF build_version_get, GetCall, GetRead, GetStamp, GetTrim, GetReturns,
      build_version_print
<1>11. CASE Registers
  BY <1>2, <1>4, <1>11 DEF Registers, ReadRegister, ReadHalf
<1>12. QED
  BY <1>3, <1>6, <1>7, <1>8, <1>9, <1>10, <1>11 DEF Next, Thread

(* A read of either width answers as RegistersFound says.                  *)
LEMMA AskedRight ==
  ASSUME IInv, Placed, NEW p \in Probes, ReadRegister(mmio + p) \/ ReadHalf(mmio + p)
  PROVE  RegistersFound'
<1> DEFINE a == mmio + p
           even == a - (a % 2)
<1>1. /\ pc = "up" /\ cxl = "emul" /\ UNCHANGED <<pc, cxl, mmio, queue_len>>
      /\ answer'.at = a
  BY DEF ReadRegister, ReadHalf, regs
<1>2. /\ mmio \in Nat /\ mmio % 2 = 0 /\ a \in Nat
      /\ afu.mmio = mmio /\ afu.queue_len = queue_len
  BY <1>1, PlacesApart, Even DEF IInv, NotStopped, Placed
<1>3. /\ a % 2 \in 0 .. 1
      /\ a - mmio \in {R!QueueLenReg, R!QueueLenReg + 1} => even = mmio + R!QueueLenReg
      /\ a - mmio \in {R!CountsReg, R!CountsReg + 1} => even = mmio + R!CountsReg
  BY <1>2, Parity DEF R!QueueLenReg, R!CountsReg
<1> HIDE DEF a, even
<1>4. ASSUME NEW n, NEW reg, reg \in {R!QueueLenReg, R!CountsReg},
             a - mmio \in {reg, reg + 1} => even = mmio + reg,
             \A outside : R!Read64(afu, mmio + reg, outside) = R!Low(n)
      PROVE  a - mmio \in {reg, reg + 1} =>
               \A h \in DOMAIN answer'.data : answer'.data[h] = R!Low(n)[h]
  <2>1. SUFFICES ASSUME a - mmio \in {reg, reg + 1}
                 PROVE  \A h \in DOMAIN answer'.data : answer'.data[h] = R!Low(n)[h]
    OBVIOUS
  <2>2. even = mmio + reg
    BY <1>4, <2>1
  <2>3. CASE ReadRegister(a)
    <3>1. a = even
      BY <1>2, <2>3 DEF ReadRegister, even
    <3>2. answer'.data = R!Low(n)
      BY <1>4, <2>2, <2>3, <3>1 DEF ReadRegister
    <3>3. QED
      BY <3>2
  <2>4. CASE ReadHalf(a)
    <3>1. R!Inside(afu, a)
      BY <1>2, <1>4, <2>1 DEF R!Inside, R!BlockWords, R!QueueLenReg, R!CountsReg, Unset
    <3>2. R!Read32(afu, a, Outside(a)[0]) = R!Low(n)[a % 2]
      BY <1>4, <2>2, <3>1 DEF R!Read32, even
    <3>3. answer'.data = [h \in {a % 2} |-> R!Low(n)[a % 2]]
      BY <2>4, <3>2 DEF ReadHalf
    <3>4. QED
      BY <3>3
  <2>5. QED
    BY <2>3, <2>4 DEF a
<1>5. /\ a - mmio \in {R!QueueLenReg, R!QueueLenReg + 1} =>
           \A h \in DOMAIN answer'.data : answer'.data[h] = R!Low(queue_len)[h]
      /\ a - mmio \in {R!CountsReg, R!CountsReg + 1} =>
           \A h \in DOMAIN answer'.data : answer'.data[h] = R!Low(0)[h]
  BY <1>2, <1>3, <1>4, ReadAnswers
<1>6. QED
  BY <1>1, <1>5 DEF RegistersFound

LEMMA AInvKeeps ==
  ASSUME AInv, Next
  PROVE  Asked' /\ RegistersFound'
<1> USE DEF Keep, Goto, ver
<1>0. Asked /\ RegistersFound /\ IInv /\ Placed
  BY DEF AInv
<1>1. ASSUME answer' = NoAnswer
      PROVE  RegistersFound'
  BY <1>1 DEF RegistersFound, NoAnswer
<1>2. ASSUME pc' # "up"
      PROVE  RegistersFound'
  BY <1>2 DEF RegistersFound
<1>3. ASSUME UNCHANGED <<pc, cxl, mmio, queue_len, answer>>
      PROVE  RegistersFound'
  BY <1>0, <1>3 DEF RegistersFound
<1>4. CASE wqueue_emul_init
  BY <1>0, <1>2, <1>4 DEF wqueue_emul_init, Asked
<1>5. CASE SetUp
  BY <1>0, <1>1, <1>5
  DEF Asked, SetUp, InitCall, OpenProper, OpenFails, OpenEmul, MutexInit, CondInit,
      OpenUnwinds, AttachProper, AttachEmul, CreateThread, AttachFails, Map, MapFails,
      WriteLen
<1>6. CASE Cleanup \/ TearDown
  BY <1>0, <1>1, <1>6
  DEF Asked, Idle, Cleanup, TearDown, FreeProper, FreeEmul, JoinThread, JoinUnset, Destroy,
      FreeWed
<1>7. CASE Thread
  BY <1>0, <1>3, <1>7 DEF Asked, Thread, ItemDone, ThreadEnds
<1>8. ASSUME NEW a, WriteOther(a)
      PROVE  Asked' /\ RegistersFound'
  BY <1>0, <1>3, <1>8 DEF Asked, WriteOther
<1>9. ASSUME NEW p \in Probes, ReadRegister(mmio + p) \/ ReadHalf(mmio + p)
      PROVE  Asked' /\ RegistersFound'
  <2>1. pc' = "up"
    BY <1>9 DEF ReadRegister, ReadHalf
  <2>2. QED
    BY <1>0, <1>9, <2>1, AskedRight DEF Asked
<1>10. CASE GetStamp
  <2>1. /\ pc = "up" /\ pc' = "up" /\ mmio' = mmio
        /\ answer'.at = VersionAt + V!TimestampReg
    BY <1>0, <1>10 DEF GetStamp, Asked
  <2>2. mmio \in Bases
    BY <1>0, <2>1 DEF IInv
  <2>3. mmio + R!BlockWords <= VersionAt \/ VersionAt + V!VersionBlock <= mmio
    BY <2>2, PlaceAssumption
  <2>4. answer'.at - mmio' \notin {R!QueueLenReg, R!QueueLenReg + 1,
                                   R!CountsReg, R!CountsReg + 1}
    BY <2>1, <2>2, <2>3, PlacesApart
    DEF R!BlockWords, V!VersionBlock, V!TimestampReg, R!QueueLenReg, R!CountsReg
  <2>5. QED
    BY <2>1, <2>4 DEF Asked, RegistersFound
<1>11. CASE GetCall \/ GetRead \/ GetTrim \/ GetReturns \/ build_version_print
  BY <1>0, <1>1, <1>3, <1>11
  DEF Asked, GetCall, GetRead, GetTrim, GetReturns, build_version_print
<1>12. QED
  BY <1>4, <1>5, <1>6, <1>7, <1>8, <1>9, <1>10, <1>11 DEF Next, Registers, build_version_get

LEMMA AnswersHold == Spec => []AInv
<1>1. Init => AInv
  <2>1. Init => IInv
    BY NoAfuIsAfu DEF Init, IInv, HeapHeld, ThreadHeld, NotStopped
  <2>2. QED
    BY <2>1 DEF Init, AInv, Placed, Asked, RegistersFound, NoAnswer
<1>2. ASSUME AInv, IInv', [Next]_vars
      PROVE  AInv'
  <2>1. CASE Next
    BY <1>2, <2>1, PlacedKeeps, AInvKeeps DEF AInv
  <2>2. CASE UNCHANGED vars
    BY <1>2, <2>2 DEF vars, regs, ver, AInv, Placed, Asked, RegistersFound
  <2>3. QED
    BY <1>2, <2>1, <2>2
<1>3. QED
  BY <1>1, <1>2, InvariantHolds, PTL DEF Spec

(* In every session the emulator finds the registers where the program has *)
(* put them, and reads of either width answer for the right one, wherever  *)
(* the program keeps its other registers and whatever it writes there.     *)
THEOREM RegistersAreFound == Spec => []RegistersFound
<1>1. AInv => RegistersFound
  BY DEF AInv
<1>2. QED
  BY <1>1, AnswersHold, PTL

-----------------------------------------------------------------------------
(* The build version.                                                      *)

(* Whoever answers for the block: its text, or NULs.                       *)
Answers == cxl = "proper" \/ hooked
Want == [c \in 0 .. V!VersionLen - 1 |-> IF Answers THEN V!Padded(text)[c] ELSE V!Nul]

Char == Nat \cup {Unwritten}

(* The buffer behind the characters read, and around the one looked at.    *)
Buffered ==
  /\ cxl \in {"proper", "emul"} /\ text \in Versions
  /\ version \in [Chars -> Char]
  /\ vpc # "idle" => pc = "up" /\ version[V!VersionLen] = V!Nul
  /\ vpc = "read" => /\ i \in {0, 2, 4, V!VersionLen}
                     /\ \A c \in 0 .. V!VersionLen - 1 : c < i => version[c] = Want[c]
  /\ vpc \in {"trim", "got"} =>
       /\ i \in -1 .. V!VersionLen - 1
       /\ \A c \in 0 .. V!VersionLen - 1 :
            IF c <= i THEN version[c] = Want[c]
            ELSE Want[c] = V!Blank /\ version[c] = V!Nul
  /\ vpc = "got" => i = -1 \/ version[i] # V!Blank

LEMMA TextIsSeq ==
  ASSUME text \in Versions
  PROVE  /\ text \in Seq(Nat) /\ Len(text) \in Nat
         /\ \A k \in 1 .. Len(text) : text[k] \in Nat /\ text[k] # V!Nul
<1>1. text \in Seq(Nat \ {V!Nul})
  BY VersionAssumption
<1>2. \A k \in 1 .. Len(text) : text[k] \in Nat \ {V!Nul}
  BY <1>1
<1>3. text \in Seq(Nat) /\ Len(text) \in Nat
  BY <1>1
<1>4. QED
  BY <1>2, <1>3

LEMMA WantIsChars ==
  ASSUME text \in Versions
  PROVE  \A c \in 0 .. V!VersionLen - 1 : Want[c] \in Nat
<1>1. ASSUME NEW c \in 0 .. V!VersionLen - 1
      PROVE  V!Padded(text)[c] \in Nat
  <2>1. V!Padded(text)[c] = IF c < Len(text) THEN text[c + 1] ELSE V!Nul
    BY DEF V!Padded
  <2>2. c < Len(text) => c + 1 \in 1 .. Len(text)
    BY TextIsSeq DEF V!VersionLen
  <2>3. QED
    BY <2>1, <2>2, TextIsSeq DEF V!Nul
<1>2. QED
  BY <1>1 DEF Want, V!Nul

(* A read of the version's block, whichever side of the other block it is. *)
LEMMA ReadsVersion ==
  ASSUME IInv, pc = "up", cxl \in {"proper", "emul"}, NEW off \in {0, 2, 4}
  PROVE  VersionPair(off)[0] = Want[off] /\ VersionPair(off)[1] = Want[off + 1]
<1>1. /\ mmio \in Bases /\ mmio \in Nat /\ VersionAt \in Nat
      /\ mmio + R!BlockWords <= VersionAt \/ VersionAt + V!VersionBlock <= mmio
  <2>1. mmio \in Bases
    BY DEF IInv
  <2>2. QED
    BY <2>1, PlaceAssumption, PlacesApart
<1>2. off \in 0 .. V!VersionLen - 1 /\ off + 1 \in 0 .. V!VersionLen - 1 /\ off < V!TimestampReg
  BY DEF V!VersionLen, V!TimestampReg
<1>3. CASE cxl = "emul"
  <2>1. afu.mmio = mmio
    BY <1>3 DEF IInv, NotStopped
  <2>2. ~R!Inside(afu, VersionAt + off)
    BY <1>1, <2>1 DEF R!Inside, R!BlockWords, V!VersionBlock
  <2>3. VersionPair(off) = Outside(VersionAt + off)
    BY <1>3, <2>2 DEF VersionPair, R!Read64
  <2>4. CASE hooked
    <3>1. VersionAt + off - VersionAt = off
      BY <1>1
    <3>2. VersionAt + off \in VersionAt .. VersionAt + V!VersionBlock - 1
      BY <1>1 DEF V!VersionBlock
    <3>3. Outside(VersionAt + off) = V!ReadPair(text, off)
      <4> DEFINE a == VersionAt + off
      <4>1. a - VersionAt = off /\ a \in VersionAt .. VersionAt + V!VersionBlock - 1
        BY <1>1 DEF V!VersionBlock
      <4> HIDE DEF a
      <4>2. Outside(a) = V!ReadPair(text, a - VersionAt)
        BY <2>4, <4>1 DEF Outside
      <4>3. QED
        BY <4>1, <4>2 DEF a
    <3>4. V!ReadPair(text, off) =
            [h \in 0 .. 1 |-> IF off + h < V!VersionLen THEN V!Padded(text)[off + h] ELSE Unwritten]
      BY <1>2 DEF V!ReadPair
    <3>5. off + 0 = off
      OBVIOUS
    <3>6. QED
      BY <1>2, <2>3, <2>4, <3>3, <3>4, <3>5 DEF Want, Answers, V!VersionLen
  <2>5. CASE ~hooked
    <3>1. Outside(VersionAt + off) = R!Low(0)
      BY <2>5 DEF Outside
    <3>2. QED
      BY <1>2, <1>3, <2>3, <2>5, <3>1 DEF Want, Answers, R!Low, V!Nul
  <2>6. QED
    BY <2>4, <2>5
<1>4. CASE cxl # "emul"
  <2>1. VersionPair(off) = [h \in 0 .. 1 |-> V!Padded(text)[off + h]]
    BY <1>2, <1>4 DEF VersionPair, V!HardwarePair
  <2>2. QED
    BY <1>2, <1>4, <2>1 DEF Want, Answers
<1>5. QED
  BY <1>3, <1>4

LEMMA BufferedKeeps ==
  ASSUME IInv, Asked, Buffered, Next
  PROVE  Buffered'
<1> USE DEF Keep, Goto
<1>0. /\ cxl \in {"proper", "emul"} /\ text \in Versions /\ version \in [Chars -> Char]
      /\ \A c \in 0 .. V!VersionLen - 1 : Want[c] \in Nat
      /\ Chars = 0 .. V!VersionLen
  BY WantIsChars DEF Buffered, Chars
<1>1. ASSUME UNCHANGED <<cxl, hooked, text, pc, version, vpc, i>>
      PROVE  Buffered'
  BY <1>1 DEF Buffered, Want, Answers
<1>2. CASE wqueue_emul_init \/ SetUp \/ Cleanup \/ TearDown
  <2>1. /\ vpc = "idle" /\ UNCHANGED <<vpc, version, text>>
        /\ cxl' \in {cxl, "emul"}
    BY <1>2
    DEF Asked, Idle, ver, wqueue_emul_init, SetUp, InitCall, OpenProper, OpenFails, OpenEmul,
        MutexInit, CondInit, OpenUnwinds, AttachProper, AttachEmul, CreateThread, AttachFails,
        Map, MapFails, WriteLen, Cleanup, TearDown, FreeProper, FreeEmul, JoinThread,
        JoinUnset, Destroy, FreeWed
  <2>2. QED
    BY <2>1 DEF Buffered
<1>3. CASE Thread \/ Registers
  BY <1>1, <1>3
  DEF ver, Thread, ItemDone, ThreadEnds, Registers, ReadRegister, ReadHalf, WriteOther
<1>4. CASE GetCall
  <2>1. version' \in [Chars -> Char]
    BY <1>4 DEF GetCall, Char, V!Nul
  <2>2. version'[V!VersionLen] = V!Nul
    BY <1>0, <1>4 DEF GetCall, V!VersionLen
  <2>3. QED
    BY <1>4, <2>1, <2>2 DEF GetCall, Buffered
<1>5. CASE GetRead
  <2>1. i \in {0, 2, 4} /\ pc = "up" /\ version[V!VersionLen] = V!Nul
    BY <1>5 DEF GetRead, Buffered, V!VersionLen
  <2>2. VersionPair(i)[0] = Want[i] /\ VersionPair(i)[1] = Want[i + 1]
    BY <1>0, <2>1, ReadsVersion
  <2>3. version' = [version EXCEPT ![i] = Want[i], ![i + 1] = Want[i + 1]]
    BY <1>5, <2>2 DEF GetRead
  <2>4. Want[i] \in Nat /\ Want[i + 1] \in Nat
    BY <1>0, <2>1 DEF V!VersionLen
  <2>5. /\ version' \in [Chars -> Char]
        /\ \A c \in Chars : version'[c] = IF c = i \/ c = i + 1 THEN Want[c] ELSE version[c]
    BY <1>0, <2>1, <2>3, <2>4 DEF Char, V!VersionLen
  <2>6. \A c \in 0 .. V!VersionLen - 1 : c < i + 2 => version'[c] = Want[c]
    BY <1>0, <1>5, <2>1, <2>5 DEF GetRead, Buffered, V!VersionLen
  <2>7. Want' = Want
    BY <1>5 DEF GetRead, Want, Answers
  <2>8. version'[V!VersionLen] = V!Nul
    BY <1>0, <2>1, <2>5 DEF V!VersionLen
  <2>9. /\ i' = i + 2 /\ vpc' = "read" /\ i' \in {0, 2, 4, V!VersionLen}
        /\ UNCHANGED <<cxl, hooked, text, pc>>
    BY <1>5, <2>1 DEF GetRead, V!VersionLen
  <2>10. QED
    BY <1>0, <2>1, <2>5, <2>6, <2>7, <2>8, <2>9 DEF Buffered
<1>6. CASE GetStamp
  <2>1. /\ vpc' = "trim" /\ i' = V!VersionLen - 1 /\ UNCHANGED <<cxl, hooked, text, pc, version>>
        /\ i = V!VersionLen /\ vpc = "read"
    BY <1>6 DEF GetStamp
  <2>2. Want' = Want
    BY <2>1 DEF Want, Answers
  <2>3. QED
    BY <2>1, <2>2 DEF Buffered, V!VersionLen
<1>7. CASE GetTrim
  <2>1. /\ i \in 0 .. V!VersionLen - 1 /\ version[i] = V!Blank /\ version[i] = Want[i]
        /\ i' = i - 1 /\ UNCHANGED <<cxl, hooked, text, pc, vpc>> /\ vpc = "trim"
        /\ version' = [version EXCEPT ![i] = V!Nul]
    BY <1>7 DEF GetTrim, TrimNext, Buffered
  <2>2. /\ version' \in [Chars -> Char]
        /\ \A c \in Chars : version'[c] = IF c = i THEN V!Nul ELSE version[c]
    BY <1>0, <2>1 DEF Char, V!Nul, V!VersionLen
  <2>3. Want' = Want
    BY <2>1 DEF Want, Answers
  <2>4. ASSUME NEW c \in 0 .. V!VersionLen - 1
        PROVE  IF c <= i - 1 THEN version'[c] = Want[c]
               ELSE Want[c] = V!Blank /\ version'[c] = V!Nul
    BY <1>0, <2>1, <2>2, <2>4 DEF Buffered, V!VersionLen
  <2>5. version'[V!VersionLen] = V!Nul /\ pc = "up"
    BY <1>0, <2>1, <2>2 DEF Buffered, V!VersionLen
  <2>6. i - 1 \in -1 .. V!VersionLen - 1
    BY <2>1 DEF V!VersionLen
  <2>7. QED
    BY <1>0, <2>1, <2>2, <2>3, <2>4, <2>5, <2>6 DEF Buffered
<1>8. CASE GetReturns
  <2>1. Want' = Want
    BY <1>8 DEF GetReturns, Want, Answers
  <2>2. vpc' = "got" /\ vpc = "trim" /\ UNCHANGED <<cxl, hooked, text, pc, version, i>>
    BY <1>8 DEF GetReturns
  <2>3. i = -1 \/ version[i] # V!Blank
    BY <1>8 DEF GetReturns, Buffered
  <2>4. QED
    BY <2>1, <2>2, <2>3 DEF Buffered
<1>9. CASE build_version_print
  <2>1. version' \in [Chars -> Char]
    BY <1>9 DEF build_version_print, Char
  <2>2. QED
    BY <1>9, <2>1 DEF build_version_print, Buffered
<1>10. QED
  BY <1>2, <1>3, <1>4, <1>5, <1>6, <1>7, <1>8, <1>9 DEF Next, build_version_get

(* The first NUL ends a C string, the last character that is no blank the  *)
(* text.                                                                   *)
LEMMA FirstNul ==
  ASSUME NEW s, NEW n \in Chars, s[n] = V!Nul,
         \A c \in Chars : c < n => s[c] # V!Nul
  PROVE  CString(s) = [c \in 1 .. n |-> s[c - 1]]
<1> DEFINE nuls == {c \in Chars : s[c] = V!Nul}
           len == CHOOSE c \in nuls : \A d \in nuls : c <= d
<1>1. n \in nuls /\ \A d \in nuls : n <= d
  BY DEF Chars, V!VersionLen
<1>2. \A c \in nuls : (\A d \in nuls : c <= d) => c = n
  BY <1>1 DEF Chars, V!VersionLen
<1> HIDE DEF nuls
<1>3. len = n
  BY <1>1, <1>2
<1>4. CString(s) = [c \in 1 .. len |-> s[c - 1]]
  BY DEF CString, nuls
<1>5. QED
  BY <1>3, <1>4

LEMMA Front ==
  ASSUME NEW s \in Seq(Nat), NEW n \in 0 .. Len(s)
  PROVE  /\ SubSeq(s, 1, n) = [c \in 1 .. n |-> s[c]]
         /\ SubSeq(s, 1, n) \in Seq(Nat) /\ Len(SubSeq(s, 1, n)) = n
<1>1. Len(s) \in Nat /\ \A c \in 1 .. n : s[c] \in Nat
  OBVIOUS
<1> DEFINE t == SubSeq(s, 1, n)
<1>2. /\ t \in Seq(Nat) /\ Len(t) = IF 1 <= n THEN n - 1 + 1 ELSE 0
      /\ \A c \in 1 .. n - 1 + 1 : t[c] = s[1 + c - 1]
  BY <1>1, SubSeqProperties
<1> HIDE DEF t
<1>3. Len(t) = n /\ \A c \in 1 .. n : t[c] = s[c]
  BY <1>1, <1>2
<1>4. t = [c \in 1 .. n |-> s[c]]
  BY <1>1, <1>2, <1>3
<1>5. QED
  BY <1>2, <1>3, <1>4 DEF t

LEMMA LastLetter ==
  ASSUME NEW s \in Seq(Nat), Len(s) >= V!VersionLen, NEW n \in 0 .. V!VersionLen,
         n # 0 => s[n] # V!Blank,
         \A c \in 1 .. V!VersionLen : c > n => s[c] = V!Blank
  PROVE  Trimmed(s) = [c \in 1 .. n |-> s[c]]
<1> DEFINE cut == SubSeq(s, 1, V!VersionLen)
           last == {c \in DOMAIN cut : cut[c] # V!Blank}
           len == CHOOSE c \in last \cup {0} : \A d \in last : d <= c
<1>0. V!VersionLen \in 0 .. Len(s) /\ V!VersionLen \in Nat /\ n \in Nat /\ n <= V!VersionLen
  BY DEF V!VersionLen
<1>1. cut = [c \in 1 .. V!VersionLen |-> s[c]] /\ cut \in Seq(Nat) /\ Len(cut) = V!VersionLen
  BY <1>0, Front
<1>2. Trimmed(s) = SubSeq(cut, 1, len)
  <2>1. ~(Len(s) < V!VersionLen)
    BY <1>0
  <2>2. QED
    BY <2>1 DEF Trimmed
<1> HIDE DEF cut
<1>3. last = {c \in 1 .. V!VersionLen : s[c] # V!Blank}
  BY <1>1
<1> HIDE DEF last
<1>4. n \in last \cup {0} /\ \A d \in last : d \in Nat /\ d <= n
  BY <1>0, <1>3
<1>5. \A c \in last \cup {0} : (\A d \in last : d <= c) => c = n
  BY <1>0, <1>4
<1>6. len = n
  BY <1>4, <1>5
<1> HIDE DEF len
<1>7. SubSeq(cut, 1, n) = [c \in 1 .. n |-> cut[c]]
  BY <1>0, <1>1, Front
<1>8. [c \in 1 .. n |-> cut[c]] = [c \in 1 .. n |-> s[c]]
  BY <1>0, <1>1
<1>9. QED
  BY <1>2, <1>6, <1>7, <1>8

LEMMA BufferIsTrimmed == Buffered => VersionIsTrimmed
<1> SUFFICES ASSUME Buffered, vpc = "got"
             PROVE  CString(version) = IF Answers THEN Trimmed(text) ELSE <<>>
  BY DEF VersionIsTrimmed, Answers
<1>0. /\ version \in [Chars -> Char] /\ Chars = 0 .. 6 /\ V!VersionLen = 6
      /\ V!Nul = 0 /\ V!Blank = 32
      /\ version[6] = 0
      /\ i \in -1 .. 5
      /\ i = -1 \/ version[i] # 32
      /\ \A c \in 0 .. 5 : IF c <= i THEN version[c] = Want[c] ELSE Want[c] = 32 /\ version[c] = 0
  BY DEF Buffered, Chars, V!VersionLen, V!Nul, V!Blank
<1>1. /\ text \in Seq(Nat) /\ Len(text) \in Nat
      /\ \A k \in 1 .. Len(text) : text[k] \in Nat /\ text[k] # 0
  BY <1>0, TextIsSeq DEF Buffered
<1>2. CASE ~Answers
  <2>1. \A c \in 0 .. 5 : Want[c] = 0
    BY <1>0, <1>2 DEF Want
  <2>2. version[0] = 0
    BY <1>0, <2>1
  <2>3. CString(version) = [c \in 1 .. 0 |-> version[c - 1]]
    BY <1>0, <2>2, FirstNul
  <2>4. QED
    BY <1>2, <2>3
<1>3. CASE Answers
  <2>1. \A c \in 0 .. 5 : Want[c] = IF c < Len(text) THEN text[c + 1] ELSE 0
    BY <1>0, <1>3 DEF Want, V!Padded
  <2>2. CASE Len(text) < 6
    <3> DEFINE n == Len(text)
    <3>1. n \in 0 .. 5 /\ i = 5
      <4>1. Want[5] = 0
        BY <1>1, <2>1, <2>2
      <4>2. i = 5
        BY <1>0, <4>1
      <4>3. n \in Nat /\ n < 6
        BY <1>1, <2>2
      <4> HIDE DEF n
      <4>4. n \in 0 .. 5
        BY <4>3
      <4>5. QED
        BY <4>2, <4>4
    <3>2. \A c \in 0 .. 5 : version[c] = IF c < n THEN text[c + 1] ELSE 0
      BY <1>0, <2>1, <3>1
    <3>3. \A c \in 0 .. 5 : c < n => c + 1 \in 1 .. n
      BY <3>1
    <3>4. CString(version) = [c \in 1 .. n |-> version[c - 1]]
      <4> HIDE DEF n
      <4>1. n \in Chars /\ version[n] = V!Nul
        BY <1>0, <3>1, <3>2
      <4>2. \A c \in Chars : c < n => version[c] # V!Nul
        <5>1. \A c \in 0 .. 5 : c < n => version[c] # 0
          BY <1>1, <3>2, <3>3 DEF n
        <5>2. QED
          BY <1>0, <3>1, <5>1
      <4>3. QED
        BY <4>1, <4>2, FirstNul
    <3>5. [c \in 1 .. n |-> version[c - 1]] = [c \in 1 .. n |-> text[c]]
      <4>1. \A c \in 1 .. n : version[c - 1] = text[c]
        BY <3>1, <3>2
      <4>2. QED
        BY <4>1
    <3>6. text = [c \in 1 .. n |-> text[c]]
      BY <1>1
    <3>7. Trimmed(text) = text
      BY <1>0, <2>2 DEF Trimmed
    <3>8. QED
      BY <1>3, <3>4, <3>5, <3>6, <3>7
  <2>3. CASE Len(text) >= 6
    <3>1. \A c \in 0 .. 5 : Want[c] = text[c + 1] /\ Want[c] # 0
      <4>1. \A c \in 0 .. 5 : c < Len(text) /\ c + 1 \in 1 .. Len(text)
        BY <1>1, <2>3
      <4>2. QED
        BY <1>1, <2>1, <4>1
    <3> DEFINE n == i + 1
    <3>2. n \in 0 .. 6
      BY <1>0
    <3>3. CString(version) = [c \in 1 .. n |-> version[c - 1]]
      <4>1. n \in Chars /\ version[n] = V!Nul
        BY <1>0, <3>2
      <4>2. \A c \in Chars : c < n => version[c] # V!Nul
        BY <1>0, <3>1
      <4> HIDE DEF n
      <4>3. QED
        BY <4>1, <4>2, FirstNul
    <3>4. \A c \in 1 .. n : version[c - 1] = text[c]
      <4>1. SUFFICES ASSUME NEW c \in 1 .. n PROVE version[c - 1] = text[c]
        OBVIOUS
      <4>2. c - 1 \in 0 .. 5 /\ c - 1 <= i /\ c - 1 + 1 = c
        BY <1>0
      <4>3. QED
        BY <1>0, <3>1, <4>2
    <3>5. Trimmed(text) = [c \in 1 .. n |-> text[c]]
      <4>1. n # 0 => text[n] # V!Blank
        <5>1. SUFFICES ASSUME n # 0 PROVE text[n] # V!Blank
          OBVIOUS
        <5>2. i \in 0 .. 5
          BY <1>0, <5>1
        <5>3. QED
          BY <1>0, <3>1, <5>2
      <4>2. \A c \in 1 .. V!VersionLen : c > n => text[c] = V!Blank
        <5>1. SUFFICES ASSUME NEW c \in 1 .. 6, c > n PROVE text[c] = 32
          BY <1>0
        <5>2. c - 1 \in 0 .. 5 /\ ~(c - 1 <= i) /\ c - 1 + 1 = c
          BY <1>0, <5>1
        <5>3. QED
          BY <1>0, <3>1, <5>2
      <4>3. n \in 0 .. V!VersionLen /\ Len(text) >= V!VersionLen
        BY <1>0, <2>3, <3>2
      <4> HIDE DEF n
      <4>4. QED
        BY <1>1, <4>1, <4>2, <4>3, LastLetter
    <3> HIDE DEF n
    <3>6. [c \in 1 .. n |-> version[c - 1]] = [c \in 1 .. n |-> text[c]]
      BY <3>4
    <3>7. QED
      BY <1>3, <3>3, <3>5, <3>6
  <2>4. QED
    BY <1>1, <2>2, <2>3
<1>4. QED
  BY <1>2, <1>3

(* Whoever answers for the version's block, hardware, the emulator through *)
(* the program, or the weak default, build_version_get returns the whole   *)
(* text, cut to its field and trimmed, and nothing that was not written.   *)
THEOREM VersionComesTrimmed == Spec => []VersionIsTrimmed
<1>1. Init => Buffered
  BY DEF Init, Buffered, Char
<1>2. Buffered /\ IInv /\ AInv /\ [Next]_vars => Buffered'
  <2>1. SUFFICES ASSUME Buffered, IInv, AInv, [Next]_vars PROVE Buffered'
    OBVIOUS
  <2>2. CASE UNCHANGED vars
    BY <2>1, <2>2 DEF vars, ver, Buffered, Want, Answers
  <2>3. QED
    BY <2>1, <2>2, BufferedKeeps DEF AInv
<1>3. QED
  BY <1>1, <1>2, InvariantHolds, AnswersHold, BufferIsTrimmed, PTL DEF Spec
=============================================================================
