----------------------------- MODULE WqueueSetup -----------------------------
(***************************************************************************)
(* Setting up and tearing down the work queue: wqueue_init and             *)
(* wqueue_cleanup of src/src/wqueue.c over the function table cxl, which   *)
(* is libcxl's or, after wqueue_emul_init, that of the software AFU in     *)
(* src/src/wqueue_emul.c.  Every allocation and every call to libcxl or    *)
(* pthreads may fail.  While the queue is up the program reads and writes  *)
(* registers, among them those of the build version beside the block of    *)
(* the work queue (build_version_get of src/src/build_version.c).          *)
(*                                                                         *)
(* What the AFU does with the queue is the subject of Wqueue; here it is   *)
(* only something that runs, counts items, and uses the ring and the AFU's *)
(* struct until it has stopped.                                            *)
(***************************************************************************)
EXTENDS Integers, Sequences

CONSTANTS
  Lens,       \* values of queue_len
  Bases,      \* where the program may put struct wqueue_mmio
  VersionAt,  \* where it has struct build_version_mmio
  Versions,   \* texts of the build version
  Probes,     \* addresses the program reads, from the block's beginning
  MaxItems    \* bound on item_count

Unset     == -1     \* (void *)-1
Unwritten == -2     \* memory nobody has written
Stamp     == [i \in 0 .. 1 |-> IF i = 0 THEN 7 ELSE 1]

R == INSTANCE EmulMmio
V == INSTANCE BuildVersion

ASSUME PlaceAssumption ==
  /\ Lens \subseteq Nat \ {0}
  /\ Bases \subseteq Nat /\ \A b \in Bases : b % 2 = 0
  /\ VersionAt \in Nat /\ Probes \subseteq Nat
  /\ \A b \in Bases : b + R!BlockWords <= VersionAt \/ VersionAt + V!VersionBlock <= b

(* A build version is text, which holds no NUL.                            *)
ASSUME VersionAssumption == Versions \subseteq Seq(Nat \ {V!Nul})

VARIABLES
  cxl,        \* the function table: "proper" or "emul"
  hooked,     \* the program overrides proc_mmio_read64
  text,       \* the build version behind the registers
  pc,         \* where the caller is; "down" and "up" are outside the library
  afu,        \* fields of struct cxl_afu_h
  heap,       \* what is allocated: "wed", "afu", "mutex", "cond"
  thrd,       \* the AFU's thread (or the hardware): "none", "running", "ended"
  mmio,       \* the program's struct wqueue_mmio
  queue_len,  \* queue_len of wqueue.c
  undefined,  \* a thread that was never created has been joined
  answer,     \* the last register read
  vpc,        \* where build_version_get is
  i,          \* its loop counter
  version     \* its buffer

regs == <<afu, heap, thrd>>
ver  == <<vpc, i, version>>
vars == <<cxl, hooked, text, pc, regs, mmio, queue_len, undefined, answer, ver>>

(* malloc leaves every field as it finds it.                               *)
NoAfu == [mmio |-> Unwritten, queue_len |-> Unwritten, stop |-> Unwritten,
          item_count |-> Unwritten]

NoAnswer == [at |-> Unset, data |-> R!Low(0)]

Chars == 0 .. V!VersionLen

Init ==
  /\ cxl = "proper" /\ hooked \in BOOLEAN /\ text \in Versions
  /\ pc = "down"
  /\ afu = NoAfu /\ heap = {} /\ thrd = "none"
  /\ mmio = Unset /\ queue_len = 0
  /\ undefined = FALSE
  /\ answer = NoAnswer
  /\ vpc = "idle" /\ i = 0
  /\ version = [c \in Chars |-> Unwritten]

Idle == vpc = "idle"
Goto(p, q) == pc = p /\ pc' = q
Keep == UNCHANGED <<cxl, hooked, text, answer, ver>>

(* From now on the software AFU.                                           *)
wqueue_emul_init ==
  /\ pc = "down" /\ cxl' = "emul"
  /\ UNCHANGED <<hooked, text, pc, regs, mmio, queue_len, undefined, answer, ver>>

-----------------------------------------------------------------------------
(* wqueue_init.  The arguments are in mmio and queue_len from the call on; *)
(* the code stores them there before the first register write, and looks   *)
(* at neither earlier.  When posix_memalign fails nothing has happened yet *)
(* and wqueue_init returns: no step.                                       *)

InitCall(b, n) ==
  /\ Goto("down", "open")
  /\ heap' = heap \cup {"wed"}
  /\ mmio' = b /\ queue_len' = n
  /\ UNCHANGED <<afu, thrd, undefined>> /\ Keep

(* afu_open_dev of libcxl.                                                 *)
OpenProper ==
  /\ cxl = "proper" /\ Goto("open", "attach")
  /\ heap' = heap \cup {"afu"}
  /\ UNCHANGED <<afu, thrd, mmio, queue_len, undefined>> /\ Keep

OpenFails ==
  /\ Goto("open", "free_wed")
  /\ UNCHANGED <<regs, mmio, queue_len, undefined>> /\ Keep

(* emul_afu_open_dev.                                                      *)
OpenEmul ==
  /\ cxl = "emul" /\ Goto("open", "mutex")
  /\ heap' = heap \cup {"afu"}
  /\ afu' = [mmio |-> Unset, queue_len |-> afu.queue_len, stop |-> -1, item_count |-> 0]
  /\ UNCHANGED <<thrd, mmio, queue_len, undefined>> /\ Keep

MutexInit ==
  /\ Goto("mutex", "cond")
  /\ heap' = heap \cup {"mutex"}
  /\ UNCHANGED <<afu, thrd, mmio, queue_len, undefined>> /\ Keep

CondInit ==
  /\ Goto("cond", "attach")
  /\ heap' = heap \cup {"cond"}
  /\ UNCHANGED <<afu, thrd, mmio, queue_len, undefined>> /\ Keep

(* error_mutex_out and error_free_out.                                     *)
OpenUnwinds ==
  /\ pc \in {"mutex", "cond"} /\ pc' = "free_wed"
  /\ heap' = heap \ {"mutex", "afu"} /\ afu' = NoAfu
  /\ UNCHANGED <<thrd, mmio, queue_len, undefined>> /\ Keep

(* afu_attach: the emulator sets stop before it creates the thread.        *)
AttachProper ==
  /\ cxl = "proper" /\ Goto("attach", "map")
  /\ thrd' = "running"
  /\ UNCHANGED <<afu, heap, mmio, queue_len, undefined>> /\ Keep

AttachEmul ==
  /\ cxl = "emul" /\ Goto("attach", "create")
  /\ afu' = [afu EXCEPT !.stop = 0]
  /\ UNCHANGED <<heap, thrd, mmio, queue_len, undefined>> /\ Keep

CreateThread ==
  /\ Goto("create", "map")
  /\ thrd' = "running"
  /\ UNCHANGED <<afu, heap, mmio, queue_len, undefined>> /\ Keep

(* Either attach fails: afu_init closes the AFU again.                     *)
AttachFails ==
  /\ \/ cxl = "proper" /\ pc = "attach"
     \/ pc = "create"
  /\ pc' = "free_afu"
  /\ UNCHANGED <<regs, mmio, queue_len, undefined>> /\ Keep

(* Only the hardware's registers have to be mapped.                        *)
MapFailGuard == cxl = "proper"

Map ==
  /\ Goto("map", "len")
  /\ UNCHANGED <<regs, mmio, queue_len, undefined>> /\ Keep

MapFails ==
  /\ MapFailGuard /\ Goto("map", "free_afu")
  /\ UNCHANGED <<regs, mmio, queue_len, undefined>> /\ Keep

(* A register write of the program, for either table.                      *)
Write(a, data) == afu' = IF cxl = "emul" THEN R!Write64(afu, a, data) ELSE afu

(* The last step of wqueue_init, the first register write.                 *)
WriteLen ==
  /\ Goto("len", "up")
  /\ Write(mmio + R!QueueLenReg, queue_len - 1)
  /\ UNCHANGED <<heap, thrd, mmio, queue_len, undefined>> /\ Keep

-----------------------------------------------------------------------------
(* wqueue_cleanup, and what afu_init does on a failure.                    *)

MutantStopsNothing == UNCHANGED afu

StopAfu == Write(mmio + R!ForceStopReg, 1)

Cleanup ==
  /\ Idle /\ Goto("up", "free_afu")
  /\ StopAfu
  /\ answer' = NoAnswer
  /\ UNCHANGED <<cxl, hooked, text, heap, thrd, mmio, queue_len, undefined, ver>>

(* libcxl detaches the AFU.                                                *)
FreeProper ==
  /\ cxl = "proper" /\ Goto("free_afu", "free_wed")
  /\ thrd' = "none" /\ heap' = heap \ {"afu"}
  /\ UNCHANGED <<afu, mmio, queue_len, undefined>> /\ Keep

(* emul_afu_free.                                                          *)
MutantNoJoin == cxl = "emul" /\ pc = "free_afu" /\ pc' = "destroy" /\ thrd' = thrd

JoinThread ==
  /\ cxl = "emul" /\ Goto("free_afu", "destroy")
  /\ afu.stop # -1 => thrd = "ended"
  /\ thrd' = "none"

FreeEmul ==
  /\ JoinThread
  /\ UNCHANGED <<afu, heap, mmio, queue_len, undefined>> /\ Keep

(* pthread_join on the handle of a thread that was never created: it may   *)
(* return, or not.                                                         *)
JoinUnset ==
  /\ cxl = "emul" /\ pc = "free_afu" /\ afu.stop # -1 /\ thrd = "none"
  /\ pc' \in {"destroy", "stuck"}
  /\ undefined' = TRUE
  /\ UNCHANGED <<regs, mmio, queue_len>> /\ Keep

Destroy ==
  /\ Goto("destroy", "free_wed")
  /\ heap' = heap \ {"mutex", "cond", "afu"} /\ afu' = NoAfu
  /\ UNCHANGED <<thrd, mmio, queue_len, undefined>> /\ Keep

FreeWed ==
  /\ Goto("free_wed", "down")
  /\ heap' = heap \ {"wed"}
  /\ mmio' = Unset /\ queue_len' = 0
  /\ UNCHANGED <<afu, thrd, undefined>> /\ Keep

-----------------------------------------------------------------------------
(* The AFU thread.                                                         *)

ItemDone ==
  /\ cxl = "emul" /\ thrd = "running" /\ pc \in {"up", "free_afu"} /\ afu.item_count < MaxItems
  /\ afu' = [afu EXCEPT !.item_count = @ + 1]
  /\ UNCHANGED <<pc, heap, thrd, mmio, queue_len, undefined>> /\ Keep

ThreadEnds ==
  /\ cxl = "emul" /\ thrd = "running" /\ afu.stop = 1
  /\ thrd' = "ended"
  /\ UNCHANGED <<pc, afu, heap, mmio, queue_len, undefined>> /\ Keep

-----------------------------------------------------------------------------
(* Register accesses while the queue is up.                                *)

(* What lies outside the emulator's block: the weak proc_mmio_read64, or a *)
(* program's that asks build_version_mmio_read first.                      *)
Outside(a) ==
  IF hooked /\ a \in VersionAt .. VersionAt + V!VersionBlock - 1
  THEN V!ReadPair(text, a - VersionAt)
  ELSE R!Low(0)

(* mmio_read64 within the build version's block.                           *)
VersionPair(off) ==
  IF cxl = "emul" THEN R!Read64(afu, VersionAt + off, Outside(VersionAt + off))
  ELSE V!HardwarePair(text, off)

(* libcxl and the bus take 64-bit accesses at aligned addresses only.      *)
ReadRegister(a) ==
  /\ a % 2 = 0 /\ pc = "up" /\ Idle /\ cxl = "emul"
  /\ answer' = [at |-> a, data |-> R!Read64(afu, a, Outside(a))]
  /\ UNCHANGED <<cxl, hooked, text, pc, regs, mmio, queue_len, undefined, ver>>

ReadHalf(a) ==
  /\ pc = "up" /\ Idle /\ cxl = "emul"
  /\ answer' = [at |-> a, data |-> [h \in {a % 2} |-> R!Read32(afu, a, Outside(a)[0])]]
  /\ UNCHANGED <<cxl, hooked, text, pc, regs, mmio, queue_len, undefined, ver>>

(* wqueue_set_croom, and writes to blocks the emulator does not know.      *)
WriteOther(a) ==
  /\ pc = "up" /\ Idle
  /\ a \in {mmio + R!CroomReg, VersionAt}
  /\ \/ Write(a, 1)
     \/ cxl = "emul" /\ afu' = R!Write32(afu, a, 1)
  /\ UNCHANGED <<pc, heap, thrd, mmio, queue_len, undefined>> /\ Keep

(* build_version_get: the text, pair by pair, and the time stamp ...       *)
GetCall ==
  /\ pc = "up" /\ Idle
  /\ vpc' = "read" /\ i' = 0
  /\ version' = [c \in Chars |-> IF c = V!VersionLen THEN V!Nul ELSE Unwritten]
  /\ answer' = NoAnswer
  /\ UNCHANGED <<cxl, hooked, text, pc, regs, mmio, queue_len, undefined>>

GetRead ==
  /\ vpc = "read" /\ i < V!VersionLen
  /\ version' = [version EXCEPT ![i] = VersionPair(i)[0], ![i + 1] = VersionPair(i)[1]]
  /\ i' = i + 2
  /\ UNCHANGED <<cxl, hooked, text, pc, regs, mmio, queue_len, undefined, answer, vpc>>

GetStamp ==
  /\ vpc = "read" /\ i = V!VersionLen
  /\ vpc' = "trim" /\ i' = V!VersionLen - 1
  /\ answer' = [at |-> VersionAt + V!TimestampReg, data |-> VersionPair(V!TimestampReg)]
  /\ UNCHANGED <<cxl, hooked, text, pc, regs, mmio, queue_len, undefined, version>>

(* Takes the last character for the terminator.                            *)
MutantTrimShort == i - 1

TrimNext == i

(* ... then the trailing blanks, from the end.                             *)
GetTrim ==
  /\ vpc = "trim" /\ i >= 0 /\ version[TrimNext] = V!Blank
  /\ version' = [version EXCEPT ![TrimNext] = V!Nul]
  /\ i' = i - 1
  /\ UNCHANGED <<cxl, hooked, text, pc, regs, mmio, queue_len, undefined, answer, vpc>>

GetReturns ==
  /\ vpc = "trim" /\ ~(i >= 0 /\ version[i] = V!Blank)
  /\ vpc' = "got"
  /\ UNCHANGED <<cxl, hooked, text, pc, regs, mmio, queue_len, undefined, answer, i,
                 version>>

(* The text is printed and dropped.                                        *)
build_version_print ==
  /\ vpc = "got" /\ vpc' = "idle" /\ i' = 0
  /\ version' = [c \in Chars |-> Unwritten]
  /\ answer' = NoAnswer
  /\ UNCHANGED <<cxl, hooked, text, pc, regs, mmio, queue_len, undefined>>

-----------------------------------------------------------------------------
SetUp ==
  \/ \E b \in Bases, n \in Lens : InitCall(b, n)
  \/ OpenProper \/ OpenFails \/ OpenEmul \/ MutexInit \/ CondInit \/ OpenUnwinds
  \/ AttachProper \/ AttachEmul \/ CreateThread \/ AttachFails \/ Map \/ MapFails
  \/ WriteLen

TearDown == FreeProper \/ FreeEmul \/ JoinUnset \/ Destroy \/ FreeWed

Thread == ItemDone \/ ThreadEnds

Registers ==
  \/ \E p \in Probes : ReadRegister(mmio + p) \/ ReadHalf(mmio + p)
  \/ \E a \in {mmio + R!CroomReg, VersionAt} : WriteOther(a)

build_version_get == GetCall \/ GetRead \/ GetStamp \/ GetTrim \/ GetReturns

Next ==
  \/ wqueue_emul_init \/ SetUp \/ Cleanup \/ TearDown \/ Thread
  \/ Registers \/ build_version_get \/ build_version_print

Spec == Init /\ [][Next]_vars

(* The caller does not stop inside the library, and the AFU thread notices *)
(* force_stop (StopIsHeard of WqueueProps).                                *)
Fairness ==
  /\ WF_vars(SetUp /\ pc # "down") /\ WF_vars(TearDown) /\ WF_vars(ThreadEnds)

FairSpec == Spec /\ Fairness
=============================================================================
