------------------------------ MODULE EmulMmio ------------------------------
(***************************************************************************)
(* The registers of the software AFU: emul_mmio_* of src/src/wqueue_emul.c *)
(* on the fields r of struct cxl_afu_h they use.  Addresses count 32-bit   *)
(* words; a 64-bit register is a pair of words, the low one first.  The    *)
(* emulator does not know where the program put struct wqueue_mmio: it     *)
(* takes the first 64-bit write for one to queue_len.                      *)
(***************************************************************************)
LOCAL INSTANCE Integers

CONSTANTS Unset,     \* (void *)-1
          Unwritten  \* what the caller's buffer holds when nothing is written

(* struct wqueue_mmio.                                                     *)
QueueLenReg  == 0
TriggerReg   == 2
ForceStopReg == 4
DebugReg     == 6
CountsReg    == 8    \* read_count and write_count
CroomReg     == 10
TimerReg     == 12
BlockWords   == 64

Low(n) == [i \in 0 .. 1 |-> IF i = 0 THEN n ELSE 0]

(* Unset is above every address.                                           *)
Inside(r, a) == r.mmio # Unset /\ a \in r.mmio .. r.mmio + BlockWords - 1

(* Takes every 64-bit write for one to queue_len.                          *)
MutantFoundAgain(r, a) == [r EXCEPT !.mmio = a - QueueLenReg]

Found(r, a) == IF r.mmio = Unset THEN [r EXCEPT !.mmio = a - QueueLenReg] ELSE r

(* A 64-bit write; what lies outside the block goes to proc_mmio_write64.  *)
(* A trigger wakes the AFU thread and leaves the registers as they are.    *)
Write64(r, a, data) ==
  LET f == Found(r, a)
  IN  CASE Inside(f, a) /\ a = f.mmio + QueueLenReg  -> [f EXCEPT !.queue_len = data + 1]
        [] Inside(f, a) /\ a = f.mmio + ForceStopReg -> [f EXCEPT !.stop = 1]
        [] OTHER -> f

Write32(r, a, data) == IF Inside(r, a) THEN Write64(r, a, data) ELSE r

(* A 64-bit read; outside is what proc_mmio_read64 answers.                *)
Read64(r, a, outside) ==
  IF ~Inside(r, a) THEN outside
  ELSE CASE a = r.mmio + QueueLenReg -> Low(r.queue_len)
         [] a = r.mmio + DebugReg    -> Low(r.item_count)
         [] a = r.mmio + CountsReg   -> Low(0)
         [] OTHER                    -> [i \in 0 .. 1 |-> Unwritten]

(* A 32-bit read of the block takes its half of the 64-bit register.       *)
Read32(r, a, outside) ==
  IF Inside(r, a) THEN Read64(r, a - (a % 2), [h \in 0 .. 1 |-> outside])[a % 2]
  ELSE outside
=============================================================================
