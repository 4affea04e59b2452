---------------------------- MODULE BuildVersion ----------------------------
(***************************************************************************)
(* The build version, as text in a register block: what the software AFU   *)
(* (src/src/build_version.c) and the hardware (src/rtl/build_version.vhd)  *)
(* keep there, how a read of the block answers, and the text's trailing    *)
(* blanks.  Addresses count 32-bit words and a word holds one character    *)
(* here, not four; a 64-bit register is a pair of words, the one at the    *)
(* even address first.                                                     *)
(***************************************************************************)
LOCAL INSTANCE Integers
LOCAL INSTANCE Sequences

CONSTANTS Stamp,    \* build_timestamp, a pair of words
          Unwritten \* what the caller's buffer holds when nothing is written

Nul   == 0
Blank == 32

(* struct build_version_mmio: version, timestamp, reserved.                *)
VersionLen   == 6
TimestampReg == 6
VersionBlock == 64

Pairs == 0 .. VersionLen \div 2 - 1

(* strncpy, and resize on the hardware's side: cut to the field or filled  *)
(* up with NULs.                                                           *)
Padded(text) ==
  [i \in 0 .. VersionLen - 1 |-> IF i < Len(text) THEN text[i + 1] ELSE Nul]

(* build_version_mmio_read of 64 bits at word off of the block: a copy out *)
(* of the text from there, or the time stamp from its beginning.           *)
ReadPair(text, off) ==
  IF off < TimestampReg
  THEN [i \in 0 .. 1 |-> IF off + i < VersionLen THEN Padded(text)[off + i] ELSE Unwritten]
  ELSE IF off < TimestampReg + 2 THEN Stamp
  ELSE [i \in 0 .. 1 |-> Unwritten]

(* The registers of build_version.vhd.                                     *)
HardwarePair(text, off) ==
  IF off < TimestampReg THEN [i \in 0 .. 1 |-> Padded(text)[off + i]]
  ELSE IF off = TimestampReg THEN Stamp
  ELSE [i \in 0 .. 1 |-> Nul]
=============================================================================
