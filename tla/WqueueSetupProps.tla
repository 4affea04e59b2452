-------------------------- MODULE WqueueSetupProps --------------------------
(***************************************************************************)
(* What setting up and tearing down the work queue has to guarantee.       *)
(***************************************************************************)
EXTENDS WqueueSetup, FiniteSets

Places == {"down", "open", "mutex", "cond", "attach", "create", "map", "len", "up",
           "free_afu", "destroy", "free_wed", "stuck"}

(* The state stays within its types; the AFU's idea of its register block  *)
(* is a place where the program may have put it.                           *)
TypeOK ==
  /\ cxl \in {"proper", "emul"} /\ hooked \in BOOLEAN /\ text \in Versions
  /\ pc \in Places
  /\ heap \subseteq {"wed", "afu", "mutex", "cond"}
  /\ thrd \in {"none", "running", "ended"}
  /\ afu.mmio \in Bases \cup {Unset, Unwritten}
  /\ afu.stop \in {-1, 0, 1, Unwritten}
  /\ mmio \in Bases \cup {Unset} /\ queue_len \in Lens \cup {0}
  /\ undefined \in BOOLEAN
  /\ vpc \in {"idle", "read", "trim", "got"} /\ i \in -1 .. V!VersionLen

(* Every return leaves either a whole work queue or nothing: whichever     *)
(* step of wqueue_init failed, everything before it has been undone.  And  *)
(* as long as the AFU runs, what it uses is allocated: the ring, its       *)
(* struct, and the mutex and condition the emulator's thread waits with.   *)
(* On every path, also those of a failure, join or detach comes first.     *)
AllOrNothing ==
  /\ pc = "down" => heap = {} /\ thrd = "none"
  /\ pc = "up" => thrd = "running"
  /\ thrd = "running" => /\ {"wed", "afu"} \subseteq heap
                         /\ cxl = "emul" => {"mutex", "cond"} \subseteq heap

(* The emulator answers for the registers of this session's block: their   *)
(* place was learnt from wqueue_init's write, whatever the program did     *)
(* before or has next to it, and a 32-bit read is half of a 64-bit one.    *)
RegistersFound ==
  LET reg == answer.at - mmio
      is(n) == \A h \in DOMAIN answer.data : answer.data[h] = R!Low(n)[h]
  IN  pc = "up" /\ cxl = "emul" /\ answer.at # Unset =>
        /\ reg \in {R!QueueLenReg, R!QueueLenReg + 1} => is(queue_len)
        /\ reg \in {R!CountsReg, R!CountsReg + 1} => is(0)

(* The text as a C string.                                                 *)
CString(s) ==
  LET nuls == {c \in Chars : s[c] = V!Nul}
      len == CHOOSE c \in nuls : \A d \in nuls : c <= d
  IN  [c \in 1 .. len |-> s[c - 1]]

(* What the version was set to, cut to the field, without trailing blanks  *)
(* if it fills the field (the padding quartus requires).                   *)
Trimmed(s) ==
  LET cut == SubSeq(s, 1, V!VersionLen)
      last == {c \in DOMAIN cut : cut[c] # V!Blank}
      len == CHOOSE c \in last \cup {0} : \A d \in last : d <= c
  IN  IF Len(s) < V!VersionLen THEN s ELSE SubSeq(cut, 1, len)

(* build_version_get returns the version the AFU was built with, whether   *)
(* hardware or emulator answers, and an empty one where the program does   *)
(* not answer for the block; no character of it is left unwritten.         *)
VersionIsTrimmed ==
  vpc = "got" =>
    CString(version) = IF cxl = "proper" \/ hooked THEN Trimmed(text) ELSE <<>>

(* wqueue_init and wqueue_cleanup return, with success or failure, unless  *)
(* the emulator joined a thread it could not create.                       *)
SetupReturns == pc \notin {"down", "up"} ~> pc \in {"down", "up"} \/ undefined
=============================================================================
