--------------------------- MODULE MCWqueueSetup ---------------------------
(***************************************************************************)
(* A small instance of WqueueSetup for TLC: the program's blocks touch     *)
(* each other, the work queue's before or behind the version's.            *)
(***************************************************************************)
EXTENDS WqueueSetupProps, SequencesExt

VersionBase == 64
Beside == {0, 128}

Letters == {32, 97}
Texts == BoundedSeq(Letters, 3) \cup [1 .. 6 -> Letters]
           \cup {<<97, 97, 97, 97, 97, 32, 97>>, <<32, 32, 32, 32, 32, 32, 97>>}

(* Every register, and the words before and behind the block.              *)
ProbedWords == {0, 1, 6, 7, 8, 9, 12, 63, 64}
=============================================================================
