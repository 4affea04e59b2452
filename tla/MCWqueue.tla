------------------------------ MODULE MCWqueue ------------------------------
(***************************************************************************)
(* Small instances of Wqueue for TLC.  CacheLine is 2, so that src_len 3   *)
(* is not a whole number of lines.                                         *)
(***************************************************************************)
EXTENDS WqueueProps, TLC

CONSTANTS A, B, Tag1, Tag2   \* buffers and opaque pointers

Item(src, dst, len, flags, tag) ==
  [src |-> src, dst |-> dst, src_len |-> len, flags |-> flags, opaque |-> tag]

InPlace  == Item(A, A, 3, {}, Tag1)
Copy     == Item(A, B, 4, {"LAST_ITEM"}, Tag2)
NoSource == Item(NULL, B, 2, {}, Tag1)
Recycled == Item(A, A, 4, {"DONE", "DIRTY"}, Tag2)

OneItem   == {InPlace}
TwoItems  == {InPlace, Copy}
DirtyItems == {InPlace, Recycled}

PipeItems == {NoSource, Recycled}
NoLines  == {}
LastTag  == {Tag2}

DefaultProc == {}
OddProc == {[err |-> -1, dirty |-> FALSE, dst_len |-> 3]}

Pointers == {A, B, Tag1, Tag2, NULL}

Junk == {0, 5}

(* Threads of one role are interchangeable (used with invariants only).    *)
ThreadSymmetry == Permutations(Pushers) \cup Permutations(Poppers)
=============================================================================
