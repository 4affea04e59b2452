---------------------------- MODULE MCWqueueRtl ----------------------------
(***************************************************************************)
(* Small instances of WqueueRtl for TLC.                                   *)
(***************************************************************************)
EXTENDS WqueueRtlProps

CONSTANT Lens   \* lengths, in lines, of the requests

Job(len, always, wr_only, odirty) ==
  [len |-> len, always |-> always, wr_only |-> wr_only, odirty |-> odirty]

ReadJobs == {Job(n, FALSE, FALSE, FALSE) : n \in Lens}
WriteJobs == {Job(n, FALSE, TRUE, TRUE) : n \in Lens}
MixedJobs == ReadJobs \cup WriteJobs \cup {Job(n, TRUE, FALSE, FALSE) : n \in Lens}
CopyJobs == {Job(n, FALSE, FALSE, TRUE) : n \in Lens}
LineJobs == CopyJobs \cup {j \in WriteJobs : j.len > 0}
=============================================================================
