----------------------------- MODULE WorkerProps -----------------------------
(***************************************************************************)
(* What the thread pool of Worker has to guarantee.                        *)
(***************************************************************************)
EXTENDS Worker

Phases == {"out", "start", "create", "cancel", "up", "join", "joined", "printed"}
RunPhases == {"none", "body", "find", "record", "ended"}

(* The state stays within its types; num_threads, the loop counters and    *)
(* the indices threads search with stay within the arrays' bounds.         *)
TypeOK ==
  /\ caller \in Phases
  /\ num_threads \in 0 .. MaxThreads
  /\ next \in -1 .. MaxThreads
  /\ heap \subseteq {"threads", "rusage"}
  /\ threads \in [Slots -> Handles \cup {None}]
  /\ rusage \in [Slots -> Handles \cup {None}]
  /\ run \in [Handles -> RunPhases]
  /\ at \in [Handles -> 0 .. MaxThreads]
  /\ cancelled \subseteq Handles /\ stray \subseteq Handles
  /\ shown \in [Slots -> Handles \cup {None}]

(* The CPU times printed, line by line, are those of the threads of the    *)
(* pool in the order they were created, whatever the arrays held when they *)
(* were allocated and however early a thread finished, unless a start has  *)
(* failed before (worker_finish_thread, worker_print_cputime).             *)
TimesAreOwn ==
  caller = "printed" /\ cancelled = {} =>
    \A i \in Used : shown[i] = threads[i] /\ shown[i] # None

(* Only a thread cancelled by a start that failed ever reads or writes     *)
(* outside the arrays of the pool: worker_start frees them without joining *)
(* the threads it cancels, everybody else has let go of them by then.      *)
OnlyCancelledStray == stray \subseteq cancelled

(* When no pool is up, no array is left allocated, and no thread is left   *)
(* but the cancelled ones.                                                 *)
NothingLeftBehind ==
  caller = "out" => /\ heap = {}
                    /\ \A h \in Handles \ cancelled : run[h] = "none"

(* worker_join returns once the start routines have ended, and a start     *)
(* that fails returns.                                                     *)
CallsReturn == /\ caller = "join" ~> caller = "joined"
               /\ caller = "cancel" ~> caller = "out"
=============================================================================
