------------------------------- MODULE Worker -------------------------------
(***************************************************************************)
(* The thread pool of libcapi, src/src/worker.c.  worker_start allocates an *)
(* array of thread handles and one of CPU times and creates the threads;   *)
(* when it cannot create them all it cancels those it has, without joining *)
(* them, and frees the arrays.  Every thread looks up its own handle to    *)
(* find the slot its CPU time belongs to, while worker_start may still be  *)
(* filling the array behind it.                                            *)
(*                                                                         *)
(* The caller joins, prints and frees a pool it has started, and may then  *)
(* start another in the same struct worker.  What the threads do before    *)
(* they call worker_finish_thread is the application's.  A local variable, *)
(* or an array that was freed, is put back to its initial value when it    *)
(* goes.                                                                   *)
(***************************************************************************)
EXTENDS Integers

CONSTANTS
  MaxThreads,  \* bound on num_threads
  Handles,     \* the values of pthread_t
  None         \* no handle, no CPU time

ASSUME PoolAssumption == MaxThreads \in Nat /\ None \notin Handles

VARIABLES
  caller,       \* where the caller is: "out", "start", "create", "cancel",
                \* "up", "join", "joined" or "printed"
  num_threads,  \* w->num_threads
  next,         \* threads in worker_start, i in worker_join
  heap,         \* which of the two arrays are allocated
  threads,      \* w->threads[]
  rusage,       \* w->rusage[]: whose CPU time each slot holds
  run,          \* where each thread is
  at,           \* i in worker_finish_thread
  cancelled,    \* threads pthread_cancel was called for
  stray,        \* threads that reached for memory that is not the pool's
  shown         \* whose times worker_print_cputime printed, by line

pool == <<num_threads, heap, threads>>
vars == <<caller, next, pool, rusage, run, at, cancelled, stray, shown>>

Slots == 0 .. MaxThreads - 1
Used  == 0 .. num_threads - 1
Blank == [i \in Slots |-> None]

Init ==
  /\ caller = "out" /\ num_threads = 0 /\ next = 0
  /\ heap = {} /\ cancelled = {} /\ stray = {}
  /\ threads = Blank
  /\ rusage = Blank
  /\ run = [h \in Handles |-> "none"]
  /\ at = [h \in Handles |-> 0]
  /\ shown = Blank

-----------------------------------------------------------------------------
FreeThreads == heap' = heap \ {"threads"} /\ threads' = Blank
FreeArrays  == heap' = {} /\ threads' = Blank /\ rusage' = Blank

Ends(h) == run' = [run EXCEPT ![h] = "ended"] /\ at' = [at EXCEPT ![h] = 0]

(* worker_start.                                                           *)

(* The first malloc: the array may hold anything, old handles included.    *)
StartCall(n, junk) ==
  /\ caller = "out"
  /\ \A i \in Slots : i >= n => junk[i] = None
  /\ caller' = "start"
  /\ num_threads' = n
  /\ heap' = {"threads"}
  /\ threads' = junk
  /\ UNCHANGED <<next, rusage, run, at, cancelled, stray, shown>>

(* The first malloc fails: nothing but num_threads has changed.            *)
StartFails(n) ==
  /\ caller = "out"
  /\ num_threads' = n
  /\ UNCHANGED <<caller, next, heap, threads, rusage, run, at, cancelled,
                 stray, shown>>

(* The second malloc, of the CPU times.                                    *)
AllocRusage ==
  /\ caller = "start"
  /\ caller' = "create"
  /\ heap' = heap \cup {"rusage"}
  /\ rusage' = Blank
  /\ UNCHANGED <<num_threads, threads, next, run, at, cancelled, stray, shown>>

RusageFails ==
  /\ caller = "start"
  /\ caller' = "out"
  /\ FreeThreads
  /\ UNCHANGED <<num_threads, next, rusage, run, at, cancelled, stray, shown>>

(* Fills the array from its end.                                           *)
MutantFillBackwards(h) ==
  /\ caller = "create" /\ next < num_threads
  /\ run[h] = "none"
  /\ threads' = [threads EXCEPT ![num_threads - 1 - next] = h]
  /\ run' = [run EXCEPT ![h] = "body"]
  /\ next' = next + 1
  /\ UNCHANGED <<caller, num_threads, heap, rusage, at, cancelled, stray, shown>>

(* pthread_create: the handle of a joinable thread is not given out again  *)
(* before the join, and is stored before the thread runs (glibc).          *)
CreateThread(h) ==
  /\ caller = "create" /\ next < num_threads
  /\ run[h] = "none"
  /\ threads' = [threads EXCEPT ![next] = h]
  /\ run' = [run EXCEPT ![h] = "body"]
  /\ next' = next + 1
  /\ UNCHANGED <<caller, num_threads, heap, rusage, at, cancelled, stray, shown>>

CreateFails ==
  /\ caller = "create" /\ next < num_threads
  /\ caller' = "cancel"
  /\ next' = next - 1
  /\ UNCHANGED <<pool, rusage, run, at, cancelled, stray, shown>>

(* Cancels the last thread over and over.                                  *)
MutantCancelsOne ==
  /\ caller = "cancel" /\ next >= 0
  /\ cancelled' = cancelled \cup {threads[next]}
  /\ UNCHANGED <<caller, next, pool, rusage, run, at, stray, shown>>

(* cancel_threads: from the last thread created down to the first.         *)
CancelThread ==
  /\ caller = "cancel" /\ next >= 0
  /\ cancelled' = cancelled \cup {threads[next]}
  /\ next' = next - 1
  /\ UNCHANGED <<caller, pool, rusage, run, at, stray, shown>>

(* Stops before the first thread, which is then never cancelled.           *)
MutantSkipsFirst ==
  /\ caller = "cancel" /\ next <= 0
  /\ caller' = "out"
  /\ next' = 0
  /\ FreeArrays
  /\ UNCHANGED <<num_threads, run, at, cancelled, stray, shown>>

FreeCancelled ==
  /\ caller = "cancel" /\ next < 0
  /\ caller' = "out"
  /\ next' = 0
  /\ FreeArrays
  /\ UNCHANGED <<num_threads, run, at, cancelled, stray, shown>>

StartReturns ==
  /\ caller = "create" /\ next = num_threads
  /\ caller' = "up"
  /\ next' = 0
  /\ UNCHANGED <<pool, rusage, run, at, cancelled, stray, shown>>

-----------------------------------------------------------------------------
(* The threads.                                                            *)

(* A cancelled thread ends at the next cancellation point of its body.     *)
DieCancelled(h) ==
  /\ run[h] = "body" /\ h \in cancelled
  /\ run' = [run EXCEPT ![h] = "ended"]
  /\ UNCHANGED <<caller, next, pool, rusage, at, cancelled, stray, shown>>

(* worker_finish_thread: a loop over w->threads.                           *)
FinishCall(h) ==
  /\ run[h] = "body"
  /\ run' = [run EXCEPT ![h] = "find"]
  /\ UNCHANGED <<caller, next, pool, rusage, at, cancelled, stray, shown>>

FindNext(h) ==
  /\ run[h] = "find" /\ at[h] < num_threads /\ "threads" \in heap
  /\ threads[at[h]] # h
  /\ at' = [at EXCEPT ![h] = at[h] + 1]
  /\ UNCHANGED <<caller, next, pool, rusage, run, cancelled, stray, shown>>

Found(h) ==
  /\ run[h] = "find" /\ at[h] < num_threads /\ "threads" \in heap
  /\ threads[at[h]] = h
  /\ run' = [run EXCEPT ![h] = "record"]
  /\ UNCHANGED <<caller, next, pool, rusage, at, cancelled, stray, shown>>

(* The array is gone: the thread reads memory that was freed.              *)
FindFreed(h) ==
  /\ run[h] = "find" /\ at[h] < num_threads /\ "threads" \notin heap
  /\ stray' = stray \cup {h}
  /\ Ends(h)
  /\ UNCHANGED <<caller, next, pool, rusage, cancelled, shown>>

(* The loop ends without a match: i is then one past the last slot.        *)
NotFound(h) ==
  /\ run[h] = "find" /\ at[h] >= num_threads
  /\ run' = [run EXCEPT ![h] = "record"]
  /\ UNCHANGED <<caller, next, pool, rusage, at, cancelled, stray, shown>>

(* getrusage into w->rusage[i].                                            *)
Record(h) ==
  /\ run[h] = "record"
  /\ IF "rusage" \in heap /\ at[h] \in Used
     THEN rusage' = [rusage EXCEPT ![at[h]] = h] /\ UNCHANGED stray
     ELSE stray' = stray \cup {h} /\ UNCHANGED rusage
  /\ Ends(h)
  /\ UNCHANGED <<caller, next, pool, cancelled, shown>>

-----------------------------------------------------------------------------
(* worker_join, worker_print_cputime, worker_free.                         *)

JoinCall ==
  /\ caller = "up"
  /\ caller' = "join"
  /\ UNCHANGED <<next, pool, rusage, run, at, cancelled, stray, shown>>

JoinThread ==
  /\ caller = "join" /\ next < num_threads
  /\ run[threads[next]] = "ended"
  /\ run' = [run EXCEPT ![threads[next]] = "none"]
  /\ next' = next + 1
  /\ UNCHANGED <<caller, pool, rusage, at, cancelled, stray, shown>>

(* Leaves the last thread out.                                             *)
MutantJoinsShort ==
  /\ caller = "join" /\ next + 1 >= num_threads
  /\ caller' = "joined"
  /\ next' = 0
  /\ UNCHANGED <<pool, rusage, run, at, cancelled, stray, shown>>

JoinReturns ==
  /\ caller = "join" /\ next = num_threads
  /\ caller' = "joined"
  /\ next' = 0
  /\ UNCHANGED <<pool, rusage, run, at, cancelled, stray, shown>>

worker_print_cputime ==
  /\ caller = "joined"
  /\ caller' = "printed"
  /\ shown' = [i \in Slots |-> IF i \in Used THEN rusage[i] ELSE None]
  /\ UNCHANGED <<next, pool, rusage, run, at, cancelled, stray>>

worker_free ==
  /\ caller \in {"joined", "printed"}
  /\ caller' = "out"
  /\ FreeArrays
  /\ shown' = Blank
  /\ UNCHANGED <<num_threads, next, run, at, cancelled, stray>>

-----------------------------------------------------------------------------
worker_start ==
  \/ \E n \in 0 .. MaxThreads, junk \in [Slots -> Handles \cup {None}] :
       StartCall(n, junk)
  \/ \E n \in 0 .. MaxThreads : StartFails(n)
  \/ AllocRusage \/ RusageFails
  \/ \E h \in Handles : CreateThread(h)
  \/ CreateFails \/ CancelThread \/ FreeCancelled \/ StartReturns

worker_join == JoinCall \/ JoinThread \/ JoinReturns

worker_finish_thread(h) ==
  FindNext(h) \/ Found(h) \/ FindFreed(h) \/ NotFound(h) \/ Record(h)

Next == \/ worker_start \/ worker_join \/ worker_print_cputime \/ worker_free
        \/ \E h \in Handles : \/ FinishCall(h)
                              \/ DieCancelled(h)
                              \/ worker_finish_thread(h)

Spec == Init /\ [][Next]_vars

(* The caller does not stop inside the library, and start routines end.    *)
Fairness == /\ WF_vars(CancelThread) /\ WF_vars(FreeCancelled)
            /\ WF_vars(JoinThread) /\ WF_vars(JoinReturns)
            /\ \A h \in Handles : WF_vars(FinishCall(h) \/ worker_finish_thread(h))

FairSpec == Spec /\ Fairness
=============================================================================
