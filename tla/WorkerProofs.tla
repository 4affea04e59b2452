---------------------------- MODULE WorkerProofs ----------------------------
(***************************************************************************)
(* The properties of WorkerProps for every number of threads and handles.  *)
(*                                                                         *)
(* The invariant ties each thread that was not cancelled to the slot its   *)
(* handle is in: no other slot that was filled holds the handle, the       *)
(* thread's search has not passed the slot, and when it has ended the slot *)
(* has its CPU time.  The slots that were not filled yet may hold anything.*)
(***************************************************************************)
EXTENDS WorkerProps, TLAPS

(* Slots worker_start has filled; in "cancel", those still to be cancelled.*)
Stored ==
  {i \in Slots : \/ caller = "create" /\ i < next
                 \/ caller = "cancel" /\ i <= next
                 \/ caller \in {"up", "join", "joined", "printed"} /\ i < num_threads}

(* Those of them whose threads have not been joined.                       *)
Alive == {i \in Stored : \/ caller \in {"create", "cancel", "up"}
                         \/ caller = "join" /\ next <= i}

Counting ==
  /\ caller = "create" => next \in 0 .. num_threads
  /\ caller = "cancel" => next \in -1 .. num_threads - 1
  /\ caller = "join" => next \in 0 .. num_threads
  /\ caller \notin {"create", "cancel", "join"} => next = 0

HeapHeld ==
  /\ caller = "out" => heap = {}
  /\ caller = "start" => heap = {"threads"}
  /\ caller \notin {"out", "start"} => heap = {"threads", "rusage"}

Owned ==
  /\ \A i \in Stored : threads[i] \in Handles
  /\ \A i, j \in Stored : threads[i] = threads[j] => i = j
  /\ \A i \in Alive : threads[i] \notin cancelled /\ run[threads[i]] # "none"
  /\ \A h \in Handles \ cancelled : run[h] # "none" => \E i \in Alive : threads[i] = h
  /\ \A h \in cancelled : run[h] # "none"

Searching ==
  /\ \A h \in Handles : run[h] \in {"none", "body", "ended"} => at[h] = 0
  /\ \A i \in Alive : /\ run[threads[i]] = "find" => at[threads[i]] <= i
                      /\ run[threads[i]] = "record" => at[threads[i]] = i

Recorded ==
  cancelled = {} =>
    \A i \in Stored : i \notin Alive \/ run[threads[i]] = "ended" => rusage[i] = threads[i]

Bounds == TypeOK /\ Counting /\ HeapHeld

IInv == Bounds /\ Owned /\ Searching /\ Recorded /\ OnlyCancelledStray /\ TimesAreOwn

-----------------------------------------------------------------------------
(* Types, counters and what is allocated.                                  *)
LEMMA BlankIsArray == Blank \in [Slots -> Handles \cup {None}]
  BY DEF Blank

LEMMA StartBounds ==
  ASSUME Bounds, Owned, worker_start
  PROVE  Bounds'
<1> USE PoolAssumption, BlankIsArray DEF Bounds, TypeOK, Counting, HeapHeld, Phases, pool
<1>1. ASSUME NEW n \in 0 .. MaxThreads, NEW junk \in [Slots -> Handles \cup {None}],
             StartCall(n, junk)
      PROVE  Bounds'
  BY <1>1 DEF StartCall
<1>2. ASSUME NEW n \in 0 .. MaxThreads, StartFails(n)
      PROVE  Bounds'
  BY <1>2 DEF StartFails
<1>3. CASE AllocRusage
  BY <1>3 DEF AllocRusage
<1>4. CASE RusageFails
  BY <1>4 DEF RusageFails, FreeThreads
<1>5. ASSUME NEW h \in Handles, CreateThread(h)
      PROVE  Bounds'
  <2>1. threads' \in [Slots -> Handles \cup {None}]
    BY <1>5 DEF CreateThread
  <2>2. run' \in [Handles -> RunPhases]
    BY <1>5 DEF CreateThread, RunPhases
  <2>3. QED
    BY <1>5, <2>1, <2>2 DEF CreateThread
<1>6. CASE CreateFails
  BY <1>6 DEF CreateFails
<1>7. CASE CancelThread
  <2>1. next \in Stored
    BY <1>7 DEF CancelThread, Stored, Slots
  <2>2. threads[next] \in Handles
    BY <2>1 DEF Owned
  <2>3. QED
    BY <1>7, <2>2 DEF CancelThread
<1>8. CASE FreeCancelled
  BY <1>8 DEF FreeCancelled, FreeArrays
<1>9. CASE StartReturns
  BY <1>9 DEF StartReturns
<1>10. QED
  BY <1>1, <1>2, <1>3, <1>4, <1>5, <1>6, <1>7, <1>8, <1>9 DEF worker_start

LEMMA JoinBounds ==
  ASSUME Bounds, worker_join \/ worker_print_cputime \/ worker_free
  PROVE  Bounds'
<1> USE PoolAssumption, BlankIsArray DEF Bounds, TypeOK, Counting, HeapHeld, Phases, pool
<1>1. CASE JoinCall
  BY <1>1 DEF JoinCall
<1>2. CASE JoinThread
  <2>1. run' \in [Handles -> RunPhases]
    BY <1>2 DEF JoinThread, RunPhases
  <2>2. QED
    BY <1>2, <2>1 DEF JoinThread
<1>3. CASE JoinReturns
  BY <1>3 DEF JoinReturns
<1>4. CASE worker_print_cputime
  <2>1. shown' \in [Slots -> Handles \cup {None}]
    BY <1>4 DEF worker_print_cputime
  <2>2. QED
    BY <1>4, <2>1 DEF worker_print_cputime
<1>5. CASE worker_free
  BY <1>5 DEF worker_free, FreeArrays
<1>6. QED
  BY <1>1, <1>2, <1>3, <1>4, <1>5 DEF worker_join

LEMMA ThreadBounds ==
  ASSUME Bounds, NEW h \in Handles,
         FinishCall(h) \/ DieCancelled(h) \/ worker_finish_thread(h)
  PROVE  Bounds'
<1> USE PoolAssumption DEF Bounds, TypeOK, Counting, HeapHeld, pool
<1>1. CASE FinishCall(h) \/ DieCancelled(h)
  BY <1>1 DEF FinishCall, DieCancelled, RunPhases
<1>2. CASE FindNext(h)
  <2>1. at' \in [Handles -> 0 .. MaxThreads]
    BY <1>2 DEF FindNext
  <2>2. QED
    BY <1>2, <2>1 DEF FindNext
<1>3. CASE Found(h) \/ NotFound(h)
  BY <1>3 DEF Found, NotFound, RunPhases
<1>4. ASSUME Ends(h)
      PROVE  run' \in [Handles -> RunPhases] /\ at' \in [Handles -> 0 .. MaxThreads]
  BY <1>4 DEF Ends, RunPhases
<1>5. CASE FindFreed(h)
  BY <1>4, <1>5 DEF FindFreed
<1>6. CASE Record(h)
  <2>1. rusage' \in [Slots -> Handles \cup {None}] /\ stray' \subseteq Handles
    BY <1>6 DEF Record
  <2>2. QED
    BY <1>4, <1>6, <2>1 DEF Record
<1>7. QED
  BY <1>1, <1>2, <1>3, <1>5, <1>6 DEF worker_finish_thread

-----------------------------------------------------------------------------
(* The steps of a thread.                                                  *)

(* A thread that was not cancelled has a slot, and the slot is its own.    *)
LEMMA OwnSlot ==
  ASSUME Bounds, Owned, NEW h \in Handles \ cancelled, run[h] # "none"
  PROVE  /\ \E i \in Alive : threads[i] = h
         /\ heap = {"threads", "rusage"}
         /\ \A i \in Alive : i \in Used /\ i \in 0 .. MaxThreads - 1
<1>1. PICK i \in Alive : threads[i] = h
  BY DEF Owned
<1>2. caller \in {"create", "cancel", "up", "join"}
  BY <1>1 DEF Alive, Stored
<1>3. \A j \in Alive : j \in Used /\ j \in 0 .. MaxThreads - 1
  BY <1>2, PoolAssumption DEF Alive, Stored, Slots, Used, Bounds, TypeOK, Counting
<1>4. QED
  BY <1>1, <1>2, <1>3 DEF Bounds, HeapHeld

(* Threads do not touch what the slots and their owners depend on.         *)
LEMMA SlotsStay ==
  ASSUME UNCHANGED <<caller, next, num_threads>>
  PROVE  Stored' = Stored /\ Alive' = Alive
  BY DEF Stored, Alive

LEMMA ThreadOwned ==
  ASSUME Bounds, Owned, UNCHANGED <<caller, next, num_threads, threads, cancelled>>,
         NEW h \in Handles, run[h] # "none", NEW p, p # "none",
         run' = [run EXCEPT ![h] = p]
  PROVE  Owned'
<1>1. Stored' = Stored /\ Alive' = Alive
  BY SlotsStay
<1>2. \A g \in Handles : run'[g] # "none" <=> run[g] # "none"
  BY DEF Bounds, TypeOK
<1>3. \A i \in Alive : threads[i] \in Handles
  BY DEF Alive, Owned
<1>4. cancelled \subseteq Handles
  BY DEF Bounds, TypeOK
<1>5. QED
  BY <1>1, <1>2, <1>3, <1>4 DEF Owned

LEMMA ThreadKeeps ==
  ASSUME IInv, NEW h \in Handles,
         FinishCall(h) \/ DieCancelled(h) \/ worker_finish_thread(h)
  PROVE  IInv'
<1> USE DEF pool
<1>0. /\ Bounds /\ Owned /\ Searching /\ Recorded /\ OnlyCancelledStray /\ TimesAreOwn
      /\ Bounds'
  BY ThreadBounds DEF IInv
<1>1. /\ UNCHANGED <<caller, next, num_threads, heap, threads, cancelled, shown>>
      /\ run[h] # "none"
  BY DEF FinishCall, DieCancelled, worker_finish_thread, FindNext, Found, FindFreed,
         NotFound, Record
<1>2. Stored' = Stored /\ Alive' = Alive
  BY <1>1, SlotsStay
<1>3. TimesAreOwn'
  BY <1>0, <1>1 DEF TimesAreOwn, Used
<1>4. /\ \A i \in Alive : i \in Stored /\ threads[i] \in Handles
      /\ \A i, j \in Alive : threads[i] = threads[j] => i = j
  BY <1>0 DEF Alive, Owned
<1>5. run \in [Handles -> RunPhases] /\ at \in [Handles -> 0 .. MaxThreads]
  BY <1>0 DEF Bounds, TypeOK
<1>6. CASE h \in cancelled
  <2>1. \A i \in Alive : threads[i] # h
    BY <1>0, <1>6 DEF Owned
  <2>2. /\ \A g \in Handles \ {h} : run'[g] = run[g] /\ at'[g] = at[g]
        /\ run'[h] \in {"body", "ended"} => at'[h] = 0
        /\ run'[h] # "none"
    BY <1>0, <1>5 DEF FinishCall, DieCancelled, worker_finish_thread, FindNext, Found,
         FindFreed, NotFound, Record, Ends, Searching
  <2>3. Owned'
    BY <1>0, <1>1, <1>2, <1>4, <1>6, <2>1, <2>2 DEF Owned, Bounds, TypeOK
  <2>4. Searching'
    BY <1>0, <1>1, <1>2, <1>4, <2>1, <2>2 DEF Searching
  <2>5. Recorded' /\ OnlyCancelledStray'
    BY <1>0, <1>1, <1>6
    DEF Recorded, OnlyCancelledStray, FinishCall, DieCancelled, worker_finish_thread,
        FindNext, Found, FindFreed, NotFound, Record
  <2>6. QED
    BY <1>0, <1>3, <2>3, <2>4, <2>5 DEF IInv
<1>7. CASE h \notin cancelled
  <2>1. PICK k \in Alive : threads[k] = h
    BY <1>0, <1>1, <1>7, OwnSlot
  <2>2. /\ heap = {"threads", "rusage"}
        /\ k \in Used /\ k \in Slots /\ k \in Nat
    BY <1>0, <1>1, <1>7, <2>1, OwnSlot DEF Slots
  <2>3. \A i \in Alive : threads[i] = h => i = k
    BY <1>4, <2>1
  <2>4. /\ run[h] = "find" => at[h] <= k
        /\ run[h] = "record" => at[h] = k
        /\ run[h] = "body" => at[h] = 0
    BY <1>0, <2>1 DEF Searching
  <2>5. CASE FinishCall(h)
    <3>1. Owned'
      BY <1>0, <1>1, <2>5, ThreadOwned DEF FinishCall
    <3>2. Searching'
      <4>1. /\ run'[h] = "find" /\ at' = at /\ at[h] <= k
            /\ \A g \in Handles \ {h} : run'[g] = run[g]
        BY <1>5, <2>2, <2>4, <2>5 DEF FinishCall
      <4>2. QED
        BY <1>0, <1>1, <1>2, <1>4, <2>1, <2>3, <4>1 DEF Searching
    <3>3. Recorded' /\ OnlyCancelledStray'
      BY <1>0, <1>1, <1>2, <1>4, <1>5, <2>5
      DEF FinishCall, Recorded, OnlyCancelledStray
    <3>4. QED
      BY <1>0, <1>3, <3>1, <3>2, <3>3 DEF IInv
  <2>6. CASE FindNext(h)
    <3>1. at[h] # k /\ at[h] \in Nat /\ run[h] = "find"
      BY <1>5, <2>1, <2>6 DEF FindNext
    <3>2. Owned'
      BY <1>0, <1>1, <1>2, <2>6 DEF FindNext, Owned
    <3>3. Searching'
      <4>1. /\ run' = run /\ at'[h] <= k
            /\ \A g \in Handles \ {h} : at'[g] = at[g]
        BY <1>5, <2>2, <2>4, <2>6, <3>1 DEF FindNext
      <4>2. QED
        BY <1>0, <1>1, <1>2, <1>4, <2>1, <2>3, <3>1, <4>1 DEF Searching
    <3>4. Recorded' /\ OnlyCancelledStray'
      BY <1>0, <1>1, <1>2, <2>6 DEF FindNext, Recorded, OnlyCancelledStray
    <3>5. QED
      BY <1>0, <1>3, <3>2, <3>3, <3>4 DEF IInv
  <2>7. CASE Found(h)
    <3>1. at[h] = k
      <4>1. at[h] \in Stored
        <5>1. at[h] \in Nat /\ at[h] <= k /\ at[h] \in Slots
          BY <1>5, <2>2, <2>4, <2>7, PoolAssumption DEF Found, Slots
        <5>2. next \in Int /\ num_threads \in Int
          BY <1>0 DEF Bounds, TypeOK
        <5>3. QED
          BY <2>1, <2>2, <5>1, <5>2 DEF Stored, Alive
      <4>2. QED
        BY <1>0, <1>4, <2>1, <2>7, <4>1 DEF Found, Owned
    <3>2. Owned'
      BY <1>0, <1>1, <2>7, ThreadOwned DEF Found
    <3>3. Searching'
      BY <1>0, <1>1, <1>2, <1>4, <1>5, <2>1, <2>2, <2>3, <2>7, <3>1
      DEF Found, Searching
    <3>4. Recorded' /\ OnlyCancelledStray'
      BY <1>0, <1>1, <1>2, <1>4, <1>5, <2>7 DEF Found, Recorded, OnlyCancelledStray
    <3>5. QED
      BY <1>0, <1>3, <3>2, <3>3, <3>4 DEF IInv
  <2>8. CASE Record(h)
    <3>1. /\ run' = [run EXCEPT ![h] = "ended"] /\ at' = [at EXCEPT ![h] = 0]
          /\ rusage' = [rusage EXCEPT ![k] = h] /\ UNCHANGED stray
      BY <2>2, <2>4, <2>8 DEF Record, Ends
    <3>2. Owned'
      BY <1>0, <1>1, <3>1, ThreadOwned
    <3>3. Searching'
      BY <1>0, <1>1, <1>2, <1>4, <1>5, <2>1, <2>3, <3>1 DEF Searching
    <3>4. rusage \in [Slots -> Handles \cup {None}]
      BY <1>0 DEF Bounds, TypeOK
    <3>5. \A i \in Stored : i # k => /\ rusage'[i] = rusage[i]
                                     /\ i \in Alive => run'[threads[i]] = run[threads[i]]
      BY <1>4, <1>5, <2>3, <3>1, <3>4 DEF Stored
    <3>6. rusage'[k] = threads[k]
      BY <2>1, <2>2, <3>1, <3>4
    <3>7. Recorded' /\ OnlyCancelledStray'
      BY <1>0, <1>1, <1>2, <3>1, <3>5, <3>6 DEF Recorded, OnlyCancelledStray
    <3>8. QED
      BY <1>0, <1>3, <3>2, <3>3, <3>7 DEF IInv
  <2>9. ~DieCancelled(h) /\ ~FindFreed(h) /\ ~NotFound(h)
    BY <1>0, <1>5, <1>7, <2>2, <2>4
    DEF DieCancelled, FindFreed, NotFound, Used, Bounds, TypeOK
  <2>10. QED
    BY <2>5, <2>6, <2>7, <2>8, <2>9 DEF worker_finish_thread
<1>8. QED
  BY <1>6, <1>7

-----------------------------------------------------------------------------
(* The steps of the caller.                                                *)

(* No pool before or after the step.                                       *)
LEMMA NoPool ==
  ASSUME IInv, Bounds', Alive = {}, Stored' = {}, caller' # "printed",
         UNCHANGED <<run, at, cancelled, stray>>
  PROVE  IInv'
<1>1. Alive' = {}
  BY DEF Alive
<1>2. Owned'
  BY <1>1 DEF IInv, Owned
<1>3. Searching' /\ Recorded'
  BY <1>1 DEF IInv, Searching, Recorded
<1>4. OnlyCancelledStray' /\ TimesAreOwn'
  BY DEF IInv, OnlyCancelledStray, TimesAreOwn
<1>5. QED
  BY <1>2, <1>3, <1>4 DEF IInv

(* The slots and their threads stay as they are.                           *)
LEMMA SamePool ==
  ASSUME IInv, Bounds', Alive' = Alive, Stored' = Stored, TimesAreOwn',
         UNCHANGED <<run, at, threads, rusage, cancelled, stray>>
  PROVE  IInv'
<1>1. Owned'
  BY DEF IInv, Owned
<1>2. Searching' /\ Recorded' /\ OnlyCancelledStray'
  BY DEF IInv, Searching, Recorded, OnlyCancelledStray
<1>3. QED
  BY <1>1, <1>2 DEF IInv

LEMMA Created ==
  ASSUME IInv, Bounds', NEW h \in Handles, CreateThread(h)
  PROVE  IInv'
<1> USE DEF pool
<1>0. Bounds /\ Owned /\ Searching /\ Recorded /\ OnlyCancelledStray
  BY DEF IInv
<1>1. /\ next \in Slots /\ next \in Nat /\ next \notin Stored
      /\ Stored' = Stored \cup {next}
      /\ Alive = Stored /\ Alive' = Stored'
  <2>1. /\ next \in Nat /\ num_threads \in 0 .. MaxThreads /\ next < num_threads
        /\ caller = "create" /\ caller' = "create" /\ next' = next + 1
    BY <1>0 DEF Bounds, TypeOK, Counting, CreateThread
  <2>2. next \in Slots
    BY <2>1, PoolAssumption DEF Slots
  <2>3. Stored = {i \in Slots : i < next} /\ Stored' = {i \in Slots : i < next'}
    BY <2>1 DEF Stored
  <2>4. Alive = Stored /\ Alive' = Stored'
    BY <2>1 DEF Alive
  <2>5. \A i \in Slots : i \in Int
    BY DEF Slots
  <2>6. QED
    <3>1. \A i \in Slots : i < next' <=> i < next \/ i = next
      BY <2>1, <2>5
    <3>2. ~(next < next)
      BY <2>1
    <3>3. next \notin Stored
      BY <2>3, <3>2, Zenon
    <3>4. ASSUME NEW i
          PROVE  i \in Stored' <=> i \in Stored \/ i = next
      BY <2>2, <2>3, <3>1, Zenon
    <3>5. Stored' = Stored \cup {next}
      BY <3>4, Zenon
    <3>6. QED
      BY <2>1, <2>2, <2>4, <3>3, <3>5
<1>2. /\ run[h] = "none" /\ run'[h] = "body" /\ at'[h] = 0
      /\ \A g \in Handles \ {h} : run'[g] = run[g]
      /\ UNCHANGED <<at, rusage, cancelled, stray>>
      /\ threads'[next] = h
      /\ \A i \in Stored : threads'[i] = threads[i]
  BY <1>0, <1>1 DEF CreateThread, Bounds, TypeOK, Searching, Stored
<1>3. h \notin cancelled /\ \A i \in Stored : threads[i] \in Handles \ {h}
  BY <1>0, <1>1, <1>2 DEF Owned
<1>4. cancelled \subseteq Handles
  BY <1>0 DEF Bounds, TypeOK
<1>5. Owned'
  BY <1>0, <1>1, <1>2, <1>3, <1>4 DEF Owned
<1>6. Searching'
  BY <1>0, <1>1, <1>2, <1>3 DEF Searching
<1>7. Recorded'
  BY <1>0, <1>1, <1>2, <1>3 DEF Recorded
<1>8. OnlyCancelledStray' /\ TimesAreOwn'
  BY <1>0, <1>2 DEF OnlyCancelledStray, TimesAreOwn, CreateThread
<1>9. QED
  BY <1>5, <1>6, <1>7, <1>8 DEF IInv

LEMMA Cancelled ==
  ASSUME IInv, Bounds', CancelThread
  PROVE  IInv'
<1> USE DEF pool
<1>0. Bounds /\ Owned /\ Searching /\ OnlyCancelledStray
  BY DEF IInv
<1>1. /\ next \in Stored
      /\ Stored' = Stored \ {next}
      /\ Alive = Stored /\ Alive' = Stored'
  <2>1. /\ next \in Nat /\ num_threads \in 0 .. MaxThreads /\ next < num_threads
        /\ caller = "cancel" /\ caller' = "cancel" /\ next' = next - 1
    BY <1>0 DEF Bounds, TypeOK, Counting, CancelThread
  <2>2. next \in Slots
    BY <2>1, PoolAssumption DEF Slots
  <2>3. Stored = {i \in Slots : i <= next} /\ Stored' = {i \in Slots : i <= next'}
    BY <2>1 DEF Stored
  <2>4. Alive = Stored /\ Alive' = Stored'
    BY <2>1 DEF Alive
  <2>5. \A i \in Slots : i \in Int
    BY DEF Slots
  <2>6. QED
    <3>1. \A i \in Slots : i <= next' <=> i <= next /\ i # next
      BY <2>1, <2>5
    <3>2. next <= next
      BY <2>1
    <3>3. next \in Stored
      BY <2>2, <2>3, <3>2, Zenon
    <3>4. ASSUME NEW i
          PROVE  i \in Stored' <=> i \in Stored /\ i # next
      BY <2>3, <3>1, Zenon
    <3>5. Stored' = Stored \ {next}
      BY <3>4, Zenon
    <3>6. QED
      BY <2>4, <3>3, <3>5
<1>2. /\ cancelled' = cancelled \cup {threads[next]}
      /\ UNCHANGED <<threads, rusage, run, at, stray>>
  BY DEF CancelThread
<1>3. Owned'
  BY <1>0, <1>1, <1>2 DEF Owned
<1>4. Searching'
  BY <1>0, <1>1, <1>2 DEF Searching
<1>5. Recorded' /\ OnlyCancelledStray' /\ TimesAreOwn'
  BY <1>0, <1>2 DEF Recorded, OnlyCancelledStray, TimesAreOwn, CancelThread
<1>6. QED
  BY <1>3, <1>4, <1>5 DEF IInv

LEMMA Joined ==
  ASSUME IInv, Bounds', JoinThread
  PROVE  IInv'
<1> USE DEF pool
<1>0. Bounds /\ Owned /\ Searching /\ Recorded /\ OnlyCancelledStray
  BY DEF IInv
<1>1. /\ next \in Alive /\ Alive \subseteq Stored
      /\ Stored' = Stored /\ Alive' = Alive \ {next}
  <2>1. /\ next \in Nat /\ num_threads \in 0 .. MaxThreads /\ next < num_threads
        /\ caller = "join" /\ caller' = "join" /\ next' = next + 1
        /\ num_threads' = num_threads
    BY <1>0 DEF Bounds, TypeOK, Counting, JoinThread
  <2>2. next \in Slots
    BY <2>1, PoolAssumption DEF Slots
  <2>3. /\ Stored = {i \in Slots : i < num_threads}
        /\ Stored' = {i \in Slots : i < num_threads}
    BY <2>1 DEF Stored
  <2>4. Alive = {i \in Stored : next <= i} /\ Alive' = {i \in Stored : next + 1 <= i}
    BY <2>1, <2>3 DEF Alive
  <2>5. \A i \in Slots : i \in Int
    BY DEF Slots
  <2>6. QED
    <3>1. \A i \in Slots : next + 1 <= i <=> next <= i /\ i # next
      BY <2>1, <2>5
    <3>2. next \in Alive
      BY <2>1, <2>2, <2>3, <2>4
    <3>3. Alive \subseteq Stored /\ Stored' = Stored
      BY <2>3, <2>4
    <3>4. Alive' = Alive \ {next}
      BY <2>3, <2>4, <3>1
    <3>5. QED
      BY <3>2, <3>3, <3>4
<1>2. DEFINE h == threads[next]
<1>3. /\ h \in Handles \ cancelled /\ run[h] = "ended" /\ run'[h] = "none"
      /\ \A g \in Handles \ {h} : run'[g] = run[g]
      /\ UNCHANGED <<threads, rusage, at, cancelled, stray>>
  BY <1>0, <1>1 DEF JoinThread, Owned, Bounds, TypeOK
<1>4. \A i \in Stored : threads[i] \in Handles /\ (i # next => threads[i] # h)
  BY <1>0, <1>1 DEF Owned
<1>5. cancelled \subseteq Handles
  BY <1>0 DEF Bounds, TypeOK
<1> HIDE DEF h
<1>6. Owned'
  BY <1>0, <1>1, <1>3, <1>4, <1>5 DEF Owned, h
<1>7. Searching'
  BY <1>0, <1>1, <1>3, <1>4 DEF Searching
<1>8. Recorded'
  BY <1>0, <1>1, <1>3, <1>4 DEF Recorded, h
<1>9. OnlyCancelledStray' /\ TimesAreOwn'
  BY <1>0, <1>3 DEF OnlyCancelledStray, TimesAreOwn, JoinThread
<1>10. QED
  BY <1>6, <1>7, <1>8, <1>9 DEF IInv

LEMMA StartKeeps ==
  ASSUME IInv, worker_start
  PROVE  IInv'
<1> USE DEF pool
<1>0. Bounds /\ Owned /\ Bounds'
  BY StartBounds DEF IInv
<1>1. ASSUME StartFails(num_threads') \/ StartCall(num_threads', threads') \/ AllocRusage
             \/ RusageFails \/ FreeCancelled
      PROVE  IInv'
  <2>0. (caller = "start" => next = 0) /\ \A i \in Slots : i \in Nat
    BY <1>0 DEF Bounds, Counting, Slots
  <2>1. Stored' = {} /\ caller' # "printed"
    BY <1>1, <2>0
    DEF StartFails, StartCall, AllocRusage, RusageFails, FreeCancelled, Stored
  <2>2. Alive = {}
    <3>1. CASE FreeCancelled
      <4>1. next \in Int /\ next < 0 /\ caller = "cancel"
        BY <1>0, <3>1 DEF FreeCancelled, Bounds, TypeOK
      <4>2. QED
        BY <2>0, <4>1 DEF Stored, Alive
    <3>2. CASE caller \in {"out", "start"}
      BY <3>2 DEF Stored, Alive
    <3>3. QED
      BY <1>1, <3>1, <3>2 DEF StartFails, StartCall, AllocRusage, RusageFails
  <2>3. UNCHANGED <<run, at, cancelled, stray>>
    BY <1>1 DEF StartFails, StartCall, AllocRusage, RusageFails, FreeCancelled
  <2>4. QED
    BY <1>0, <2>1, <2>2, <2>3, NoPool
<1>2. ASSUME CreateFails \/ StartReturns
      PROVE  IInv'
  <2>1. next \in Int /\ num_threads \in Int /\ \A i \in Slots : i \in Int
    BY <1>0 DEF Bounds, TypeOK, Slots
  <2>2. Stored' = Stored /\ Alive' = Alive
    BY <1>2, <2>1 DEF CreateFails, StartReturns, Stored, Alive
  <2>3. QED
    BY <1>0, <1>2, <2>2, SamePool DEF CreateFails, StartReturns, TimesAreOwn
<1>3. QED
  BY <1>0, <1>1, <1>2, Created, Cancelled DEF worker_start, StartFails, StartCall

LEMMA JoinKeeps ==
  ASSUME IInv, worker_join \/ worker_print_cputime \/ worker_free
  PROVE  IInv'
<1> USE DEF pool
<1>0. Bounds /\ Owned /\ Recorded /\ Bounds'
  BY JoinBounds DEF IInv
<1>1. next \in Int /\ num_threads \in 0 .. MaxThreads /\ \A i \in Slots : i \in Int
  BY <1>0 DEF Bounds, TypeOK, Slots
<1>2. CASE JoinCall \/ JoinReturns
  <2>1. Stored' = Stored
    BY <1>2 DEF JoinCall, JoinReturns, Stored
  <2>2. caller = "up" => next = 0
    BY <1>0 DEF Bounds, Counting
  <2>3. Alive' = Alive
    BY <1>1, <1>2, <2>1, <2>2 DEF JoinCall, JoinReturns, Alive, Stored, Slots
  <2>4. QED
    BY <1>0, <1>2, <2>1, <2>3, SamePool DEF JoinCall, JoinReturns, TimesAreOwn
<1>3. CASE worker_print_cputime
  <2>1. Stored' = Stored /\ Alive' = {} /\ Alive = {}
    BY <1>3 DEF worker_print_cputime, Stored, Alive
  <2>2. \A i \in Used : i \in Stored /\ i \in Slots
    BY <1>1, <1>3, PoolAssumption DEF worker_print_cputime, Stored, Used, Slots
  <2>3. cancelled = {} => \A i \in Used : rusage[i] = threads[i] /\ threads[i] \in Handles
    BY <1>0, <2>1, <2>2 DEF Recorded, Owned
  <2>4. \A i \in Used : shown'[i] = rusage[i]
    BY <1>3, <2>2 DEF worker_print_cputime
  <2>5. TimesAreOwn'
    BY <1>3, <2>3, <2>4, PoolAssumption DEF worker_print_cputime, TimesAreOwn, Used
  <2>6. QED
    BY <1>0, <1>3, <2>1, <2>5, SamePool DEF worker_print_cputime
<1>4. CASE worker_free
  <2>1. Stored' = {} /\ Alive = {} /\ caller' # "printed"
    BY <1>4 DEF worker_free, Stored, Alive
  <2>2. QED
    BY <1>0, <1>4, <2>1, NoPool DEF worker_free
<1>5. QED
  BY <1>0, <1>2, <1>3, <1>4, Joined DEF worker_join

-----------------------------------------------------------------------------
LEMMA InvariantHolds == Spec => []IInv
<1>1. Init => IInv
  <2>1. ASSUME Init
        PROVE  Stored = {} /\ Alive = {}
    BY <2>1 DEF Init, Stored, Alive
  <2>2. Init => Bounds
    BY PoolAssumption, BlankIsArray DEF Init, Bounds, TypeOK, Counting, HeapHeld, Phases,
         RunPhases
  <2>3. QED
    BY <2>1, <2>2
    DEF Init, IInv, Owned, Searching, Recorded, OnlyCancelledStray, TimesAreOwn
<1>2. ASSUME IInv, UNCHANGED vars
      PROVE  IInv'
  <2>1. /\ UNCHANGED <<caller, num_threads, next, heap, threads, rusage, run, at, cancelled,
                        stray, shown>>
        /\ Stored' = Stored /\ Alive' = Alive
    BY <1>2, SlotsStay DEF vars, pool
  <2>2. Bounds' /\ TimesAreOwn'
    BY <1>2, <2>1 DEF IInv, Bounds, TypeOK, Counting, HeapHeld, TimesAreOwn, Used
  <2>3. QED
    BY <1>2, <2>1, <2>2, SamePool
<1>3. ASSUME IInv, [Next]_vars
      PROVE  IInv'
  BY <1>2, <1>3, StartKeeps, JoinKeeps, ThreadKeeps DEF Next
<1>4. QED
  BY <1>1, <1>3, PTL DEF Spec

(* num_threads, the loop counters of worker_start and worker_join and the  *)
(* index worker_finish_thread searches with stay within the arrays.        *)
THEOREM TypeCorrect == Spec => []TypeOK
<1>1. IInv => TypeOK
  BY DEF IInv, Bounds
<1>2. QED
  BY <1>1, InvariantHolds, PTL

(* Each time worker_print_cputime prints is that of the thread created in  *)
(* the place of its line, whatever malloc left in the arrays and however   *)
(* early the thread called worker_finish_thread.                           *)
THEOREM TimesAreTheirOwn == Spec => []TimesAreOwn
<1>1. IInv => TimesAreOwn
  BY DEF IInv
<1>2. QED
  BY <1>1, InvariantHolds, PTL

(* Only threads a failed worker_start has cancelled, and not joined, reach *)
(* for arrays that are gone, or past their end.                            *)
THEOREM OnlyTheCancelledStray == Spec => []OnlyCancelledStray
<1>1. IInv => OnlyCancelledStray
  BY DEF IInv
<1>2. QED
  BY <1>1, InvariantHolds, PTL

(* A pool that was freed, or could not be started, leaves no array and no  *)
(* thread behind, but for cancelled threads.                               *)
THEOREM NothingIsLeftBehind == Spec => []NothingLeftBehind
<1>1. ASSUME IInv, caller = "out"
      PROVE  Alive = {}
  BY <1>1 DEF Alive, Stored
<1>2. IInv => NothingLeftBehind
  BY <1>1 DEF IInv, Bounds, HeapHeld, Owned, NothingLeftBehind
<1>3. QED
  BY <1>2, InvariantHolds, PTL
=============================================================================
