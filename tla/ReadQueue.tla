----------------------------- MODULE ReadQueue -----------------------------
(***************************************************************************)
(* src/rtl/read_queue.vhd: the buffer that puts the cache lines read from  *)
(* memory back in the order in which they were asked for.  A line is       *)
(* reserved when its read is issued, written in two beats and completed in *)
(* any order, and read out beat by beat from the oldest on.  RqEdge is     *)
(* what a rising clock edge makes of the queue q.                          *)
(***************************************************************************)
LOCAL INSTANCE Integers

CONSTANTS AddrBits,   \* ADDR_BITS: the buffer holds 2^AddrBits beats
          ReadSlack,  \* WRITE_SLACK: the beats left when full is raised
          None        \* no line, no data

Beats == 2^AddrBits

RqInit == [mem |-> [a \in 0 .. Beats - 1 |-> None],
           vaddr |-> 0,       \* where the next line will be reserved
           raddr |-> 0,       \* the next beat to read
           written |-> {},    \* the lines that are complete
           full |-> FALSE, empty |-> TRUE, valid |-> FALSE, data |-> None]

(* A beat leaves the memory when the output register is free.              *)
RqPop(q, read) == (~q.valid \/ read) /\ q.raddr \div 2 \in q.written

(* Mutant: no room is left for what is in the pipeline. *)
MutantFullLate(q) == (q.raddr - q.vaddr - 1) % Beats = 0

(* The beats that can still be reserved, in the width of an address.       *)
RqFull(q) == (q.raddr - q.vaddr - 1) % Beats <= ReadSlack

(* write is a beat's address and data, complete a line, or None.           *)
RqEdge(q, rst, reserve, write, complete, read) ==
  LET pop  == RqPop(q, read)
      mem  == IF write = None THEN q.mem ELSE [q.mem EXCEPT ![write.addr] = write.data]
      data == IF pop THEN q.mem[q.raddr] ELSE q.data
      gone == IF pop /\ q.raddr % 2 = 1 THEN {q.raddr \div 2} ELSE {}
  IN  IF rst
      THEN [RqInit EXCEPT !.mem = mem, !.data = data, !.empty = (q.written = {})]
      ELSE [mem |-> mem,
            vaddr |-> IF reserve THEN (q.vaddr + 2) % Beats ELSE q.vaddr,
            raddr |-> IF pop THEN (q.raddr + 1) % Beats ELSE q.raddr,
            written |-> (q.written \cup ({complete} \ {None})) \ gone,
            full |-> RqFull(q),
            empty |-> q.written = {},
            valid |-> pop \/ (q.valid /\ ~read),
            data |-> data]
=============================================================================
