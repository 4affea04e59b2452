----------------------------- MODULE WriteQueue -----------------------------
(***************************************************************************)
(* src/rtl/write_queue.vhd: the buffer of the lines on their way to        *)
(* memory.  Beats enter in order; a line stays until its write command has *)
(* completed, in any order; the bus reads beats by address.  WqEdge is     *)
(* what a rising clock edge makes of the queue q.                          *)
(***************************************************************************)
LOCAL INSTANCE Integers

CONSTANTS AddrBits,   \* ADDR_BITS: the buffer holds 2^AddrBits beats
          None        \* no address, no data

Beats == 2^AddrBits

WqInit == [mem |-> [a \in 0 .. Beats - 1 |-> None],
           waddr |-> 0,       \* where the next beat goes
           written |-> {},    \* the lines in use
           full |-> FALSE,
           comp |-> None,     \* the line completed in the last cycle
           data |-> None]     \* read_data

(* Mutant: only the line under way is looked at. *)
MutantBusyHere(q) == q.waddr \div 2 \in q.written

(* The line under way or one of the next two is still in use.              *)
WqBusy(q) == \E k \in 0 .. 2 : (q.waddr \div 2 + k) % (Beats \div 2) \in q.written

(* write is a beat, complete a line, raddr an address, or None.  The       *)
(* memory is written even when the queue is full; the address then stays.  *)
WqEdge(q, rst, write, complete, raddr) ==
  LET taken == write # None /\ ~q.full
      added == IF taken /\ q.waddr % 2 = 1 THEN {q.waddr \div 2} ELSE {}
  IN  [mem |-> IF write = None THEN q.mem ELSE [q.mem EXCEPT ![q.waddr] = write],
       waddr |-> IF rst THEN 0 ELSE IF taken THEN (q.waddr + 1) % Beats ELSE q.waddr,
       written |-> IF rst THEN {} ELSE (q.written \cup added) \ {q.comp},
       full |-> ~rst /\ WqBusy(q),
       comp |-> complete,
       data |-> IF raddr = None THEN None ELSE q.mem[raddr]]
=============================================================================
