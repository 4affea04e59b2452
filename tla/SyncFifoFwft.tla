---------------------------- MODULE SyncFifoFwft ----------------------------
(***************************************************************************)
(* src/rtl/sync_fifo_fwft.vhd: a first-word-fall-through fifo, a memory    *)
(* with an output register in front, as a function of its registers and    *)
(* inputs: FifoEdge is what a rising clock edge makes of the fifo f.  The  *)
(* reserve port, which no instance connects, is left out.                  *)
(***************************************************************************)
LOCAL INSTANCE Integers

CONSTANTS FifoBits,    \* ADDR_BITS: the memory holds 2^FifoBits words
          WriteSlack,  \* WRITE_SLACK: the room left when full is raised
          None         \* no word

Words == 2^FifoBits

(* empty speaks of the memory only: the output register may hold a word.   *)
FifoInit == [mem |-> [a \in 0 .. Words - 1 |-> None],
             waddr |-> 0, raddr |-> 0, empty |-> TRUE, full |-> FALSE,
             valid |-> FALSE, data |-> None]

(* A word moves from the memory to the output register.                    *)
FifoPop(f, read) == (~f.valid \/ read) /\ ~f.empty

FifoFull(f) == (f.raddr - f.waddr - 1) % Words <= WriteSlack

(* write is a word or None.                                                *)
FifoEdge(f, rst, write, read) ==
  LET pop == FifoPop(f, read)
      raddr == IF pop THEN (f.raddr + 1) % Words ELSE f.raddr
  IN  IF rst
      THEN [FifoInit EXCEPT !.mem = f.mem, !.full = TRUE]
      ELSE [mem   |-> IF write = None THEN f.mem ELSE [f.mem EXCEPT ![f.waddr] = write],
            waddr |-> IF write = None THEN f.waddr ELSE (f.waddr + 1) % Words,
            raddr |-> raddr,
            empty |-> write = None /\ (f.empty \/ (pop /\ raddr = f.waddr)),
            full  |-> FifoFull(f),
            valid |-> pop \/ (f.valid /\ ~read),
            data  |-> IF pop THEN f.mem[f.raddr] ELSE f.data]
=============================================================================
