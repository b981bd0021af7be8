------------------------------ MODULE IdleLoop ------------------------------
(* delay_for_n_mem_clocks: a wait is made by the read-write manager, whose   *)
(* two eight bit counters are each tested before they are decremented, so   *)
(* that a loop is run once more than its counter says; a wait beyond the    *)
(* two counters is run again by the processor.                              *)
EXTENDS Integers

\* A byte of a counter.
BYTE == 256

\* The counters for a wait, given in clocks of the AFI.
Counters(clocks) ==
  [inner  |-> IF clocks = 0 THEN 0 ELSE IF clocks <= BYTE THEN clocks - 1 ELSE BYTE - 1,
   outer  |-> IF clocks <= BYTE THEN 0
              ELSE IF clocks <= BYTE * BYTE THEN (clocks - 1) \div BYTE ELSE BYTE - 1,
   c_loop |-> IF clocks <= BYTE * BYTE THEN 0 ELSE (clocks - 1) \div (BYTE * BYTE)]

\* The clocks that pass, the tests of the outer loops left out.
Waits(c) == (c.inner + 1) * (c.outer + 1) * (c.c_loop + 1)

delay_for_n_mem_clocks(clocks) == Waits(Counters(clocks))

\* The three nested counters of the loops around a memory reset.
NestedWait(c0, c1, c2) == (c2 + 1) * ((c1 + 1) * (2 * (c0 + 1) + 1) + 1) + 1

=============================================================================
