------------------------------- MODULE Deskew -------------------------------
(* What read and write deskew (rw_mgr_mem_calibrate_vfifo_center and        *)
(* rw_mgr_mem_calibrate_writes_center) have in common: the window of each   *)
(* bit, kept as a left and a right edge, and the arithmetic that lines the  *)
(* windows up.  An edge is the delay at which a bit last passed; a left     *)
(* edge below zero is a bit that passes only after DQS has been delayed.    *)
EXTENDS Integers, FiniteSetsExt

CONSTANTS
  DQ,          \* DQ pins of a DQS group
  DELAY_MAX    \* IO_IO_IN_DELAY_MAX of a read, IO_IO_OUT1_DELAY_MAX of a write

ASSUME DeskewAssumption == DQ \in Nat \ {0} /\ DELAY_MAX \in Nat

Bits == 0 .. DQ - 1

\* The value of an edge that has not been seen.
Illegal == DELAY_MAX + 1
NoEdges == [i \in Bits |-> [l |-> Illegal, r |-> Illegal]]

\* Slip: the loop stops at the first test that no bit passes.
StopsAtFirst(ok, sticky) == ok = {}

\* A test stops its loop when no bit passes and every bit has passed before.
Stops(ok, sticky) == ok = {} /\ sticky = Bits

\* Delaying DQ by d.  A bit that passes moves its left edge; until it has
\* passed, the pass to come marks its right edge.
LeftEdges(e, d, ok) ==
  [i \in Bits |->
     IF i \in ok THEN [e[i] EXCEPT !.l = d]
     ELSE IF e[i].l = Illegal THEN [e[i] EXCEPT !.r = -(d + 1)]
     ELSE e[i]]

\* Between the loops: a right edge that no left edge followed is none.
Cleared(e) ==
  [i \in Bits |-> IF e[i].l = Illegal THEN [e[i] EXCEPT !.r = Illegal] ELSE e[i]]

HasLeft(e) == {i \in Bits : e[i].l # Illegal}
HasBoth(e) == {i \in Bits : e[i].l # Illegal /\ e[i].r # Illegal}

\* Delaying DQS by d: the same with the edges exchanged, but a bit that fails
\* at 0 and has a left edge is marginal there.
RightEdges(e, d, ok) ==
  [i \in Bits |->
     IF i \in ok THEN [e[i] EXCEPT !.r = d]
     ELSE IF e[i].r # Illegal THEN e[i]
     ELSE IF d = 0 /\ e[i].l # Illegal THEN [e[i] EXCEPT !.r = -1]
     ELSE [e[i] EXCEPT !.l = -(d + 1)]]

\* C division by two, which truncates towards zero.
Half(n) == IF n >= 0 THEN n \div 2 ELSE -((-n) \div 2)

Clamp(n, max) == IF n > max THEN max ELSE IF n < 0 THEN 0 ELSE n

\* Twice the distance from the middle of a bit's window to where it is
\* sampled now, and the least of them.
Off(e, i) == e[i].l - e[i].r
Least(e)  == Min({Off(e, i) : i \in Bits})

\* Slip: the distance is not halved.
MidMinWhole(e) == Least(e)

\* mid_min: half the least distance, an odd positive one biased to the right.
MidMin(e) == Half(IF Least(e) > 0 THEN Least(e) + 1 ELSE Least(e))

\* Slip: no limit at the end of the delay chain.
ShiftDqUnlimited(e, i, moved) == Half(Off(e, i) - Least(e)) + MidMin(e) - moved

\* The delay of a DQ pin: what its window needs beyond the least, and what
\* DQS, which moved by "moved", did not do.
ShiftDq(e, i, moved) == Clamp(Half(Off(e, i) - Least(e)) + MidMin(e) - moved, DELAY_MAX)

\* Slip: the move of DQS is left out of the margins.
MarginsUnmoved(e, moved) ==
  [dq  |-> Min({Illegal} \cup {e[i].l - ShiftDq(e, i, moved) : i \in Bits}),
   dqs |-> Min({Illegal} \cup {e[i].r + ShiftDq(e, i, moved) : i \in Bits})]

\* The room left to each edge, the least over the bits.
Margins(e, moved) ==
  [dq  |-> Min({Illegal} \cup {e[i].l - ShiftDq(e, i, moved) - moved : i \in Bits}),
   dqs |-> Min({Illegal} \cup {e[i].r + ShiftDq(e, i, moved) + moved : i \in Bits})]

=============================================================================
