------------------------------- MODULE Words -------------------------------
(* The machine word of the CPU: the "logic [31:0]" of every RTL file, at a  *)
(* width XLEN that is 32 in the code and small in the model-checked         *)
(* instances.  A word is the natural number its bits spell; arithmetic is   *)
(* modulo 2^XLEN.                                                           *)
EXTENDS Integers

CONSTANT XLEN

\* The weight of the most significant bit, and the number of words.
SignBit == 2^(XLEN - 1)
Radix   == 2 * SignBit

\* That a power of two is positive is arithmetic the proof system lacks.
ASSUME WidthAssumption == /\ XLEN \in Nat /\ XLEN > 0
                          /\ SignBit \in Nat /\ SignBit > 0

Word == 0 .. Radix - 1

\* What a vector of width XLEN keeps of the integer n.
Trunc(n) == n % Radix

\* $signed(w): the two's-complement reading of a word.
Signed(w) == IF w >= SignBit THEN w - Radix ELSE w
=============================================================================
