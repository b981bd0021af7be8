------------------------------- MODULE BitOps -------------------------------
(* The bitwise operators of the ALUs, on the set of positions that are 1.   *)
EXTENDS Words

BitIdx == 0 .. XLEN - 1

BitSet(w) == {i \in BitIdx : (w \div 2^i) % 2 = 1}
WordOf(S) == CHOOSE w \in Word : BitSet(w) = S

\* Powers of two are positive and multiply: arithmetic the proof system lacks.
ASSUME BinaryNumerals ==
  /\ 2^0 = 1 /\ 2^1 = 2
  /\ \A k \in BitIdx : 2^k \in Nat /\ 2^k > 0
  /\ \A j, k \in BitIdx : j + k \in BitIdx => 2^(j + k) = 2^j * 2^k

BitAnd(x, y) == WordOf(BitSet(x) \cap BitSet(y))
BitOr(x, y)  == WordOf(BitSet(x) \cup BitSet(y))
BitXor(x, y) == WordOf((BitSet(x) \cup BitSet(y)) \ (BitSet(x) \cap BitSet(y)))

\* ~x
BitNot(x) == Radix - 1 - x
=============================================================================
