------------------------------ MODULE ALUTable ------------------------------
(* What the ALUs are to compute: the register operations of RV32I.          *)
EXTENDS BitOps

\* The R-type table of RV32I (todo.txt, r32i_base_instruction.yaml), without
\* adders or carries: shifts move the set of 1 bits, comparisons compare.
ShiftRight(S, n) == {k \in BitIdx : k + n \in S}

SignFill(w, n) == IF w >= SignBit THEN {k \in BitIdx : k + n >= XLEN} ELSE {}

RType(funct3, funct7_bit5, x, y) ==
  LET n == y % XLEN
  IN  CASE funct3 = 0 -> Trunc(IF funct7_bit5 = 1 THEN x - y ELSE x + y)
        [] funct3 = 1 -> WordOf({k \in BitIdx : k - n \in BitSet(x)})
        [] funct3 = 2 -> IF Signed(x) < Signed(y) THEN 1 ELSE 0
        [] funct3 = 3 -> IF x < y THEN 1 ELSE 0
        [] funct3 = 4 -> BitXor(x, y)
        [] funct3 = 5 -> WordOf(ShiftRight(BitSet(x), n) \cup
                                IF funct7_bit5 = 1 THEN SignFill(x, n) ELSE {})
        [] funct3 = 6 -> BitOr(x, y)
        [] OTHER      -> BitAnd(x, y)

TableOut(ALUOp, funct3, funct7_bit5, x, y) ==
  CASE ALUOp = 2 -> RType(funct3, funct7_bit5, x, y)
    [] ALUOp = 1 -> Trunc(x - y)
    [] OTHER     -> Trunc(x + y)
=============================================================================
