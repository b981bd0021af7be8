------------------------------- MODULE RtlALU -------------------------------
(* The ALU and the ALU control unit of verilog/rtl: ten operations, of      *)
(* which ADD, SUB, SLT and SLTU share one adder.                            *)
EXTENDS BitOps

\* The operation codes of alu_op_t.
ALU_ADD  == 0
ALU_SLL  == 1
ALU_SLT  == 2
ALU_SLTU == 3
ALU_XOR  == 4
ALU_SRL  == 5
ALU_OR   == 6
ALU_AND  == 7
ALU_SUB  == 8
ALU_SRA  == 13

ALUOperations == {ALU_ADD, ALU_SUB, ALU_XOR, ALU_OR, ALU_AND,
                  ALU_SLL, ALU_SRL, ALU_SRA, ALU_SLT, ALU_SLTU}

\* ALUOp 00 asks for an addition, 01 for a subtraction, 10 for the operation
\* that funct3 names, where funct7[5] tells SUB from ADD and SRA from SRL.
ALUControlUnit(ALUOp, funct3, funct7_bit5) ==
  CASE ALUOp = 1 -> ALU_SUB
    [] ALUOp = 2 -> IF funct7_bit5 = 1 /\ funct3 \in {0, 5} THEN 8 + funct3 ELSE funct3
    [] OTHER     -> ALU_ADD

\* The shared adder: x + y, or x + ~y + 1, one bit wider than a word.
IsSub(op)     == op \in {ALU_SUB, ALU_SLT, ALU_SLTU}
YPrime(op, y) == IF IsSub(op) THEN BitNot(y) ELSE y
Sum(op, x, y) == x + YPrime(op, y) + (IF IsSub(op) THEN 1 ELSE 0)

CarryOut(op, x, y) == Sum(op, x, y) >= Radix
Result(op, x, y)   == Trunc(Sum(op, x, y))

\* The sign of a word.
Negative(w) == w >= SignBit

\* A slip: the overflow of y itself, not of what the adder adds.
OverflowOfY(op, x, y) == /\ Negative(x) <=> Negative(y)
                         /\ ~(Negative(x) <=> Negative(Result(op, x, y)))

\* The overflow out of the sign bit.
Overflow(op, x, y) == /\ Negative(x) <=> Negative(YPrime(op, y))
                      /\ ~(Negative(x) <=> Negative(Result(op, x, y)))

Flag(b) == IF b THEN 1 ELSE 0

\* The shift amount y[4:0] of the 32-bit code is y modulo the width.
Shamt(y) == y % XLEN

ALU(op, x, y) ==
  CASE op \in {ALU_ADD, ALU_SUB} -> Result(op, x, y)
    [] op = ALU_XOR  -> BitXor(x, y)
    [] op = ALU_OR   -> BitOr(x, y)
    [] op = ALU_AND  -> BitAnd(x, y)
    [] op = ALU_SLL  -> Trunc(x * 2^Shamt(y))
    [] op = ALU_SRL  -> x \div 2^Shamt(y)
    [] op = ALU_SRA  -> Trunc(Signed(x) \div 2^Shamt(y))
    [] op = ALU_SLT  -> Flag(~(Negative(Result(op, x, y)) <=> Overflow(op, x, y)))
    [] op = ALU_SLTU -> Flag(~CarryOut(op, x, y))
    [] OTHER         -> 0
=============================================================================
