-------------------------------- MODULE ALUs --------------------------------
(* The two ALUs of the repository, each behind the control unit beside it,  *)
(* against each other and against the table of register operations.         *)
EXTENDS RtlALU

Table == INSTANCE ALUTable
Board == INSTANCE BoardALU

RtlOut(op, funct3, bit5, x, y)   == ALU(ALUControlUnit(op, funct3, bit5), x, y)
BoardOut(op, funct3, bit5, x, y) == Board!ALU(Board!ALUControlUnit(op, funct3, bit5), x, y)

\* rtl/ALU.sv computes what the table of register operations says.
RtlComputesRV32I(op, funct3, bit5, x, y) ==
  RtlOut(op, funct3, bit5, x, y) = Table!TableOut(op, funct3, bit5, x, y)

\* The five operations the board has, and the address and branch arithmetic.
BoardHas(op, funct3) == op \in {0, 1} \/ (op = 2 /\ funct3 \in {0, 4, 6, 7})

\* The board's ALU behind the board's control unit gives the same word, though
\* its operation codes differ.
BoardAgrees(op, funct3, bit5, x, y) ==
  BoardHas(op, funct3) => BoardOut(op, funct3, bit5, x, y) = RtlOut(op, funct3, bit5, x, y)
=============================================================================
