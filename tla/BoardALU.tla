------------------------------ MODULE BoardALU ------------------------------
(* The ALU and the ALU control unit of altera-DE1-SoC.  They keep the names *)
(* and the ports of the ones in verilog/rtl but not their operation codes,  *)
(* and know five operations only.                                           *)
EXTENDS BitOps

\* A slip: the operation codes of verilog/rtl, which are funct3 for XOR and OR.
ALUControlUnitOfRtl(ALUOp, funct3, funct7_bit5) ==
  CASE ALUOp = 0 -> 2
    [] ALUOp = 1 -> 6
    [] ALUOp = 2 /\ funct3 = 0 -> IF funct7_bit5 = 1 THEN 6 ELSE 2
    [] OTHER -> funct3

\* The default row: any other funct3 of an R-type instruction executes as AND.
ALUControlUnit(ALUOp, funct3, funct7_bit5) ==
  CASE ALUOp = 0 -> 2
    [] ALUOp = 1 -> 6
    [] ALUOp = 2 /\ funct3 = 0 -> IF funct7_bit5 = 1 THEN 6 ELSE 2
    [] ALUOp = 2 /\ funct3 = 4 -> 3
    [] ALUOp = 2 /\ funct3 = 6 -> 1
    [] OTHER -> 0

ALU(op, x, y) ==
  CASE op = 0 -> BitAnd(x, y)
    [] op = 1 -> BitOr(x, y)
    [] op = 2 -> Trunc(x + y)
    [] op = 3 -> BitXor(x, y)
    [] op = 6 -> Trunc(x - y)
    [] OTHER  -> 0
=============================================================================
