----------------------------- MODULE UnitBenches -----------------------------
(* The unit benches of verilog/tb: each drives one unit with the rows of a  *)
(* table and compares its outputs.  A row of a clocked unit is driven for a *)
(* half or a whole period of the clock, which TestBench leaves where it is. *)
(* The ALU's rows are for 8-bit words: a hexadecimal digit of a pattern is  *)
(* one bit here, and 31 and 32 are the last shift and one more.             *)
EXTENDS Integers, Sequences

CONSTANTS BITS, ALUBITS, NREG     \* each of them 32 in the code

D == INSTANCE Decoder WITH XLEN <- BITS
A == INSTANCE RtlALU WITH XLEN <- ALUBITS

VARIABLES
  bench,      \* the bench that runs
  row,        \* the row it has driven last, 0 before the first
  clk, pc, regs

vars == <<bench, row, clk, pc, regs>>

\* tb_ALU.cpp: operation, x, y and the word expected.
Ones == 2^ALUBITS - 1
Msb  == 2^(ALUBITS - 1)
Beef == Ones - 34      \* any pattern

ArithmeticRows ==
  << <<A!ALU_ADD, 10, 5, 15>>, <<A!ALU_ADD, 0, 0, 0>>, <<A!ALU_ADD, Ones, 1, 0>>,
     <<A!ALU_ADD, Ones - 31, 0, Ones - 31>>,
     <<A!ALU_SUB, 10, 5, 5>>, <<A!ALU_SUB, 5, 5, 0>>, <<A!ALU_SUB, 3, 5, Ones - 1>>,
     <<A!ALU_SUB, Ones - 2, 5, Ones - 7>> >>

LogicRows ==
  << <<A!ALU_XOR, \hCC, \h55, \h99>>, <<A!ALU_XOR, Beef, Beef, 0>>,
     <<A!ALU_OR, \hCC, \h55, \hDD>>, <<A!ALU_OR, Beef, 0, Beef>>,
     <<A!ALU_AND, \hCC, \h55, \h44>>, <<A!ALU_AND, Beef, 0, 0>>, <<A!ALU_AND, Beef, Ones, Beef>> >>

ShiftRows ==
  << <<A!ALU_SLL, 1, 1, 2>>, <<A!ALU_SLL, \hF, 4, \hF0>>, <<A!ALU_SLL, 1, ALUBITS - 1, Msb>>,
     <<A!ALU_SLL, 1, ALUBITS, 1>>,
     <<A!ALU_SRL, 8, 1, 4>>, <<A!ALU_SRL, Msb, 1, Msb \div 2>>, <<A!ALU_SRL, Msb, ALUBITS - 1, 1>>,
     <<A!ALU_SRA, 8, 1, 4>>, <<A!ALU_SRA, Msb, 1, Msb + Msb \div 2>>,
     <<A!ALU_SRA, Ones, ALUBITS - 1, Ones>> >>

CompareRows ==
  << <<A!ALU_SLT, 1, 2, 1>>, <<A!ALU_SLT, 2, 1, 0>>, <<A!ALU_SLT, 5, 5, 0>>, <<A!ALU_SLT, Ones, 1, 1>>,
     <<A!ALU_SLT, 1, Ones, 0>>, <<A!ALU_SLT, Msb - 1, Msb, 0>>, <<A!ALU_SLT, Msb, Msb - 1, 1>>,
     <<A!ALU_SLTU, 1, 2, 1>>, <<A!ALU_SLTU, 2, 1, 0>>, <<A!ALU_SLTU, 5, 5, 0>>,
     <<A!ALU_SLTU, Ones, 1, 0>>, <<A!ALU_SLTU, 1, Ones, 1>>, <<A!ALU_SLTU, 0, Msb, 1>> >>

ALURows == ArithmeticRows \o LogicRows \o ShiftRows \o CompareRows

ALUPasses(r) == A!ALU(r[1], r[2], r[3]) = r[4]

\* tb_ALUControlUnit.cpp: ALUOp, funct3, funct7[5] and the operation expected.
ALUControlRows ==
  << <<0, 0, 0, A!ALU_ADD>>, <<0, 0, 1, A!ALU_ADD>>, <<0, 5, 1, A!ALU_ADD>>, <<0, 7, 1, A!ALU_ADD>>,
     <<1, 0, 0, A!ALU_SUB>>, <<1, 0, 1, A!ALU_SUB>>, <<1, 5, 1, A!ALU_SUB>>, <<1, 7, 0, A!ALU_SUB>>,
     <<2, 0, 0, A!ALU_ADD>>, <<2, 0, 1, A!ALU_SUB>>, <<2, 1, 0, A!ALU_SLL>>, <<2, 1, 1, A!ALU_SLL>>,
     <<2, 2, 0, A!ALU_SLT>>, <<2, 2, 1, A!ALU_SLT>>, <<2, 3, 0, A!ALU_SLTU>>, <<2, 3, 1, A!ALU_SLTU>>,
     <<2, 4, 0, A!ALU_XOR>>, <<2, 4, 1, A!ALU_XOR>>, <<2, 5, 0, A!ALU_SRL>>, <<2, 5, 1, A!ALU_SRA>>,
     <<2, 6, 0, A!ALU_OR>>, <<2, 6, 1, A!ALU_OR>>, <<2, 7, 0, A!ALU_AND>>, <<2, 7, 1, A!ALU_AND>>,
     <<3, 5, 1, A!ALU_ADD>> >>

ALUControlPasses(r) == A!ALUControlUnit(r[1], r[2], r[3]) = r[4]

\* tb_ImmGen.cpp: the word, the selects it drives and the immediate expected.
ImmGenRows ==
  << <<\h0050, \h0093, {}, 5>>, <<\h0080, \h2103, {}, 8>>, <<\h0020, \h2623, {"MemWrite"}, 12>>,
     <<\h0000, \h0863, {"Branch"}, 16>>, <<\h0200, \h00EF, {"Jump"}, 32>>, <<\hFFF0, \h0093, {}, -1>>,
     <<\hFFC0, \h0103, {}, -4>>, <<\hFE20, \h2C23, {"MemWrite"}, -8>>,
     <<\hFE20, \h2623, {"MemWrite"}, -20>>, <<\hFE00, \h0CE3, {"Branch"}, -8>>,
     <<\hFE1F, \hF0EF, {"Jump"}, -32>> >>

Signals(i) == {s \in {"RegWrite", "MemWrite", "MemRead", "MemtoReg", "ALUSrc", "Branch", "Jump"} :
                 D!ControlUnit(i)[s]}

ImmGenPasses(r) ==
  LET i == D!Decode(r[1], r[2])
  IN  Signals(i) \cap {"Branch", "Jump", "MemWrite"} = r[3] /\ D!ImmOut(i) = D!Trunc(r[4])

\* tb_ControlUnit.cpp: the word, the signals that are up, ALUOps and the halt.
ControlRows ==
  LET R == {"RegWrite"} S == {"ALUSrc"} IN
  << <<\h0050, \h0093, R \cup S, 0, FALSE>>, <<\h0031, \h00B3, R, 2, FALSE>>,
     <<\h4031, \h00B3, R, 2, FALSE>>,
     <<\h0001, \h2083, R \cup S \cup {"MemRead", "MemtoReg"}, 0, FALSE>>,
     <<\h0011, \h2023, S \cup {"MemWrite"}, 0, FALSE>>, <<\h0020, \h8063, {"Branch"}, 1, FALSE>>,
     <<\h0020, \h9063, {"Branch"}, 1, FALSE>>, <<\h0000, \h00EF, R \cup S \cup {"Jump"}, 0, FALSE>>,
     <<\h0031, \hF0B3, R, 2, FALSE>>, <<\h0031, \hE0B3, R, 2, FALSE>>,
     <<\h0031, \hC0B3, R, 2, FALSE>>, <<0, 0, {}, 0, TRUE>> >>

ControlPasses(r) ==
  LET i == D!Decode(r[1], r[2])
  IN  Signals(i) = r[3] /\ D!ControlUnit(i).ALUOps = r[4] /\ i.zero = r[5]

----------------------------------------------------------------------------
\* The clocked units: en is PCEnable or RegWriteEnable, half a half_tick.

\* tb_PC.cpp: what it drives and the PC it expects.
PCRow(en, areset, address, load, halt, half, out) ==
  [en |-> en, areset |-> areset, address |-> address, load |-> load, halt |-> halt,
   half |-> half, out |-> out]

PCRows ==
  << PCRow(TRUE, FALSE, 8, TRUE, FALSE, TRUE, 8),
     PCRow(TRUE, TRUE, \h12, TRUE, FALSE, TRUE, 0),
     PCRow(TRUE, FALSE, \h12, FALSE, FALSE, TRUE, 4),
     PCRow(TRUE, FALSE, \h12, FALSE, FALSE, TRUE, 4),
     PCRow(TRUE, FALSE, \h12, FALSE, FALSE, FALSE, 8),
     PCRow(FALSE, FALSE, \h12, FALSE, FALSE, FALSE, 8),
     PCRow(TRUE, FALSE, \h24, TRUE, FALSE, FALSE, \h24),
     PCRow(TRUE, FALSE, \h32, TRUE, TRUE, FALSE, \h24) >>

\* tb_RegFile.cpp: what it drives and the two words it expects to read.
RegRow(en, areset, data, write, read1, read2, half, out1, out2) ==
  [en |-> en, areset |-> areset, data |-> data, write |-> write, read1 |-> read1,
   read2 |-> read2, half |-> half, out1 |-> out1, out2 |-> out2]

RegRows ==
  << RegRow(FALSE, FALSE, 8, 1, 0, 1, FALSE, 0, 0),
     RegRow(FALSE, FALSE, \h12, 1, 4, 17, FALSE, 0, 0),
     RegRow(TRUE, FALSE, \h16, 17, 4, 17, TRUE, 0, \h16),
     RegRow(TRUE, FALSE, 8, 4, 4, 17, TRUE, 0, \h16),
     RegRow(FALSE, FALSE, 8, 4, 4, 17, FALSE, 0, \h16),
     RegRow(TRUE, FALSE, \h21, 4, 4, 17, FALSE, \h21, \h16),
     RegRow(FALSE, FALSE, \h21, 0, 0, 1, FALSE, 0, 0),
     RegRow(TRUE, FALSE, \h21, 0, 0, 1, TRUE, 0, 0),
     RegRow(TRUE, FALSE, \h21, 1, 0, 1, TRUE, 0, 0),
     RegRow(TRUE, FALSE, \h21, 1, 0, 1, TRUE, 0, \h21),
     RegRow(TRUE, TRUE, \h21, 1, 0, 1, TRUE, 0, 0),
     RegRow(FALSE, FALSE, \h21, 4, 4, 17, TRUE, 0, 0) >>

Rows ==
  [b \in {"ALU", "ALUControlUnit", "ImmGen", "ControlUnit", "PC", "RegFile"} |->
     CASE b = "ALU" -> ALURows         [] b = "ALUControlUnit" -> ALUControlRows
       [] b = "ImmGen" -> ImmGenRows   [] b = "ControlUnit" -> ControlRows
       [] b = "PC" -> PCRows           [] b = "RegFile" -> RegRows]

\* Verilator starts every flip-flop at 0.
Init ==
  /\ bench \in DOMAIN Rows /\ row = 0
  /\ clk = FALSE /\ pc = 0 /\ regs = D!ZeroRegs

\* A slip: flip-flops that take their inputs on both edges.
RisesAlways(half) == TRUE

\* half_tick turns the clock once, tick twice: it rises in either but in a
\* half tick from high.
Rises(half) == ~half \/ ~clk

\* The asynchronous reset acts whatever the clock does.
DrivePC(r) ==
  /\ bench = "PC"
  /\ clk' = IF r.half THEN ~clk ELSE clk
  /\ pc' = IF r.areset THEN 0
           ELSE D!NextPC(pc, r.en /\ Rises(r.half), r.halt, r.load, r.address)
  /\ UNCHANGED regs

DriveRegFile(r) ==
  /\ bench = "RegFile"
  /\ clk' = IF r.half THEN ~clk ELSE clk
  /\ regs' = IF r.areset THEN D!ZeroRegs
             ELSE D!WriteReg(regs, r.en /\ Rises(r.half), r.write, r.data)
  /\ UNCHANGED pc

DriveCombinational ==
  /\ bench \notin {"PC", "RegFile"}
  /\ UNCHANGED <<clk, pc, regs>>

Drive ==
  /\ row < Len(Rows[bench])
  /\ row' = row + 1
  /\ UNCHANGED bench
  /\ \/ DriveCombinational
     \/ DrivePC(Rows[bench][row + 1])
     \/ DriveRegFile(Rows[bench][row + 1])

----------------------------------------------------------------------------
\* Every unit bench passes, row by row, on the units as they are modelled: a
\* table with a reset in the middle of a clock period and writes driven
\* across the falling edge among them.
BenchesPass ==
  row > 0 =>
    LET r == Rows[bench][row]
    IN  CASE bench = "ALU" -> ALUPasses(r)
          [] bench = "ALUControlUnit" -> ALUControlPasses(r)
          [] bench = "ImmGen" -> ImmGenPasses(r)
          [] bench = "ControlUnit" -> ControlPasses(r)
          [] bench = "PC" -> pc = r.out
          [] bench = "RegFile" -> D!ReadReg(regs, r.read1) = r.out1 /\ D!ReadReg(regs, r.read2) = r.out2
=============================================================================
