------------------------------ MODULE Datapath ------------------------------
(* The combinational units both CPUs of the repository share (ControlUnit,  *)
(* ImmGen, the RegFile's ports, the PC's next value) and the multiplexers   *)
(* of main.sv.  verilog/rtl and altera-DE1-SoC differ in the ALU only, so   *)
(* the operators that depend on it take ALUOut as an argument.              *)
(*                                                                          *)
(* An instruction is the record of the fields the wires of main.sv, the     *)
(* ControlUnit and the ImmGen take from imem_data; Decoder.tla builds it    *)
(* from the 32 bits.                                                        *)
EXTENDS Words

CONSTANT NREG    \* registers in the RegFile: 32 in the code

ASSUME RegisterAssumption == NREG \in Nat /\ NREG > 0

RegIdx == 0 .. NREG - 1

\* zero: the whole word is 0.  The four immediates are sign-extended to XLEN.
Instruction ==
  [zero: BOOLEAN, opcode: 0 .. 127, rd: RegIdx, funct3: 0 .. 7, rs1: RegIdx,
   rs2: RegIdx, funct7: 0 .. 127, Iimm: Word, Simm: Word, Bimm: Word, Jimm: Word]

\* The opcodes the ControlUnit knows.
Rtype    == 51
Itype    == 19
Stype    == 35
Btype    == 99
Jtype    == 111
LoadType == 3

\* halt_detected keeps every control signal at its default; so does an
\* unknown opcode, which makes the instruction a no-operation.
Is(i, opcodes) == ~i.zero /\ i.opcode \in opcodes

ControlUnit(i) ==
  [ALUOps   |-> IF Is(i, {Rtype}) THEN 2 ELSE IF Is(i, {Btype}) THEN 1 ELSE 0,
   ALUSrc   |-> Is(i, {Itype, LoadType, Stype, Jtype}),
   MemWrite |-> Is(i, {Stype}),
   RegWrite |-> Is(i, {Rtype, Itype, LoadType, Jtype}),
   MemRead  |-> Is(i, {LoadType}),
   MemtoReg |-> Is(i, {LoadType}),
   Branch   |-> Is(i, {Btype}),
   Jump     |-> Is(i, {Jtype})]

Funct7Bit5(i) == (i.funct7 \div 32) % 2

\* A slip to tell from ImmOut: ImmSel1 = MemWrite, without the Jump.
ImmOutWithoutJump(i) ==
  LET cu == ControlUnit(i)
  IN  IF cu.Branch \/ cu.Jump THEN i.Bimm ELSE IF cu.MemWrite THEN i.Simm ELSE i.Iimm

ImmOut(i) ==
  LET cu      == ControlUnit(i)
      ImmSel1 == cu.Jump \/ cu.MemWrite
      ImmSel2 == cu.Branch \/ cu.Jump
  IN  IF ImmSel2 THEN IF ImmSel1 THEN i.Jimm ELSE i.Bimm
                 ELSE IF ImmSel1 THEN i.Simm ELSE i.Iimm

\* The RegFile: x0 reads as 0 and is never written.
ZeroRegs == [r \in RegIdx |-> 0]

ReadReg(regs, a) == IF a = 0 THEN 0 ELSE regs[a]

WriteReg(regs, RegWriteEnable, a, data) ==
  IF RegWriteEnable /\ a # 0 THEN [regs EXCEPT ![a] = data] ELSE regs

\* The multiplexers of main.sv.
ALUSrcB(i, regs) ==
  IF ControlUnit(i).ALUSrc THEN ImmOut(i) ELSE ReadReg(regs, i.rs2)

WriteData(i, ALUOut, dmem_rdata) ==
  IF ControlUnit(i).MemtoReg THEN dmem_rdata ELSE ALUOut

\* Slips: bit 12 ignored, and the exclusive or turned round.
BranchTakenOnZero(i, ALUOut)  == ALUOut = 0
BranchTakenInverted(i, ALUOut) == (ALUOut = 0) = (i.funct3 % 2 = 1)

\* BranchTaken = ALUZero ^ imem_data[12], and bit 12 is the low bit of funct3.
BranchTaken(i, ALUOut) == (ALUOut = 0) # (i.funct3 % 2 = 1)

\* A slip: every branch is taken.
LoadAddressAlways(i, ALUOut) == ControlUnit(i).Jump \/ ControlUnit(i).Branch

LoadAddress(i, ALUOut) ==
  LET cu == ControlUnit(i)
  IN  cu.Jump \/ (cu.Branch /\ BranchTaken(i, ALUOut))

AddressToLoad(i, pc) == Trunc(pc + ImmOut(i))

\* Slips: a PC that a halt does not hold, and one that does not wrap.
NextPCWithoutHalt(pc, PCEnable, halt, load_address, address_to_load) ==
  IF ~PCEnable THEN pc ELSE IF load_address THEN address_to_load ELSE Trunc(pc + 4)

NextPCWithoutWrap(pc, PCEnable, halt, load_address, address_to_load) ==
  IF PCEnable /\ ~halt THEN IF load_address THEN address_to_load ELSE pc + 4 ELSE pc

\* The PC: held without PCEnable and on a halt, which beats load_address.
NextPC(pc, PCEnable, halt, load_address, address_to_load) ==
  IF PCEnable /\ ~halt
    THEN IF load_address THEN address_to_load ELSE Trunc(pc + 4)
    ELSE pc

\* What both CPUs execute as the instruction set table says: the mnemonics it
\* lists, and a JAL that keeps no return address.
Listed(i) ==
  \/ i.zero
  \/ i.opcode = Rtype /\ <<i.funct3, i.funct7>> \in {<<0, 0>>, <<0, 32>>, <<4, 0>>, <<6, 0>>, <<7, 0>>}
  \/ i.opcode = Itype /\ i.funct3 = 0
  \/ i.opcode = LoadType /\ i.funct3 = 2
  \/ i.opcode = Stype /\ i.funct3 = 2
  \/ i.opcode = Btype /\ i.funct3 \in {0, 1}
  \/ i.opcode = Jtype /\ i.rd = 0

\* A memory of n words sees the low bits of byte address / 4.
WordAddress(a, n) == (a \div 4) % n
=============================================================================
