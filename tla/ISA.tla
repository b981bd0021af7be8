-------------------------------- MODULE ISA --------------------------------
(* What the instruction set table promises (utils/r32i_base_instruction.yaml *)
(* and the package generated from it): one instruction per step, each       *)
(* mnemonic an action written from its "operation" string.  Programs and    *)
(* data are loaded while the machine is held in reset, and the all-zero     *)
(* word halts it.  No clock, no cycles, no latches: the specification that  *)
(* the board and the simulated CPU are checked to implement.                *)
EXTENDS Datapath, BitOps

CONSTANTS
  Instr,       \* the instructions a program may contain
  ROMWORDS,    \* words of program memory
  RAMWORDS     \* words of data memory

VARIABLES
  held,        \* the machine is held in reset
  program,     \* the program memory
  pc,
  regs,
  mem

vars == <<held, program, pc, regs, mem>>

ProgramIdx == 0 .. ROMWORDS - 1
MemIdx     == 0 .. RAMWORDS - 1

Init ==
  /\ held \in BOOLEAN
  /\ program \in [ProgramIdx -> Instr]
  /\ pc = 0
  /\ regs = ZeroRegs
  /\ mem \in [MemIdx -> Word]

Reset ==
  /\ held' = TRUE
  /\ pc' = 0
  /\ regs' = ZeroRegs
  /\ UNCHANGED <<program, mem>>

Load ==
  /\ held
  /\ program' \in [ProgramIdx -> Instr]
  /\ mem' \in [MemIdx -> Word]
  /\ UNCHANGED <<held, pc, regs>>

Release ==
  /\ held
  /\ held' = FALSE
  /\ UNCHANGED <<program, pc, regs, mem>>

----------------------------------------------------------------------------
\* The instruction at pc and its source operands.
i   == program[WordAddress(pc, ROMWORDS)]
rs1 == ReadReg(regs, i.rs1)
rs2 == ReadReg(regs, i.rs2)

Matches(opcode, funct3)          == ~i.zero /\ i.opcode = opcode /\ i.funct3 = funct3
MatchesR(opcode, funct3, funct7) == Matches(opcode, funct3) /\ i.funct7 = funct7

\* "rd = value", PC moving to the next instruction.
SetRd(value) ==
  /\ regs' = WriteReg(regs, TRUE, i.rd, value)
  /\ pc' = Trunc(pc + 4)
  /\ mem' = mem

\* "if (condition) PC += imm".
Branch(condition) ==
  /\ pc' = Trunc(pc + (IF condition THEN i.Bimm ELSE 4))
  /\ UNCHANGED <<regs, mem>>

ADD  == MatchesR(Rtype, 0, 0)  /\ SetRd(Trunc(rs1 + rs2))
SUB  == MatchesR(Rtype, 0, 32) /\ SetRd(Trunc(rs1 - rs2))
AND  == MatchesR(Rtype, 7, 0)  /\ SetRd(BitAnd(rs1, rs2))
OR   == MatchesR(Rtype, 6, 0)  /\ SetRd(BitOr(rs1, rs2))
XOR  == MatchesR(Rtype, 4, 0)  /\ SetRd(BitXor(rs1, rs2))
ADDI == Matches(Itype, 0)      /\ SetRd(Trunc(rs1 + i.Iimm))
LW   == Matches(LoadType, 2)   /\ SetRd(mem[WordAddress(Trunc(rs1 + i.Iimm), RAMWORDS)])
BEQ  == Matches(Btype, 0)      /\ Branch(rs1 = rs2)
BNE  == Matches(Btype, 1)      /\ Branch(rs1 # rs2)

SW ==
  /\ Matches(Stype, 2)
  /\ mem' = [mem EXCEPT ![WordAddress(Trunc(rs1 + i.Simm), RAMWORDS)] = rs2]
  /\ pc' = Trunc(pc + 4)
  /\ regs' = regs

JAL ==
  /\ ~i.zero /\ i.opcode = Jtype
  /\ regs' = WriteReg(regs, TRUE, i.rd, Trunc(pc + 4))
  /\ pc' = Trunc(pc + i.Jimm)
  /\ mem' = mem

Execute ==
  /\ ~held
  /\ ADD \/ SUB \/ AND \/ OR \/ XOR \/ ADDI \/ LW \/ SW \/ BEQ \/ BNE \/ JAL
  /\ UNCHANGED <<held, program>>

Next == Reset \/ Load \/ Release \/ Execute

Spec     == Init /\ [][Next]_vars
FairSpec == Spec /\ WF_vars(Execute)
=============================================================================
