------------------------------- MODULE Bench -------------------------------
(* The CPU of verilog/rtl in the simulation bench of tb/tb_CPU.cpp.  The    *)
(* same two-cycle main.sv as on the board (with an enable input and the     *)
(* ten-operation ALU), but memories that answer combinationally: the bench  *)
(* recomputes imem_data and dmem_rdata after every clock tick, and performs *)
(* a store in the tick that BEGINS the execute cycle.                       *)
EXTENDS Datapath, RtlALU

CONSTANTS
  Instr,           \* the instructions a ROM may contain
  ROMWORDS,        \* words of the mock ROM (256 in the bench)
  RAMWORDS,        \* words of the mock RAM (256 in the bench)
  InitialRoms,     \* the programs to run
  EnableInputs     \* values the bench drives on enable: tb_CPU.cpp only TRUE

ROMIdx == 0 .. ROMWORDS - 1
RAMIdx == 0 .. RAMWORDS - 1

ASSUME BenchAssumption ==
  /\ Instr \subseteq Instruction
  /\ ROMWORDS \in Nat /\ ROMWORDS > 0
  /\ RAMWORDS \in Nat /\ RAMWORDS > 0
  /\ InitialRoms \subseteq [ROMIdx -> Instr]
  /\ EnableInputs \subseteq BOOLEAN

VARIABLES
  areset, execute_cycle, pc, regs, imem_data, dmem_rdata,   \* main.sv and its inputs
  rom, mem                                                  \* the bench's memories

vars == <<areset, execute_cycle, pc, regs, imem_data, dmem_rdata, rom, mem>>

----------------------------------------------------------------------------
\* The combinational signals of main.sv, for the registers r.
control == ControlUnit(imem_data)
halt    == imem_data.zero

ALUOutOf(r) ==
  ALU(ALUControlUnit(control.ALUOps, imem_data.funct3, Funct7Bit5(imem_data)),
      ReadReg(r, imem_data.rs1), ALUSrcB(imem_data, r))

ALUOut       == ALUOutOf(regs)
load_address == LoadAddress(imem_data, ALUOut)

\* What PC and RegFile become at a clock edge in the execute cycle.
PCAfter ==
  NextPC(pc, TRUE, halt, load_address, AddressToLoad(imem_data, pc))

RegsAfter ==
  WriteReg(regs, control.RegWrite, imem_data.rd, WriteData(imem_data, ALUOut, dmem_rdata))

----------------------------------------------------------------------------
\* Slips: a ROM read before the tick, and a RAM that takes the byte address.
RomEvalBehind(address) == rom[WordAddress(pc, ROMWORDS)]

RamTickByteAddress(r, e) ==
  LET addr == ALUOutOf(r)
  IN  /\ mem' = IF control.MemWrite /\ e /\ addr \in RAMIdx
                  THEN [mem EXCEPT ![addr] = ReadReg(r, imem_data.rs2)] ELSE mem
      /\ dmem_rdata' = IF addr \in RAMIdx THEN mem'[addr] ELSE 0

\* rom_eval: the word at imem_addr = PC >> 2.  ROM[] has no bounds check in
\* the bench; here the instances let the PC address exactly the ROM.
RomEval(address) == rom[WordAddress(address, ROMWORDS)]

\* RAM::tick with the outputs of main.sv for the registers r in cycle e:
\* an address beyond the array is not written and reads as 0.
RamTick(r, e) ==
  LET addr == ALUOutOf(r) \div 4
  IN  /\ mem' = IF control.MemWrite /\ e /\ addr \in RAMIdx
                  THEN [mem EXCEPT ![addr] = ReadReg(r, imem_data.rs2)] ELSE mem
      /\ dmem_rdata' = IF addr \in RAMIdx THEN mem'[addr] ELSE 0

----------------------------------------------------------------------------
\* The bench after the first statements of TestBench::reset (areset = 1, a
\* clock tick), on zeroed memories and with imem_data not driven yet.
Init ==
  /\ areset = TRUE
  /\ execute_cycle = FALSE
  /\ pc = 0
  /\ regs = ZeroRegs
  /\ rom \in InitialRoms
  /\ mem = [a \in RAMIdx |-> 0]
  /\ imem_data \in {i \in Instr : i.zero}
  /\ dmem_rdata = 0

\* The same in the middle of a run.
BeginReset ==
  /\ ~areset
  /\ areset' = TRUE
  /\ execute_cycle' = FALSE
  /\ pc' = 0
  /\ regs' = ZeroRegs
  /\ UNCHANGED <<rom, mem, imem_data, dmem_rdata>>

\* areset = 0, then the rom_eval of tb_CPU.cpp's main.
EndReset ==
  /\ areset
  /\ areset' = FALSE
  /\ imem_data' = RomEval(pc)
  /\ UNCHANGED <<execute_cycle, pc, regs, rom, mem, dmem_rdata>>

\* tb.tick, rom_eval, ram.tick: half of cpu_tick.  enable gates the cycle
\* counter and the PC, and neither the register write nor the store.
Tick(enable) ==
  /\ ~areset
  /\ execute_cycle' = IF enable THEN ~execute_cycle ELSE execute_cycle
  /\ pc' = IF enable /\ execute_cycle THEN PCAfter ELSE pc
  /\ regs' = IF execute_cycle THEN RegsAfter ELSE regs
  /\ imem_data' = RomEval(pc')
  /\ RamTick(regs', execute_cycle')
  /\ UNCHANGED <<areset, rom>>

Next == BeginReset \/ EndReset \/ \E enable \in EnableInputs : Tick(enable)

Spec     == Init /\ [][Next]_vars
FairSpec == Spec /\ WF_vars(EndReset \/ \E enable \in EnableInputs : Tick(enable))

----------------------------------------------------------------------------
\* Every register and memory word holds a value of its width.
TypeOK ==
  /\ areset \in BOOLEAN
  /\ execute_cycle \in BOOLEAN
  /\ pc \in Word
  /\ regs \in [RegIdx -> Word]
  /\ rom \in [ROMIdx -> Instr]
  /\ mem \in [RAMIdx -> Word]
  /\ imem_data \in Instr
  /\ dmem_rdata \in Word

\* Outside reset the bench presents the instruction at PC and, for a load in
\* its execute cycle, the word at the load's address: no edge separates the
\* address from the data (tb_CPU.cpp: "Drive read data combinationally").
InputsCurrent ==
  /\ ~areset => imem_data = RomEval(pc)
  /\ execute_cycle /\ control.MemRead /\ ALUOut \div 4 \in RAMIdx
       => dmem_rdata = mem[ALUOut \div 4]

\* The bench commits an instruction in the tick that begins its execute
\* cycle: from there on the abstract PC and registers are the ones the tick
\* that ends it will write.
Abstract == INSTANCE ISA WITH
  held    <- areset,
  program <- rom,
  pc      <- IF execute_cycle THEN PCAfter ELSE pc,
  regs    <- IF execute_cycle THEN RegsAfter ELSE regs

\* The simulated CPU implements the instruction set, loads from any address
\* included, as long as enable stays 1, no JAL keeps a return address and no
\* load or store names an address beyond the array of the RAM.
ImplementsISA == Abstract!Spec

Conditions == EnableInputs = {TRUE} /\ \A i \in Instr : Listed(i)

InRange ==
  ~areset /\ ~execute_cycle /\ (control.MemRead \/ control.MemWrite) => ALUOut \div 4 \in RAMIdx

----------------------------------------------------------------------------
\* Assertion Pc4_check of assertions/PC_assert.sv, on the PC of this CPU.
Pc4_check ==
  [][ \A enable \in EnableInputs :
        Tick(enable) /\ enable /\ execute_cycle /\ ~load_address => pc' = Trunc(pc + 4) ]_vars

\* "rd = PC + 4; PC += imm", the JAL operation of r32i_base_instruction.yaml.
JAL_operation ==
  [][ execute_cycle /\ ~areset' /\ control.Jump /\ imem_data.rd # 0 /\ pc' # pc
        => regs'[imem_data.rd] = Trunc(pc + 4) ]_vars
=============================================================================
