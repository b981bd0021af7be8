------------------------------- MODULE Board -------------------------------
(* The CPU on the DE1-SoC board: altera-DE1-SoC/main.sv with its two block  *)
(* RAMs and the processor system (HPS) that loads programs into them.       *)
(* The CPU takes two clock edges per instruction.  On the edge that ends a  *)
(* fetch cycle the ROM captures the word at PC; on the edge that ends an    *)
(* execute cycle PC, RegFile and RAM take their new values.  Both memories  *)
(* register their address, so each output shows what its address inputs     *)
(* named at the LAST edge.                                                  *)
EXTENDS Datapath, BoardALU

CONSTANTS
  Instr,             \* the instructions that may ever be in the ROM
  ROMWORDS,          \* words of onchip_memory2_1 (4096 on the board)
  RAMWORDS,          \* words of onchip_memory2_0 (8192 on the board)
  HaltWord,          \* the all-zero instruction
  Roms,              \* the contents the ROM may have, programs all of them
  HostRomWrites,     \* what the HPS may write to the ROM in one clock
  HostRamWrites,     \* and to the RAM: functions from one address to a word
  LoadWhileRunning   \* whether the HPS also writes while the CPU runs

ROMIdx == 0 .. ROMWORDS - 1
RAMIdx == 0 .. RAMWORDS - 1

ASSUME BoardAssumption ==
  /\ Instr \subseteq Instruction
  /\ ROMWORDS \in Nat /\ ROMWORDS > 0
  /\ RAMWORDS \in Nat /\ RAMWORDS > 0
  /\ HaltWord \in Instr /\ HaltWord.zero
  /\ Roms \subseteq [ROMIdx -> Instr]
  /\ \A w \in HostRomWrites : DOMAIN w \subseteq ROMIdx /\ \A a \in DOMAIN w : w[a] \in Instr
  /\ \A p \in Roms, w \in HostRomWrites :
       [a \in ROMIdx |-> IF a \in DOMAIN w THEN w[a] ELSE p[a]] \in Roms
  /\ \A w \in HostRamWrites : DOMAIN w \subseteq RAMIdx /\ \A a \in DOMAIN w : w[a] \in Word
  /\ LoadWhileRunning \in BOOLEAN

VARIABLES
  areset,          \* KEY[1] is pressed
  execute_cycle,
  pc,
  regs,
  rom,
  ram,
  imem_data,       \* output of the ROM's CPU port
  dmem_rdata       \* output of the RAM's CPU port

vars == <<areset, execute_cycle, pc, regs, rom, ram, imem_data, dmem_rdata>>

----------------------------------------------------------------------------
\* The combinational signals of main.sv.
control == ControlUnit(imem_data)
halt    == imem_data.zero

ReadRegOut1 == ReadReg(regs, imem_data.rs1)
ReadRegOut2 == ReadReg(regs, imem_data.rs2)

ALUOut ==
  ALU(ALUControlUnit(control.ALUOps, imem_data.funct3, Funct7Bit5(imem_data)),
      ReadRegOut1, ALUSrcB(imem_data, regs))

imem_addr == WordAddress(pc, ROMWORDS)
dmem_addr == WordAddress(ALUOut, RAMWORDS)
dmem_we   == control.MemWrite /\ execute_cycle
LED       == halt

----------------------------------------------------------------------------
\* A block RAM with two ports on one clock.  host is what port s1 writes at
\* the edge, cpu what port s2 writes: functions from the written address to
\* the datum, None when the port does not write.  Two writes to one address
\* leave an unknown word there; a read on s2 returns what s2 itself writes,
\* else an unknown word if s1 writes the address, else the word stored.
None == [a \in {} |-> 0]

Stored(mem, host, cpu, unknown) ==
  [a \in DOMAIN mem |->
     IF a \in DOMAIN host THEN IF a \in DOMAIN cpu THEN unknown ELSE host[a]
                          ELSE IF a \in DOMAIN cpu THEN cpu[a] ELSE mem[a]]

Output(mem, a, host, cpu, unknown) ==
  IF a \in DOMAIN cpu THEN cpu[a] ELSE IF a \in DOMAIN host THEN unknown ELSE mem[a]

StoreToRam == IF dmem_we THEN [a \in {dmem_addr} |-> ReadRegOut2] ELSE None

----------------------------------------------------------------------------
Init ==
  /\ areset \in BOOLEAN
  /\ execute_cycle = FALSE
  /\ pc = 0
  /\ regs = ZeroRegs
  /\ rom \in Roms
  /\ ram = [a \in RAMIdx |-> 0]
  /\ imem_data = HaltWord
  /\ dmem_rdata = 0

\* A rising edge of CLOCK_50, on which the HPS writes toRom and toRam.  The
\* asynchronous reset holds the CPU's registers and not the memories.
Edge(toRom, toRam, unknownInstr, unknownWord) ==
  /\ execute_cycle' = (~areset /\ ~execute_cycle)
  /\ IF areset
       THEN UNCHANGED <<pc, regs>>
       ELSE /\ pc' = NextPC(pc, execute_cycle, halt,
                            LoadAddress(imem_data, ALUOut) /\ execute_cycle,
                            AddressToLoad(imem_data, pc))
            /\ regs' = WriteReg(regs, control.RegWrite /\ execute_cycle, imem_data.rd,
                                WriteData(imem_data, ALUOut, dmem_rdata))
  /\ rom' = Stored(rom, toRom, None, unknownInstr)
  /\ ram' = Stored(ram, toRam, StoreToRam, unknownWord)
  /\ imem_data' = Output(rom, imem_addr, toRom, None, unknownInstr)
  /\ dmem_rdata' = Output(ram, dmem_addr, toRam, StoreToRam, unknownWord)
  /\ UNCHANGED areset

Posedge == Edge(None, None, HaltWord, 0)

PosedgeWithHostWrite ==
  /\ areset \/ LoadWhileRunning
  /\ \E toRom \in HostRomWrites \cup {None}, toRam \in HostRamWrites \cup {None} :
       \E unknownInstr \in IF imem_addr \in DOMAIN toRom THEN Instr ELSE {HaltWord},
          unknownWord \in IF dmem_addr \in DOMAIN toRam THEN Word ELSE {0} :
         /\ toRom # None \/ toRam # None
         /\ Edge(toRom, toRam, unknownInstr, unknownWord)

\* Slips: a reset that leaves the cycle, or the registers, as they are.
PressKeepsCycle ==
  /\ ~areset
  /\ areset' = TRUE
  /\ pc' = 0
  /\ regs' = ZeroRegs
  /\ UNCHANGED <<execute_cycle, rom, ram, imem_data, dmem_rdata>>

PressKeepsRegs ==
  /\ ~areset
  /\ areset' = TRUE
  /\ execute_cycle' = FALSE
  /\ pc' = 0
  /\ UNCHANGED <<regs, rom, ram, imem_data, dmem_rdata>>

\* KEY[1] goes down: the asynchronous reset acts at once.
Press ==
  /\ ~areset
  /\ areset' = TRUE
  /\ execute_cycle' = FALSE
  /\ pc' = 0
  /\ regs' = ZeroRegs
  /\ UNCHANGED <<rom, ram, imem_data, dmem_rdata>>

Release ==
  /\ areset
  /\ areset' = FALSE
  /\ UNCHANGED <<execute_cycle, pc, regs, rom, ram, imem_data, dmem_rdata>>

Next == Posedge \/ PosedgeWithHostWrite \/ Press \/ Release

\* The oscillator never stops.
Fairness == WF_vars(Posedge \/ PosedgeWithHostWrite)

Spec     == Init /\ [][Next]_vars
FairSpec == Spec /\ Fairness

----------------------------------------------------------------------------
\* Every register and memory word holds a value of its width.
TypeOK ==
  /\ areset \in BOOLEAN
  /\ execute_cycle \in BOOLEAN
  /\ pc \in Word
  /\ regs \in [RegIdx -> Word]
  /\ rom \in [ROMIdx -> Instr]
  /\ ram \in [RAMIdx -> Word]
  /\ imem_data \in Instr
  /\ dmem_rdata \in Word

\* What the CPU executes is what the ROM holds at PC (main.sv: "Instruction
\* is valid" in the execute cycle), whatever was reloaded during reset.
FetchCoherent == execute_cycle => imem_data = rom[imem_addr]

----------------------------------------------------------------------------
(* The instruction set as the board implements it: the registers, the PC    *)
(* and the two memories of the code ARE the abstract ones.                  *)
Abstract == INSTANCE ISA WITH held <- areset, program <- rom, mem <- ram

\* Which programs the board executes as the instruction set says.  Besides
\* being Listed, every load comes right behind an instruction that leaves the
\* load's address on the ALU's output (a store to the same place, say), since
\* the RAM captured its address before the load was on imem_data.
Prepares(i, load) ==
  /\ Is(i, {Itype, LoadType, Stype})
  /\ i.rs1 = load.rs1
  /\ ImmOut(i) = load.Iimm

LoadsArePrepared(p) ==
  /\ ~Is(p[0], {LoadType})
  /\ \A a \in Word :
       LET here   == p[WordAddress(a, ROMWORDS)]
           next   == p[WordAddress(Trunc(a + 4), ROMWORDS)]
           target == p[WordAddress(AddressToLoad(here, a), ROMWORDS)]
       IN  /\ Is(next, {LoadType}) => here.zero \/ Is(here, {Jtype}) \/ Prepares(here, next)
           /\ Is(here, {Btype, Jtype}) => ~Is(target, {LoadType})

\* These, and an HPS that loads during a reset only, are the conditions.
Conditions ==
  /\ LoadWhileRunning = FALSE
  /\ \A i \in Instr : Listed(i)
  /\ \A p \in Roms : LoadsArePrepared(p)

\* The board implements the instruction set for such programs: every edge is
\* one whole instruction or invisible, under any pattern of resets (and of
\* loads during a reset); with the clock running, execution also goes on
\* until a halt or a reset (altera-DE1-SoC/main.sv as a whole).
ImplementsISA     == Abstract!Spec
ImplementsFairISA == Abstract!FairSpec

\* "rd = M[ rs1 + imm ]", the LW operation of r32i_base_instruction.yaml, for
\* a load wherever the program has it.
LW_operation ==
  [][ execute_cycle /\ ~areset' /\ control.MemRead /\ imem_data.rd # 0
        => regs'[imem_data.rd] = ram[dmem_addr] ]_vars
=============================================================================
