--------------------------- MODULE BoardTheorems ---------------------------
(* The board for every width, register count, memory size, program and host *)
(* behaviour: its invariants, and that every step of it is a step of the    *)
(* instruction set or leaves the instruction set's state alone.             *)
EXTENDS Mailbox, DatapathTheorems

----------------------------------------------------------------------------
(* The combinational signals have their types in every well-typed state.    *)

\* The board's ALU returns a word whatever operation it is given.
LEMMA ALUType ==
  ASSUME NEW op, NEW x \in Word, NEW y \in Word
  PROVE  ALU(op, x, y) \in Word
<1>1. x \in Int /\ y \in Int
  BY WidthAssumption DEF Word, Radix
<1>2. Trunc(x + y) \in Word /\ Trunc(x - y) \in Word
  BY <1>1, TruncType
<1> QED
  BY <1>2, BitwiseType, ZeroIsWord DEF ALU

\* In a well-typed state every wire of main.sv carries a word, an index or an instruction.
LEMMA SignalTypes ==
  ASSUME TypeOK
  PROVE  /\ imem_data \in Instruction
         /\ ReadRegOut1 \in Word /\ ReadRegOut2 \in Word
         /\ ALUOut \in Word
         /\ imem_addr \in ROMIdx /\ dmem_addr \in RAMIdx
         /\ AddressToLoad(imem_data, pc) \in Word
         /\ WriteData(imem_data, ALUOut, dmem_rdata) \in Word
<1> USE DEF TypeOK
<1>1. imem_data \in Instruction
  BY BoardAssumption
<1>2. imem_data.rs1 \in RegIdx /\ imem_data.rs2 \in RegIdx
  BY <1>1 DEF Instruction
<1>3. ReadRegOut1 \in Word /\ ReadRegOut2 \in Word
  BY <1>2, ReadRegType DEF ReadRegOut1, ReadRegOut2
<1>4. ImmOut(imem_data) \in Word
  BY <1>1, ImmOutType
<1>5. ALUSrcB(imem_data, regs) \in Word
  BY <1>2, <1>4, ReadRegType DEF ALUSrcB
<1>6. ALUOut \in Word
  BY <1>3, <1>5, ALUType DEF ALUOut
<1>7. imem_addr \in ROMIdx /\ dmem_addr \in RAMIdx
  BY <1>6, BoardAssumption, WordAddressType DEF imem_addr, dmem_addr, ROMIdx, RAMIdx
<1>8. AddressToLoad(imem_data, pc) \in Word
  <2>1. pc + ImmOut(imem_data) \in Int
    BY <1>4 DEF Word
  <2> QED
    BY <2>1, TruncType DEF AddressToLoad
<1>9. WriteData(imem_data, ALUOut, dmem_rdata) \in Word
  BY <1>6 DEF WriteData
<1> QED
  BY <1>1, <1>3, <1>6, <1>7, <1>8, <1>9

(* What an edge does to the state, whichever words the HPS writes on it.    *)
LEMMA EdgeType ==
  ASSUME TypeOK,
         NEW toRom, NEW toRam, NEW unknownInstr \in Instr, NEW unknownWord \in Word,
         \A a \in DOMAIN toRom : toRom[a] \in Instr,
         \A a \in DOMAIN toRam : toRam[a] \in Word,
         Edge(toRom, toRam, unknownInstr, unknownWord)
  PROVE  TypeOK'
<1> USE DEF TypeOK
<1>1. areset' \in BOOLEAN /\ execute_cycle' \in BOOLEAN
  BY DEF Edge
<1>2. pc' \in Word
  <2>1. CASE areset
    BY <2>1 DEF Edge
  <2>2. CASE ~areset
    BY <2>2, SignalTypes, NextPCType DEF Edge
  <2> QED
    BY <2>1, <2>2
<1>3. regs' \in [RegIdx -> Word]
  <2>1. CASE areset
    BY <2>1 DEF Edge
  <2>2. CASE ~areset
    <3>1. imem_data.rd \in RegIdx
      BY SignalTypes DEF Instruction
    <3> QED
      BY <2>2, <3>1, SignalTypes, WriteRegType DEF Edge
  <2> QED
    BY <2>1, <2>2
<1>4. \A a \in DOMAIN None : FALSE
  BY DEF None
<1>5. rom' \in [ROMIdx -> Instr] /\ imem_data' \in Instr
  <2>1. rom' = Stored(rom, toRom, None, unknownInstr)
    BY DEF Edge
  <2>2. imem_data' = Output(rom, imem_addr, toRom, None, unknownInstr)
    BY DEF Edge
  <2> QED
    BY <1>4, <2>1, <2>2, SignalTypes DEF Stored, Output
<1>6. \A a \in DOMAIN StoreToRam : StoreToRam[a] \in Word
  BY <1>4, SignalTypes DEF StoreToRam
<1>7. ram' \in [RAMIdx -> Word] /\ dmem_rdata' \in Word
  <2>1. ram' = Stored(ram, toRam, StoreToRam, unknownWord)
    BY DEF Edge
  <2>2. dmem_rdata' = Output(ram, dmem_addr, toRam, StoreToRam, unknownWord)
    BY DEF Edge
  <2> QED
    BY <1>6, <2>1, <2>2, SignalTypes DEF Stored, Output
<1> QED
  BY <1>1, <1>2, <1>3, <1>5, <1>7

\* The registers after a reset are words.
LEMMA ZeroRegsType == ZeroRegs \in [RegIdx -> Word]
  BY ZeroIsWord DEF ZeroRegs

(* What the HPS may write on an edge is well typed, writing nothing included. *)
LEMMA HostWriteTypes ==
  /\ \A w \in HostRomWrites \cup {None} : \A a \in DOMAIN w : w[a] \in Instr
  /\ \A w \in HostRamWrites \cup {None} : \A a \in DOMAIN w : w[a] \in Word
  BY BoardAssumption DEF None

----------------------------------------------------------------------------
\* The board powers up well typed.
LEMMA InitTypeOK ==
  ASSUME Init
  PROVE  TypeOK
  BY BoardAssumption, ZeroIsWord, ZeroRegsType DEF Init, TypeOK

\* Every edge, and every move of KEY[1], keeps the board well typed.
LEMMA NextTypeOK ==
  ASSUME TypeOK, [Next]_vars
  PROVE  TypeOK'
<1>1. CASE Posedge
  <2>1. Edge(None, None, HaltWord, 0)
    BY <1>1 DEF Posedge
  <2>2. HaltWord \in Instr
    BY BoardAssumption
  <2> QED
    BY <2>1, <2>2, HostWriteTypes, ZeroIsWord, EdgeType
<1>2. CASE PosedgeWithHostWrite
  <2>1. PICK toRom \in HostRomWrites \cup {None}, toRam \in HostRamWrites \cup {None} :
          \E unknownInstr \in IF imem_addr \in DOMAIN toRom THEN Instr ELSE {HaltWord},
             unknownWord \in IF dmem_addr \in DOMAIN toRam THEN Word ELSE {0} :
            Edge(toRom, toRam, unknownInstr, unknownWord)
    BY <1>2 DEF PosedgeWithHostWrite
  <2>2. PICK unknownInstr \in Instr, unknownWord \in Word :
          Edge(toRom, toRam, unknownInstr, unknownWord)
    BY <2>1, ZeroIsWord, BoardAssumption
  <2> QED
    BY <2>2, HostWriteTypes, EdgeType
<1>3. CASE Press
  BY <1>3, ZeroIsWord, ZeroRegsType DEF Press, TypeOK
<1>4. CASE Release
  BY <1>4 DEF Release, TypeOK
<1>5. CASE UNCHANGED vars
  BY <1>5 DEF vars, TypeOK
<1> QED
  BY <1>1, <1>2, <1>3, <1>4, <1>5 DEF Next

(* Registers, memories and memory outputs hold words of their width for     *)
(* ever, whatever the HPS writes and whenever KEY[1] is pressed.            *)
THEOREM TypeCorrect == Spec => []TypeOK
<1>1. Init => TypeOK
  BY InitTypeOK
<1>2. TypeOK /\ [Next]_vars => TypeOK'
  BY NextTypeOK
<1> QED
  BY <1>1, <1>2, PTL DEF Spec

----------------------------------------------------------------------------
(* The instruction in the execute cycle is the one the ROM holds at PC.     *)

\* FetchCoherent alone is not inductive: a reload needs the reset, and the
\* reset must not leave the CPU in its execute cycle.
FetchInv == (execute_cycle => ~areset) /\ FetchCoherent

(* A block RAM on which neither port writes keeps its words and shows the   *)
(* addressed one.                                                           *)
LEMMA QuietMemory ==
  ASSUME NEW D, NEW R, NEW mem \in [D -> R], NEW a, NEW unknown
  PROVE  /\ Stored(mem, None, None, unknown) = mem
         /\ Output(mem, a, None, None, unknown) = mem[a]
<1>1. \A x : x \notin DOMAIN None
  BY DEF None
<1> QED
  BY <1>1 DEF Stored, Output

\* An edge enters the execute cycle with the word that the ROM holds at PC.
LEMMA PosedgeFetch ==
  ASSUME TypeOK, FetchInv, Posedge
  PROVE  FetchInv'
<1>1. Edge(None, None, HaltWord, 0)
  BY DEF Posedge
<1>2. execute_cycle' => ~areset' /\ ~areset /\ ~execute_cycle
  BY <1>1 DEF Edge
<1>3. ASSUME ~areset, ~execute_cycle PROVE imem_data' = rom'[imem_addr']
  <2>1. pc' = pc
    BY <1>1, <1>3 DEF Edge, NextPC
  <2>2. rom' = rom /\ imem_data' = rom[imem_addr]
    BY <1>1, QuietMemory DEF Edge, TypeOK
  <2> QED
    BY <2>1, <2>2 DEF imem_addr
<1> QED
  BY <1>2, <1>3 DEF FetchInv, FetchCoherent

(* If the HPS writes during a reset only, the execute cycle always runs the *)
(* word that the ROM holds at PC, whatever was loaded and however often     *)
(* KEY[1] interrupts (altera-DE1-SoC/main.sv's two-cycle control).          *)
THEOREM FetchIsCoherent ==
  ASSUME LoadWhileRunning = FALSE
  PROVE  Spec => []FetchCoherent
<1>1. Init => FetchInv
  BY DEF Init, FetchInv, FetchCoherent
<1>2. TypeOK /\ FetchInv /\ [Next]_vars => FetchInv'
  <2> SUFFICES ASSUME TypeOK, FetchInv, [Next]_vars PROVE FetchInv'
    OBVIOUS
  <2>1. CASE Posedge
    BY <2>1, PosedgeFetch
  <2>2. CASE PosedgeWithHostWrite
    <3>1. ~execute_cycle'
      BY <2>2 DEF PosedgeWithHostWrite, Edge
    <3> QED
      BY <3>1 DEF FetchInv, FetchCoherent
  <2>3. CASE Press
    BY <2>3 DEF Press, FetchInv, FetchCoherent
  <2>4. CASE Release
    BY <2>4 DEF Release, FetchInv, FetchCoherent, imem_addr
  <2>5. CASE UNCHANGED vars
    BY <2>5 DEF vars, FetchInv, FetchCoherent, imem_addr
  <2> QED
    BY <2>1, <2>2, <2>3, <2>4, <2>5 DEF Next
<1>3. FetchInv => FetchCoherent
  BY DEF FetchInv
<1> QED
  BY <1>1, <1>2, <1>3, TypeCorrect, PTL DEF Spec

(* An HPS that also writes while the CPU runs: if no write hits, on the edge *)
(* that ends a fetch cycle, the very word the ROM is then reading.          *)
SparesFetch(toRom) == areset \/ execute_cycle \/ imem_addr \notin DOMAIN toRom

CarefulHostWrite ==
  \E toRom \in HostRomWrites \cup {None}, toRam \in HostRamWrites \cup {None},
     unknownInstr \in Instr, unknownWord \in Word :
    SparesFetch(toRom) /\ Edge(toRom, toRam, unknownInstr, unknownWord)

CarefulNext == Posedge \/ CarefulHostWrite \/ Press \/ Release

\* Such a host keeps the types too.
LEMMA CarefulTypeOK ==
  ASSUME TypeOK, [CarefulNext]_vars
  PROVE  TypeOK'
<1>1. CASE CarefulHostWrite
  <2>1. PICK toRom \in HostRomWrites \cup {None}, toRam \in HostRamWrites \cup {None},
             unknownInstr \in Instr, unknownWord \in Word :
          Edge(toRom, toRam, unknownInstr, unknownWord)
    BY <1>1 DEF CarefulHostWrite
  <2> QED
    BY <2>1, HostWriteTypes, EdgeType
<1>2. CASE [Posedge \/ Press \/ Release]_vars
  BY <1>2, NextTypeOK DEF Next
<1> QED
  BY <1>1, <1>2 DEF CarefulNext

\* A host write that spares the word being fetched leaves the fetch coherent.
LEMMA CarefulWriteFetch ==
  ASSUME TypeOK, CarefulHostWrite
  PROVE  FetchCoherent'
<1>1. PICK toRom, toRam, unknownInstr, unknownWord :
        SparesFetch(toRom) /\ Edge(toRom, toRam, unknownInstr, unknownWord)
  BY DEF CarefulHostWrite
<1>2. SUFFICES ASSUME ~areset, ~execute_cycle
               PROVE  imem_data' = rom'[imem_addr']
  BY <1>1 DEF Edge, FetchCoherent
<1>3. pc' = pc /\ imem_addr' = imem_addr
  BY <1>1, <1>2 DEF Edge, NextPC, imem_addr
<1>4. imem_addr \notin DOMAIN toRom /\ imem_addr \notin DOMAIN None
  BY <1>1, <1>2 DEF SparesFetch, None
<1>5. imem_addr \in DOMAIN rom
  BY SignalTypes DEF TypeOK
<1>6. rom'[imem_addr] = rom[imem_addr]
  BY <1>1, <1>4, <1>5 DEF Edge, Stored
<1>7. imem_data' = rom[imem_addr]
  BY <1>1, <1>4 DEF Edge, Output
<1> QED
  BY <1>3, <1>6, <1>7

(* Loading while the CPU runs is dangerous on one edge only: whatever else  *)
(* the HPS writes and whenever, the execute cycle runs the word that the    *)
(* ROM holds at PC, if no write hits the word being read on a fetch edge    *)
(* (altera-DE1-SoC/main.sv, whose ROM has two ports and no arbiter).        *)
THEOREM FetchIsCoherentWhileLoading ==
  Init /\ [][CarefulNext]_vars => []FetchCoherent
<1> DEFINE Inv == TypeOK /\ FetchInv
<1>1. Init => Inv
  BY InitTypeOK DEF Init, FetchInv, FetchCoherent
<1>2. Inv /\ [CarefulNext]_vars => Inv'
  <2> SUFFICES ASSUME TypeOK, FetchInv, [CarefulNext]_vars PROVE FetchInv'
    BY CarefulTypeOK
  <2>1. CASE Posedge
    BY <2>1, PosedgeFetch
  <2>2. CASE CarefulHostWrite
    <3>1. PICK toRom, toRam, unknownInstr, unknownWord :
            Edge(toRom, toRam, unknownInstr, unknownWord)
      BY <2>2 DEF CarefulHostWrite
    <3>2. execute_cycle' => ~areset'
      BY <3>1 DEF Edge
    <3> QED
      BY <2>2, <3>2, CarefulWriteFetch DEF FetchInv
  <2>3. CASE Press
    BY <2>3 DEF Press, FetchInv, FetchCoherent
  <2>4. CASE Release
    BY <2>4 DEF Release, FetchInv, FetchCoherent, imem_addr
  <2>5. CASE UNCHANGED vars
    BY <2>5 DEF vars, FetchInv, FetchCoherent, imem_addr
  <2> QED
    BY <2>1, <2>2, <2>3, <2>4, <2>5 DEF CarefulNext
<1>3. Inv => FetchCoherent
  BY DEF FetchInv
<1> QED
  BY <1>1, <1>2, <1>3, PTL
----------------------------------------------------------------------------
(* ISA's own copies of the shared operators are those of the board.         *)

\* Index sets, words and the registers after a reset.
LEMMA SameConstants ==
  /\ Abstract!RegIdx = RegIdx
  /\ Abstract!Word = Word
  /\ Abstract!ZeroRegs = ZeroRegs
  /\ Abstract!ProgramIdx = ROMIdx
  /\ Abstract!MemIdx = RAMIdx
  BY DEF Abstract!RegIdx, RegIdx, Abstract!Word, Word, Abstract!Radix, Radix, Abstract!SignBit,
         SignBit, Abstract!ZeroRegs, ZeroRegs, Abstract!ProgramIdx, ROMIdx, Abstract!MemIdx, RAMIdx

\* Truncation to the width.
LEMMA SameTrunc == \A n : Abstract!Trunc(n) = Trunc(n)
  BY DEF Abstract!Trunc, Trunc, Abstract!Radix, Radix, Abstract!SignBit, SignBit

\* The bitwise operators.
LEMMA SameBitwise ==
  \A x, y : /\ Abstract!BitAnd(x, y) = BitAnd(x, y)
            /\ Abstract!BitOr(x, y) = BitOr(x, y)
            /\ Abstract!BitXor(x, y) = BitXor(x, y)
<1>1. \A w : Abstract!BitSet(w) = BitSet(w)
  BY DEF Abstract!BitSet, BitSet, Abstract!BitIdx, BitIdx
<1>2. \A S : Abstract!WordOf(S) = WordOf(S)
  BY SameConstants DEF Abstract!WordOf, WordOf, Abstract!BitSet, BitSet, Abstract!BitIdx, BitIdx
<1> QED
  BY <1>1, <1>2 DEF Abstract!BitAnd, BitAnd, Abstract!BitOr, BitOr, Abstract!BitXor, BitXor

\* The RegFile's ports.
LEMMA SameRegFile ==
  /\ \A r, a : Abstract!ReadReg(r, a) = ReadReg(r, a)
  /\ \A r, en, a, d : Abstract!WriteReg(r, en, a, d) = WriteReg(r, en, a, d)
  BY DEF Abstract!ReadReg, ReadReg, Abstract!WriteReg, WriteReg

\* The word a byte address selects.
LEMMA SameWordAddress == \A a, n : Abstract!WordAddress(a, n) = WordAddress(a, n)
  BY DEF Abstract!WordAddress, WordAddress

----------------------------------------------------------------------------
(* The inductive invariant: the ROM's loads are prepared, the execute cycle *)
(* runs the word at PC, and                                                 *)

\* in a fetch cycle the ALU already computes the address of the load to come,
FetchPrepared ==
  ~areset /\ ~execute_cycle /\ Is(rom[imem_addr], {LoadType}) => Prepares(imem_data, rom[imem_addr])

\* so in its execute cycle the RAM's output is the word at the load's address.
LoadDataCurrent ==
  execute_cycle /\ Is(imem_data, {LoadType}) => dmem_rdata = ram[dmem_addr]

RefinementInv ==
  /\ FetchInv
  /\ rom \in Roms /\ LoadsArePrepared(rom)
  /\ areset => pc = 0
  /\ FetchPrepared
  /\ LoadDataCurrent

\* Byte address 0 is word 0 of the ROM.
LEMMA AddressZero == WordAddress(0, ROMWORDS) = 0
  BY BoardAssumption DEF WordAddress

(* At reset the ROM shows word 0, which is no load.                         *)
LEMMA FirstIsNoLoad ==
  ASSUME LoadsArePrepared(rom), pc = 0
  PROVE  FetchPrepared
  BY AddressZero DEF FetchPrepared, LoadsArePrepared, imem_addr

(* ALUOut of an instruction that prepares a load is the load's address.     *)
LEMMA PreparedAddress ==
  ASSUME NEW i, NEW load, NEW r, NEW unused, Prepares(i, load), Is(load, {LoadType})
  PROVE  ALU(ALUControlUnit(ControlUnit(i).ALUOps, i.funct3, Funct7Bit5(i)),
             ReadReg(r, i.rs1), ALUSrcB(i, r))
           = ALU(ALUControlUnit(ControlUnit(load).ALUOps, load.funct3, Funct7Bit5(load)),
                 ReadReg(r, load.rs1), ALUSrcB(load, r))
<1>1. ControlUnit(i).ALUOps = 0 /\ ControlUnit(load).ALUOps = 0
  BY DEF Prepares, ControlUnit, Is, Rtype, Btype, Itype, LoadType, Stype
<1>2. \A f, b : ALUControlUnit(0, f, b) = 2
  BY DEF ALUControlUnit
<1>3. ImmOut(load) = load.Iimm
  <2>1. ~Is(load, {Stype}) /\ ~Is(load, {Btype}) /\ ~Is(load, {Jtype})
    BY DEF Is, LoadType, Stype, Btype, Jtype
  <2>2. /\ ControlUnit(load).Jump = FALSE
        /\ ControlUnit(load).MemWrite = FALSE
        /\ ControlUnit(load).Branch = FALSE
    BY <2>1 DEF ControlUnit
  <2> QED
    BY <2>2 DEF ImmOut
<1>4. ControlUnit(i).ALUSrc /\ ControlUnit(load).ALUSrc
  BY DEF Prepares, ControlUnit, Is
<1>5. ALUSrcB(i, r) = ALUSrcB(load, r)
  BY <1>3, <1>4 DEF Prepares, ALUSrcB
<1> QED
  BY <1>1, <1>2, <1>5 DEF Prepares

----------------------------------------------------------------------------
(* The two edges of an instruction.                                         *)

\* The edge that ends a fetch cycle only loads the two memory outputs.
LEMMA FetchEdge ==
  ASSUME TypeOK, Posedge, ~areset, ~execute_cycle
  PROVE  /\ execute_cycle' /\ areset' = areset
         /\ pc' = pc /\ regs' = regs /\ rom' = rom /\ ram' = ram
         /\ imem_data' = rom[imem_addr]
         /\ dmem_rdata' = ram[dmem_addr]
<1>1. Edge(None, None, HaltWord, 0)
  BY DEF Posedge
<1>2. StoreToRam = None
  BY DEF StoreToRam, dmem_we
<1>3. pc' = pc /\ regs' = regs
  BY <1>1 DEF Edge, NextPC, WriteReg
<1> QED
  BY <1>1, <1>2, <1>3, QuietMemory DEF Edge, TypeOK

\* The edge that ends an execute cycle writes PC, RegFile and RAM, and nothing else.
LEMMA ExecuteEdge ==
  ASSUME TypeOK, Posedge, ~areset, execute_cycle
  PROVE  /\ ~execute_cycle' /\ areset' = areset
         /\ rom' = rom /\ imem_data' = rom[imem_addr]
         /\ pc' = NextPC(pc, TRUE, halt, LoadAddress(imem_data, ALUOut),
                         AddressToLoad(imem_data, pc))
         /\ regs' = WriteReg(regs, control.RegWrite, imem_data.rd,
                             WriteData(imem_data, ALUOut, dmem_rdata))
         /\ ram' = IF control.MemWrite THEN [ram EXCEPT ![dmem_addr] = ReadRegOut2] ELSE ram
<1>1. Edge(None, None, HaltWord, 0)
  BY DEF Posedge
<1>2. rom' = rom /\ imem_data' = rom[imem_addr]
  BY <1>1, QuietMemory DEF Edge, TypeOK
<1>3. pc' = NextPC(pc, TRUE, halt, LoadAddress(imem_data, ALUOut), AddressToLoad(imem_data, pc))
  BY <1>1 DEF Edge, NextPC
<1>4. regs' = WriteReg(regs, control.RegWrite, imem_data.rd,
                       WriteData(imem_data, ALUOut, dmem_rdata))
  BY <1>1 DEF Edge, WriteReg
<1>5. ram' = IF control.MemWrite THEN [ram EXCEPT ![dmem_addr] = ReadRegOut2] ELSE ram
  <2>1. ram' = Stored(ram, None, StoreToRam, 0)
    BY <1>1 DEF Edge
  <2>2. CASE control.MemWrite
    <3>1. StoreToRam = [a \in {dmem_addr} |-> ReadRegOut2]
      BY <2>2 DEF StoreToRam, dmem_we
    <3>2. \A x : x \notin DOMAIN None
      BY DEF None
    <3> QED
      BY <2>1, <2>2, <3>1, <3>2, SignalTypes DEF Stored, TypeOK
  <2>3. CASE ~control.MemWrite
    BY <2>1, <2>3, QuietMemory DEF StoreToRam, dmem_we, TypeOK
  <2> QED
    BY <2>2, <2>3
<1> QED
  BY <1>1, <1>2, <1>3, <1>4, <1>5 DEF Edge

(* The fetch edge of a prepared load captures the word at its address.      *)
LEMMA FetchKeepsInv ==
  ASSUME TypeOK, RefinementInv, Posedge, ~areset, ~execute_cycle
  PROVE  RefinementInv'
<1>1. FetchInv'
  BY PosedgeFetch DEF RefinementInv
<1>2. LoadDataCurrent'
  <2> SUFFICES ASSUME Is(rom[imem_addr], {LoadType})
               PROVE  ram[dmem_addr] = ram[dmem_addr']
    BY FetchEdge DEF LoadDataCurrent
  <2>1. Prepares(imem_data, rom[imem_addr])
    BY DEF RefinementInv, FetchPrepared
  <2>2. ALUOut' = ALUOut
    BY <2>1, FetchEdge, PreparedAddress DEF ALUOut, control, ReadRegOut1
  <2> QED
    BY <2>2 DEF dmem_addr
<1> QED
  BY <1>1, <1>2, FetchEdge DEF RefinementInv, FetchPrepared

(* The execute edge moves PC to an instruction that is no load, or to a     *)
(* load that the executed instruction prepares.                             *)
LEMMA ExecuteKeepsInv ==
  ASSUME TypeOK, RefinementInv, Posedge, ~areset, execute_cycle
  PROVE  RefinementInv'
<1>1. FetchInv'
  BY PosedgeFetch DEF RefinementInv
<1>2. imem_data = rom[imem_addr] /\ imem_data' = imem_data /\ rom' = rom
  BY ExecuteEdge DEF RefinementInv, FetchInv, FetchCoherent
<1>3. FetchPrepared'
  <2> DEFINE next == rom[WordAddress(pc', ROMWORDS)]
  <2> SUFFICES ASSUME Is(next, {LoadType})
               PROVE  Prepares(imem_data, next)
    BY <1>2 DEF FetchPrepared, imem_addr
  <2>1. ~imem_data.zero
    <3> SUFFICES ASSUME imem_data.zero PROVE FALSE
      OBVIOUS
    <3>1. pc' = pc
      BY ExecuteEdge DEF NextPC, halt
    <3> QED
      BY <1>2, <3>1 DEF Is, imem_addr
  <2>2. /\ pc \in Word
        /\ Is(imem_data, {Btype, Jtype})
             => ~Is(rom[WordAddress(AddressToLoad(imem_data, pc), ROMWORDS)], {LoadType})
        /\ Is(rom[WordAddress(Trunc(pc + 4), ROMWORDS)], {LoadType})
             => \/ imem_data.zero \/ Is(imem_data, {Jtype})
                \/ Prepares(imem_data, rom[WordAddress(Trunc(pc + 4), ROMWORDS)])
    BY <1>2 DEF RefinementInv, LoadsArePrepared, imem_addr, TypeOK
  <2>3. ~LoadAddress(imem_data, ALUOut)
    <3> SUFFICES ASSUME LoadAddress(imem_data, ALUOut) PROVE FALSE
      OBVIOUS
    <3>1. pc' = AddressToLoad(imem_data, pc)
      BY <2>1, ExecuteEdge DEF NextPC, halt
    <3>2. Is(imem_data, {Btype, Jtype})
      BY DEF LoadAddress, ControlUnit, Is
    <3> QED
      BY <2>2, <3>1, <3>2
  <2>4. pc' = Trunc(pc + 4) /\ ~Is(imem_data, {Jtype})
    BY <2>1, <2>3, ExecuteEdge DEF NextPC, halt, LoadAddress, ControlUnit
  <2> QED
    BY <2>1, <2>2, <2>4
<1>4. LoadDataCurrent'
  BY ExecuteEdge DEF LoadDataCurrent
<1>5. rom' \in Roms /\ LoadsArePrepared(rom') /\ ~areset'
  BY <1>2, ExecuteEdge DEF RefinementInv
<1> QED
  BY <1>1, <1>3, <1>4, <1>5 DEF RefinementInv

(* While KEY[1] is pressed PC is 0, where no load may stand.                *)
LEMMA ResetEdgeKeepsInv ==
  ASSUME TypeOK, RefinementInv, areset, execute_cycle' = FALSE, areset' = areset, pc' = pc,
         rom' \in Roms, LoadsArePrepared(rom')
  PROVE  RefinementInv'
  BY DEF RefinementInv, FetchInv, FetchCoherent, FetchPrepared, LoadDataCurrent

\* RefinementInv is inductive.
LEMMA NextKeepsInv ==
  ASSUME Conditions, TypeOK, RefinementInv, [Next]_vars
  PROVE  RefinementInv'
<1>1. CASE Posedge /\ ~areset
  BY <1>1, FetchKeepsInv, ExecuteKeepsInv
<1>2. CASE Posedge /\ areset
  <2>1. Edge(None, None, HaltWord, 0)
    BY <1>2 DEF Posedge
  <2>2. rom' = rom
    BY <2>1, QuietMemory DEF Edge, TypeOK
  <2> QED
    BY <1>2, <2>1, <2>2, ResetEdgeKeepsInv DEF Edge, RefinementInv
<1>3. CASE PosedgeWithHostWrite
  <2>1. areset
    BY <1>3 DEF PosedgeWithHostWrite, Conditions
  <2>2. PICK toRom \in HostRomWrites \cup {None}, toRam \in HostRamWrites \cup {None} :
          \E unknownInstr \in Instr : \E unknownWord : Edge(toRom, toRam, unknownInstr, unknownWord)
    BY <1>3, BoardAssumption DEF PosedgeWithHostWrite
  <2>3. PICK unknownInstr \in Instr : rom' = Stored(rom, toRom, None, unknownInstr)
    BY <2>2 DEF Edge
  <2>4. rom' = [a \in ROMIdx |-> IF a \in DOMAIN toRom THEN toRom[a] ELSE rom[a]]
    BY <2>3 DEF Stored, TypeOK, None
  <2>5. rom' \in Roms
    <3>1. CASE toRom \in HostRomWrites
      BY <2>4, <3>1, BoardAssumption DEF RefinementInv
    <3>2. CASE toRom = None
      BY <2>3, <3>2, QuietMemory DEF RefinementInv, TypeOK
    <3> QED
      BY <3>1, <3>2
  <2> QED
    BY <2>1, <2>2, <2>5, ResetEdgeKeepsInv DEF Edge, Conditions
<1>4. CASE Press
  BY <1>4 DEF Press, RefinementInv, FetchInv, FetchCoherent, FetchPrepared, LoadDataCurrent
<1>5. CASE Release
  <2>1. FetchPrepared'
    <3>1. pc = 0 /\ pc' = pc /\ rom' = rom
      BY <1>5 DEF Release, RefinementInv
    <3> QED
      BY <3>1, AddressZero DEF FetchPrepared, LoadsArePrepared, imem_addr, RefinementInv
  <2> QED
    BY <1>5, <2>1 DEF Release, RefinementInv, FetchInv, FetchCoherent, LoadDataCurrent
<1>6. CASE UNCHANGED vars
  BY <1>6 DEF vars, RefinementInv, FetchInv, FetchCoherent, FetchPrepared, LoadDataCurrent,
              imem_addr, dmem_addr, ALUOut, control, ReadRegOut1
<1> QED
  BY <1>1, <1>2, <1>3, <1>4, <1>5, <1>6 DEF Next

\* RefinementInv holds at power-up.
LEMMA InitInv ==
  ASSUME Conditions, Init
  PROVE  RefinementInv
<1>1. rom \in Roms /\ LoadsArePrepared(rom) /\ pc = 0
  BY DEF Conditions, Init
<1> QED
  BY <1>1, FirstIsNoLoad DEF Init, RefinementInv, FetchInv, FetchCoherent, LoadDataCurrent

----------------------------------------------------------------------------
(* The steps of the board that are steps of the instruction set, or none.   *)

\* KEY[1] going down is the instruction set's Reset.
LEMMA PressMaps ==
  ASSUME Press
  PROVE  Abstract!Reset
  BY SameConstants DEF Press, Abstract!Reset

\* KEY[1] coming up is its Release.
LEMMA ReleaseMaps ==
  ASSUME Release
  PROVE  Abstract!Release
  BY DEF Release, Abstract!Release

\* What the HPS writes under reset is a Load.
LEMMA HostWriteMaps ==
  ASSUME TypeOK', areset, PosedgeWithHostWrite
  PROVE  Abstract!Load
<1>1. UNCHANGED <<areset, pc, regs>>
  BY DEF PosedgeWithHostWrite, Edge
<1> QED
  BY <1>1, SameConstants DEF TypeOK, Abstract!Load

(* An edge under reset and a fetch edge leave the instruction set's state.  *)
LEMMA InvisibleEdge ==
  ASSUME TypeOK, RefinementInv, Posedge, areset \/ ~execute_cycle
  PROVE  UNCHANGED Abstract!vars
<1>1. CASE areset
  <2>1. Edge(None, None, HaltWord, 0)
    BY DEF Posedge
  <2>2. StoreToRam = None
    BY <1>1 DEF StoreToRam, dmem_we, RefinementInv, FetchInv
  <2> QED
    BY <1>1, <2>1, <2>2, QuietMemory DEF Edge, TypeOK, Abstract!vars
<1>2. CASE ~areset /\ ~execute_cycle
  BY <1>2, FetchEdge DEF Abstract!vars
<1> QED
  BY <1>1, <1>2

----------------------------------------------------------------------------
(* The execute edge, one class of instructions at a time.                   *)

Executing == TypeOK /\ RefinementInv /\ Posedge /\ ~areset /\ execute_cycle

\* In the execute cycle both machines look at the same instruction and operands.
LEMMA SameOperands ==
  ASSUME Executing
  PROVE  /\ Abstract!i = imem_data
         /\ Abstract!rs1 = ReadRegOut1 /\ Abstract!rs2 = ReadRegOut2
         /\ ReadRegOut1 \in Word /\ ReadRegOut2 \in Word
<1>1. Abstract!i = imem_data
  BY SameWordAddress
     DEF Executing, RefinementInv, FetchInv, FetchCoherent, imem_addr, Abstract!i
<1> QED
  BY <1>1, SameRegFile, SignalTypes
     DEF Executing, Abstract!rs1, Abstract!rs2, ReadRegOut1, ReadRegOut2

\* An execute edge on the all-zero word changes nothing that the instruction set sees.
LEMMA HaltEdge ==
  ASSUME Executing, imem_data.zero
  PROVE  UNCHANGED Abstract!vars
<1>1. ~control.MemWrite /\ ~control.RegWrite
  BY DEF control, ControlUnit, Is
<1>2. pc' = pc
  BY ExecuteEdge DEF Executing, NextPC, halt
<1>3. regs' = regs /\ ram' = ram
  BY <1>1, ExecuteEdge DEF Executing, WriteReg
<1> QED
  BY <1>2, <1>3, ExecuteEdge DEF Executing, Abstract!vars

(* Instructions that write rd from the ALU or the RAM.                      *)
LEMMA WritingEdge ==
  ASSUME Executing, Is(imem_data, {Rtype, Itype, LoadType})
  PROVE  /\ pc' = Trunc(pc + 4) /\ ram' = ram
         /\ regs' = WriteReg(regs, TRUE, imem_data.rd,
                             WriteData(imem_data, ALUOut, dmem_rdata))
<1>1. ~control.MemWrite /\ control.RegWrite /\ ~control.Jump /\ ~control.Branch
  <2>1. ~Is(imem_data, {Stype}) /\ ~Is(imem_data, {Jtype}) /\ ~Is(imem_data, {Btype})
    BY DEF Is, Rtype, Itype, LoadType, Stype, Btype, Jtype
  <2>2. Is(imem_data, {Rtype, Itype, LoadType, Jtype})
    BY DEF Is
  <2> QED
    BY <2>1, <2>2 DEF control, ControlUnit
<1>2. ~LoadAddress(imem_data, ALUOut) /\ ~halt
  BY <1>1 DEF LoadAddress, control, halt, Is
<1>3. pc' = Trunc(pc + 4)
  BY <1>2, ExecuteEdge DEF Executing, NextPC
<1>4. control.RegWrite = TRUE
  BY <1>1 DEF control, ControlUnit, Is
<1> QED
  BY <1>1, <1>3, <1>4, ExecuteEdge DEF Executing

(* What SetRd of the instruction set asks of a step.                        *)
LEMMA WritingEdgeSetsRd ==
  ASSUME Executing, Is(imem_data, {Rtype, Itype, LoadType})
  PROVE  Abstract!SetRd(WriteData(imem_data, ALUOut, dmem_rdata))
  BY WritingEdge, SameOperands, SameTrunc, SameRegFile DEF Abstract!SetRd

\* An R-type instruction writes what the ALU makes of its two registers.
LEMMA RtypeResult ==
  ASSUME Is(imem_data, {Rtype})
  PROVE  WriteData(imem_data, ALUOut, dmem_rdata)
           = ALU(ALUControlUnit(2, imem_data.funct3, Funct7Bit5(imem_data)),
                 ReadRegOut1, ReadRegOut2)
<1>1. ~control.ALUSrc /\ control.ALUOps = 2 /\ ~control.MemtoReg
  <2>1. ~Is(imem_data, {Itype, LoadType, Stype, Jtype}) /\ ~Is(imem_data, {LoadType})
    BY DEF Is, Rtype, Itype, LoadType, Stype, Jtype
  <2> QED
    BY <2>1 DEF control, ControlUnit
<1> QED
  BY <1>1 DEF WriteData, ALUOut, ALUSrcB, control, ReadRegOut2

\* The execute edge of an R-type instruction is ADD, SUB, XOR, OR or AND.
LEMMA RtypeMaps ==
  ASSUME Executing, Listed(imem_data), Is(imem_data, {Rtype})
  PROVE  Abstract!Execute
<1> DEFINE f3 == imem_data.funct3
           f7 == imem_data.funct7
           value == ALU(ALUControlUnit(2, f3, Funct7Bit5(imem_data)), ReadRegOut1, ReadRegOut2)
<1>1. Abstract!SetRd(value)
  <2>1. Is(imem_data, {Rtype, Itype, LoadType})
    BY DEF Is
  <2> QED
    BY <2>1, WritingEdgeSetsRd, RtypeResult
<1>2. UNCHANGED <<areset, rom>>
  BY ExecuteEdge DEF Executing
<1>3. ~areset
  BY DEF Executing
<1>4. /\ ~imem_data.zero /\ imem_data.opcode = Abstract!Rtype
      /\ <<f3, f7>> \in {<<0, 0>>, <<0, 32>>, <<4, 0>>, <<6, 0>>, <<7, 0>>}
  BY DEF Listed, Is, Rtype, Itype, LoadType, Stype, Btype, Jtype, Abstract!Rtype
<1>5. CASE f3 = 0 /\ f7 = 0
  <2>1. value = Trunc(ReadRegOut1 + ReadRegOut2)
    BY <1>5 DEF ALU, ALUControlUnit, Funct7Bit5
  <2>2. Abstract!ADD
    BY <1>1, <1>4, <1>5, <2>1, SameOperands, SameTrunc
       DEF Abstract!ADD, Abstract!MatchesR, Abstract!Matches
  <2> QED
    BY <1>2, <1>3, <2>2 DEF Abstract!Execute
<1>6. CASE f3 = 0 /\ f7 = 32
  <2>1. value = Trunc(ReadRegOut1 - ReadRegOut2)
    BY <1>6 DEF ALU, ALUControlUnit, Funct7Bit5
  <2>2. Abstract!SUB
    BY <1>1, <1>4, <1>6, <2>1, SameOperands, SameTrunc
       DEF Abstract!SUB, Abstract!MatchesR, Abstract!Matches
  <2> QED
    BY <1>2, <1>3, <2>2 DEF Abstract!Execute
<1>7. CASE f3 = 4 /\ f7 = 0
  <2>1. value = BitXor(ReadRegOut1, ReadRegOut2)
    BY <1>7 DEF ALU, ALUControlUnit, Funct7Bit5
  <2>2. Abstract!XOR
    BY <1>1, <1>4, <1>7, <2>1, SameOperands, SameBitwise
       DEF Abstract!XOR, Abstract!MatchesR, Abstract!Matches
  <2> QED
    BY <1>2, <1>3, <2>2 DEF Abstract!Execute
<1>8. CASE f3 = 6 /\ f7 = 0
  <2>1. value = BitOr(ReadRegOut1, ReadRegOut2)
    BY <1>8 DEF ALU, ALUControlUnit, Funct7Bit5
  <2>2. Abstract!OR
    BY <1>1, <1>4, <1>8, <2>1, SameOperands, SameBitwise
       DEF Abstract!OR, Abstract!MatchesR, Abstract!Matches
  <2> QED
    BY <1>2, <1>3, <2>2 DEF Abstract!Execute
<1>9. CASE f3 = 7 /\ f7 = 0
  <2>1. value = BitAnd(ReadRegOut1, ReadRegOut2)
    BY <1>9 DEF ALU, ALUControlUnit, Funct7Bit5
  <2>2. Abstract!AND
    BY <1>1, <1>4, <1>9, <2>1, SameOperands, SameBitwise
       DEF Abstract!AND, Abstract!MatchesR, Abstract!Matches
  <2> QED
    BY <1>2, <1>3, <2>2 DEF Abstract!Execute
<1> QED
  BY <1>4, <1>5, <1>6, <1>7, <1>8, <1>9

(* ADDI, LW and SW put rs1 + imm on the ALU's output.                       *)
LEMMA AddressOnALU ==
  ASSUME Is(imem_data, {Itype, LoadType, Stype})
  PROVE  ALUOut = Trunc(ReadRegOut1 + ImmOut(imem_data))
<1>1. ~Is(imem_data, {Rtype}) /\ ~Is(imem_data, {Btype})
      /\ Is(imem_data, {Itype, LoadType, Stype, Jtype})
  BY DEF Is, Rtype, Itype, LoadType, Stype, Btype, Jtype
<1>2. control.ALUSrc /\ control.ALUOps = 0
  BY <1>1 DEF control, ControlUnit
<1> QED
  BY <1>2 DEF ALUOut, ALUSrcB, control, ALU, ALUControlUnit

\* The execute edge of an I-type instruction is ADDI.
LEMMA ItypeMaps ==
  ASSUME Executing, Listed(imem_data), Is(imem_data, {Itype})
  PROVE  Abstract!Execute
<1>1. Is(imem_data, {Rtype, Itype, LoadType}) /\ Is(imem_data, {Itype, LoadType, Stype})
      /\ Is(imem_data, {Itype, LoadType}) /\ ~Is(imem_data, {LoadType})
  BY DEF Is, Itype, LoadType
<1>2. WriteData(imem_data, ALUOut, dmem_rdata) = Trunc(ReadRegOut1 + imem_data.Iimm)
  <2>1. ~control.MemtoReg
    BY <1>1 DEF control, ControlUnit
  <2> QED
    BY <1>1, <2>1, AddressOnALU, Immediates DEF WriteData, control
<1>3. Abstract!SetRd(Trunc(ReadRegOut1 + imem_data.Iimm))
  BY <1>1, <1>2, WritingEdgeSetsRd
<1>4. ~imem_data.zero /\ imem_data.opcode = Abstract!Itype /\ imem_data.funct3 = 0
  BY DEF Listed, Is, Rtype, Itype, LoadType, Stype, Btype, Jtype, Abstract!Itype
<1>5. Abstract!ADDI
  BY <1>3, <1>4, SameOperands, SameTrunc DEF Abstract!ADDI, Abstract!Matches
<1> QED
  BY <1>5, ExecuteEdge DEF Executing, Abstract!Execute

\* The execute edge of a prepared load is LW.
LEMMA LoadMaps ==
  ASSUME Executing, Listed(imem_data), Is(imem_data, {LoadType})
  PROVE  Abstract!Execute
<1> DEFINE address == Trunc(ReadRegOut1 + imem_data.Iimm)
<1>1. Is(imem_data, {Rtype, Itype, LoadType}) /\ Is(imem_data, {Itype, LoadType, Stype})
      /\ Is(imem_data, {Itype, LoadType})
  BY DEF Is
<1>2. WriteData(imem_data, ALUOut, dmem_rdata) = ram[WordAddress(address, RAMWORDS)]
  <2>1. control.MemtoReg
    BY DEF control, ControlUnit
  <2>2. ALUOut = address
    BY <1>1, AddressOnALU, Immediates
  <2>3. dmem_rdata = ram[dmem_addr]
    BY DEF Executing, RefinementInv, LoadDataCurrent
  <2> QED
    BY <2>1, <2>2, <2>3 DEF WriteData, control, dmem_addr
<1>3. Abstract!SetRd(ram[WordAddress(address, RAMWORDS)])
  BY <1>1, <1>2, WritingEdgeSetsRd
<1>4. ~imem_data.zero /\ imem_data.opcode = Abstract!LoadType /\ imem_data.funct3 = 2
  BY DEF Listed, Is, Rtype, Itype, LoadType, Stype, Btype, Jtype, Abstract!LoadType
<1>5. Abstract!LW
  BY <1>3, <1>4, SameOperands, SameTrunc, SameWordAddress DEF Abstract!LW, Abstract!Matches
<1> QED
  BY <1>5, ExecuteEdge DEF Executing, Abstract!Execute

\* The execute edge of a store is SW.
LEMMA StoreMaps ==
  ASSUME Executing, Listed(imem_data), Is(imem_data, {Stype})
  PROVE  Abstract!Execute
<1>1. /\ Is(imem_data, {Itype, LoadType, Stype}) /\ ~Is(imem_data, {Jtype})
      /\ ~Is(imem_data, {Btype}) /\ ~Is(imem_data, {Rtype, Itype, LoadType, Jtype})
  BY DEF Is, Rtype, Itype, LoadType, Stype, Btype, Jtype
<1>2. control.MemWrite /\ ~control.RegWrite /\ ~control.Jump /\ ~control.Branch
  BY <1>1 DEF control, ControlUnit
<1>3. pc' = Trunc(pc + 4)
  <2>1. ~LoadAddress(imem_data, ALUOut) /\ ~halt
    BY <1>2 DEF LoadAddress, control, halt, Is
  <2> QED
    BY <2>1, ExecuteEdge DEF Executing, NextPC
<1>4. regs' = regs
  BY <1>2, ExecuteEdge DEF Executing, WriteReg
<1>5. ram' = [ram EXCEPT ![WordAddress(Trunc(ReadRegOut1 + imem_data.Simm), RAMWORDS)]
                = ReadRegOut2]
  BY <1>1, <1>2, ExecuteEdge, AddressOnALU, Immediates DEF Executing, dmem_addr
<1>6. ~imem_data.zero /\ imem_data.opcode = Abstract!Stype /\ imem_data.funct3 = 2
  BY DEF Listed, Is, Rtype, Itype, LoadType, Stype, Btype, Jtype, Abstract!Stype
<1>7. Abstract!SW
  BY <1>3, <1>4, <1>5, <1>6, SameOperands, SameTrunc, SameWordAddress
     DEF Abstract!SW, Abstract!Matches
<1> QED
  BY <1>7, ExecuteEdge DEF Executing, Abstract!Execute

\* The execute edge of a branch is BEQ or BNE.
LEMMA BranchMaps ==
  ASSUME Executing, Listed(imem_data), Is(imem_data, {Btype})
  PROVE  Abstract!Execute
<1> DEFINE taken == BranchTaken(imem_data, ALUOut)
<1>1. /\ ~Is(imem_data, {Itype, LoadType, Stype, Jtype}) /\ ~Is(imem_data, {Jtype})
      /\ ~Is(imem_data, {Stype}) /\ ~Is(imem_data, {Rtype, Itype, LoadType, Jtype})
      /\ ~Is(imem_data, {Rtype})
  BY DEF Is, Rtype, Itype, LoadType, Stype, Btype, Jtype
<1>2. /\ ~control.MemWrite /\ ~control.RegWrite /\ ~control.Jump /\ control.Branch
      /\ ~control.ALUSrc /\ control.ALUOps = 1
  BY <1>1 DEF control, ControlUnit
<1>3. ALUOut = Trunc(ReadRegOut1 - ReadRegOut2)
  BY <1>2 DEF ALUOut, ALUSrcB, control, ALU, ALUControlUnit, ReadRegOut2
<1>4. (ALUOut = 0) <=> (ReadRegOut1 = ReadRegOut2)
  BY <1>3, ZeroDifference, SameOperands
<1>5. regs' = regs /\ ram' = ram
  BY <1>2, ExecuteEdge DEF Executing, WriteReg
<1>6. pc' = Trunc(pc + (IF taken THEN imem_data.Bimm ELSE 4))
  <2>1. LoadAddress(imem_data, ALUOut) <=> taken
    BY <1>2 DEF LoadAddress, control
  <2>2. AddressToLoad(imem_data, pc) = Trunc(pc + imem_data.Bimm)
    BY Immediates DEF AddressToLoad
  <2>3. ~halt
    BY DEF halt, Is
  <2> QED
    BY <2>1, <2>2, <2>3, ExecuteEdge DEF Executing, NextPC
<1>7. ~imem_data.zero /\ imem_data.opcode = Abstract!Btype /\ imem_data.funct3 \in {0, 1}
  BY DEF Listed, Is, Rtype, Itype, LoadType, Stype, Btype, Jtype, Abstract!Btype
<1>8. CASE imem_data.funct3 = 0
  <2>1. taken <=> ReadRegOut1 = ReadRegOut2
    BY <1>4, <1>8 DEF BranchTaken
  <2>2. Abstract!BEQ
    BY <1>5, <1>6, <1>7, <1>8, <2>1, SameOperands, SameTrunc
       DEF Abstract!BEQ, Abstract!Matches, Abstract!Branch
  <2> QED
    BY <2>2, ExecuteEdge DEF Executing, Abstract!Execute
<1>9. CASE imem_data.funct3 = 1
  <2>1. taken <=> ReadRegOut1 # ReadRegOut2
    BY <1>4, <1>9 DEF BranchTaken
  <2>2. Abstract!BNE
    BY <1>5, <1>6, <1>7, <1>9, <2>1, SameOperands, SameTrunc
       DEF Abstract!BNE, Abstract!Matches, Abstract!Branch
  <2> QED
    BY <2>2, ExecuteEdge DEF Executing, Abstract!Execute
<1> QED
  BY <1>7, <1>8, <1>9

\* The execute edge of a jump that keeps no return address is JAL.
LEMMA JumpMaps ==
  ASSUME Executing, Listed(imem_data), Is(imem_data, {Jtype})
  PROVE  Abstract!Execute
<1>1. ~Is(imem_data, {Stype})
  BY DEF Is, Stype, Jtype
<1>2. ~control.MemWrite /\ control.Jump
  BY <1>1 DEF control, ControlUnit
<1>3. /\ ~imem_data.zero /\ imem_data.opcode = Abstract!Jtype /\ imem_data.rd = 0
  BY DEF Listed, Is, Rtype, Itype, LoadType, Stype, Btype, Jtype, Abstract!Jtype
<1>4. regs' = regs /\ ram' = ram
  BY <1>2, <1>3, ExecuteEdge DEF Executing, WriteReg
<1>5. pc' = Trunc(pc + imem_data.Jimm)
  <2>1. LoadAddress(imem_data, ALUOut) /\ ~halt
    BY <1>2 DEF LoadAddress, control, halt, Is
  <2>2. AddressToLoad(imem_data, pc) = Trunc(pc + imem_data.Jimm)
    BY Immediates DEF AddressToLoad
  <2> QED
    BY <2>1, <2>2, ExecuteEdge DEF Executing, NextPC
<1>6. Abstract!JAL
  BY <1>3, <1>4, <1>5, SameOperands, SameTrunc, SameRegFile DEF Abstract!JAL, WriteReg
<1> QED
  BY <1>6, ExecuteEdge DEF Executing, Abstract!Execute

----------------------------------------------------------------------------
\* Every step of the board is a step of the instruction set, or invisible to it.
LEMMA StepMaps ==
  ASSUME Conditions, TypeOK, TypeOK', RefinementInv, [Next]_vars
  PROVE  [Abstract!Next]_(Abstract!vars)
<1>1. CASE Posedge /\ (areset \/ ~execute_cycle)
  BY <1>1, InvisibleEdge
<1>2. CASE Posedge /\ ~areset /\ execute_cycle
  <2>1. Executing
    BY <1>2 DEF Executing
  <2>2. Listed(imem_data)
    BY DEF Conditions, TypeOK
  <2>3. \/ imem_data.zero \/ Is(imem_data, {Rtype}) \/ Is(imem_data, {Itype})
        \/ Is(imem_data, {LoadType}) \/ Is(imem_data, {Stype})
        \/ Is(imem_data, {Btype}) \/ Is(imem_data, {Jtype})
    BY <2>2 DEF Listed, Is
  <2> QED
    BY <2>1, <2>2, <2>3, HaltEdge, RtypeMaps, ItypeMaps, LoadMaps, StoreMaps, BranchMaps,
       JumpMaps DEF Abstract!Next
<1>3. CASE PosedgeWithHostWrite
  <2>1. areset
    BY <1>3 DEF PosedgeWithHostWrite, Conditions
  <2> QED
    BY <1>3, <2>1, HostWriteMaps DEF Abstract!Next
<1>4. CASE Press
  BY <1>4, PressMaps DEF Abstract!Next
<1>5. CASE Release
  BY <1>5, ReleaseMaps DEF Abstract!Next
<1>6. CASE UNCHANGED vars
  BY <1>6 DEF vars, Abstract!vars
<1> QED
  BY <1>1, <1>2, <1>3, <1>4, <1>5, <1>6 DEF Next

(* For every word width, number of registers and memory size, every program *)
(* of listed instructions whose loads are prepared, and every pattern of    *)
(* resets and of loads during a reset, what the board does is what the      *)
(* instruction set table says (altera-DE1-SoC/main.sv as a whole).          *)
THEOREM BoardImplementsISA ==
  ASSUME Conditions
  PROVE  Spec => ImplementsISA
<1>1. Init => RefinementInv
  BY InitInv
<1>2. TypeOK /\ RefinementInv /\ [Next]_vars => RefinementInv'
  BY NextKeepsInv
<1>3. Init => Abstract!Init
  BY InitTypeOK, SameConstants DEF Init, TypeOK, Abstract!Init
<1>4. TypeOK /\ TypeOK' /\ RefinementInv /\ [Next]_vars => [Abstract!Next]_(Abstract!vars)
  BY StepMaps
<1> QED
  BY <1>1, <1>2, <1>3, <1>4, TypeCorrect, PTL DEF Spec, ImplementsISA, Abstract!Spec

----------------------------------------------------------------------------
(* The mailbox: Linux writes a datum and then a flag into the RAM of the    *)
(* running CPU, which polls the flag and reads the datum.                   *)

\* Widths and sizes as numbers.
LEMMA Sizes ==
  ASSUME MailboxSetting
  PROVE  /\ Radix \in Nat /\ 20 < Radix
         /\ NREG \in Nat /\ NREG > 2
         /\ ROMWORDS \in Nat /\ ROMWORDS > 5
         /\ RAMWORDS \in Nat /\ RAMWORDS > 1
  BY WidthAssumption, RegisterAssumption, BoardAssumption DEF MailboxSetting, Radix

\* The word at a small address of an image, by its place in the program.
LEMMA PollImage ==
  ASSUME MailboxSetting
  PROVE  /\ PollRom[0] = Decode(\h0040, \h0013)
         /\ PollRom[1] = Decode(\h0040, \h2083)
         /\ PollRom[2] = Decode(\hFE00, \h8CE3)
         /\ PollRom[3] = Decode(\h0000, \h0013)
         /\ PollRom[4] = Decode(\h0000, \h2103)
         /\ PollRom[5] = Decode(0, 0)
<1>1. Len(Poll) = 5
  BY DEF Poll
<1>2. \A a \in {0, 1, 2, 3, 4, 5} : a \in 0 .. ROMWORDS - 1
  BY Sizes
<1>3. \A a \in {0, 1, 2, 3, 4} : PollRom[a] = Decode(Poll[a + 1][1], Poll[a + 1][2])
  BY <1>1, <1>2 DEF PollRom, Image
<1>4. PollRom[5] = Decode(0, 0)
  BY <1>1, <1>2 DEF PollRom, Image
<1> QED
  BY <1>3, <1>4 DEF Poll

\* The fields of its instructions that its run depends on.
LEMMA PollWords ==
  ASSUME MailboxSetting
  PROVE  /\ ~PollRom[0].zero /\ PollRom[0].opcode = Itype
         /\ PollRom[0].rd = 0 /\ PollRom[0].rs1 = 0 /\ PollRom[0].Iimm = 4
         /\ ~PollRom[1].zero /\ PollRom[1].opcode = LoadType
         /\ PollRom[1].rd = 1
         /\ ~PollRom[2].zero /\ PollRom[2].opcode = Btype /\ PollRom[2].funct3 = 0
         /\ PollRom[2].rs1 = 1 /\ PollRom[2].rs2 = 0 /\ PollRom[2].Bimm = Trunc(0 - 8)
         /\ ~PollRom[3].zero /\ PollRom[3].opcode = Itype
         /\ PollRom[3].rd = 0 /\ PollRom[3].rs1 = 0 /\ PollRom[3].Iimm = 0
         /\ ~PollRom[4].zero /\ PollRom[4].opcode = LoadType
         /\ PollRom[4].rd = 2
         /\ PollRom[5].zero
<1>1. 0 % NREG = 0 /\ 1 % NREG = 1 /\ 2 % NREG = 2
  BY Sizes, SmallRemainder
<1>2. Trunc(0) = 0 /\ Trunc(4) = 4
  BY Sizes, SmallRemainder DEF Trunc
<1>3. LET i == Decode(\h0040, \h0013)
      IN  i.opcode = Itype /\ i.rd = 0 /\ i.rs1 = 0 /\ i.Iimm = 4
  BY <1>1, <1>2 DEF Decode, Bits, SignExtend, IimmField, Itype
<1>4. LET i == Decode(\h0040, \h2083)
      IN  i.opcode = LoadType /\ i.rd = 1
  BY <1>1 DEF Decode, Bits, LoadType
<1>5. LET i == Decode(\hFE00, \h8CE3)
      IN  /\ i.opcode = Btype /\ i.funct3 = 0
          /\ i.rs1 = 1 /\ i.rs2 = 0 /\ i.Bimm = Trunc(0 - 8)
  BY <1>1 DEF Decode, Bits, SignExtend, BimmField, Btype
<1>6. LET i == Decode(\h0000, \h0013)
      IN  i.opcode = Itype /\ i.rd = 0 /\ i.rs1 = 0 /\ i.Iimm = 0
  BY <1>1, <1>2 DEF Decode, Bits, SignExtend, IimmField, Itype
<1>7. LET i == Decode(\h0000, \h2103)
      IN  i.opcode = LoadType /\ i.rd = 2
  BY <1>1 DEF Decode, Bits, LoadType
<1>8. /\ ~Decode(\h0040, \h0013).zero /\ ~Decode(\h0040, \h2083).zero
      /\ ~Decode(\hFE00, \h8CE3).zero /\ ~Decode(\h0000, \h0013).zero
      /\ ~Decode(\h0000, \h2103).zero /\ Decode(0, 0).zero
  BY OnlyZeroHalts
<1> QED
  BY <1>3, <1>4, <1>5, <1>6, <1>7, <1>8, PollImage

\* The polling program is told from the others by its word 1, a load.
LEMMA OnlyPollPolls ==
  ASSUME MailboxSetting, rom \in Roms, Polling
  PROVE  rom = PollRom
<1>1. \A p \in {TbCpuROM, OnchipMem} : Len(p) = 13 /\ p[2][2] = \h0113
  BY DEF TbCpuROM, OnchipMem, SumWords
<1>2. 1 \in 0 .. ROMWORDS - 1
  BY Sizes
<1>3. ASSUME NEW p \in {TbCpuROM, OnchipMem}, rom = Image(p, ROMWORDS) PROVE FALSE
  <2>1. rom[1] = Decode(p[2][1], \h0113)
    BY <1>1, <1>2, <1>3 DEF Image
  <2>2. rom[1].opcode = 19
    BY <2>1 DEF Decode, Bits
  <2> QED
    BY <2>2 DEF Polling, Is, LoadType
<1> QED
  BY <1>3 DEF MailboxSetting, Sums

\* Linux's datum is in RAM word 0.
DatumArrived == ram[0] = Datum

(* DatumIntact is far from inductive.  Its strengthening follows the        *)
(* evidence: through the RAM's output, x1 and the PC, each of which may     *)
(* hold the flag, to the capture of the datum.                              *)

\* Where the CPU is in the polling program, and that in the fetch cycle of a
\* load imem_data still shows the addition which has its address.
PollControl ==
  /\ rom = PollRom
  /\ areset => ~execute_cycle /\ pc = 0
  /\ pc \in {0, 4, 8, 12, 16, 20}
  /\ imem_data.zero \/ \E n \in 0 .. 4 : imem_data = PollRom[n]
  /\ execute_cycle => imem_data = PollRom[imem_addr]
  /\ ~execute_cycle /\ pc = 4 => imem_data = PollRom[0]
  /\ ~execute_cycle /\ pc = 16 => imem_data = PollRom[3]

\* The flag, wherever a copy of it is, vouches for the datum.
PollData ==
  /\ ram[1] # 0 => DatumArrived
  /\ execute_cycle /\ pc = 4 /\ dmem_rdata # 0 => DatumArrived
  /\ regs[1] # 0 => DatumArrived
  /\ pc \in {12, 16, 20} => DatumArrived
  /\ execute_cycle /\ pc = 16 => dmem_rdata = Datum
  /\ pc = 20 => regs[2] = Datum

MailboxInv == Polling => PollControl /\ PollData

\* PC selects the words of the program.
LEMMA PollAddresses ==
  ASSUME MailboxSetting
  PROVE  /\ WordAddress(0, ROMWORDS) = 0 /\ WordAddress(4, ROMWORDS) = 1
         /\ WordAddress(8, ROMWORDS) = 2 /\ WordAddress(12, ROMWORDS) = 3
         /\ WordAddress(16, ROMWORDS) = 4 /\ WordAddress(20, ROMWORDS) = 5
         /\ WordAddress(0, RAMWORDS) = 0 /\ WordAddress(4, RAMWORDS) = 1
<1>1. \A n \in 0 .. 5 : n % ROMWORDS = n
  BY Sizes, SmallRemainder
<1>2. \A n \in 0 .. 1 : n % RAMWORDS = n
  BY Sizes, SmallRemainder
<1>3. /\ 0 \div 4 = 0 /\ 4 \div 4 = 1 /\ 8 \div 4 = 2 /\ 12 \div 4 = 3
      /\ 16 \div 4 = 4 /\ 20 \div 4 = 5
  OBVIOUS
<1> QED
  BY <1>1, <1>2, <1>3 DEF WordAddress

\* The two additions leave the addresses of the loads behind them on the ALU.
LEMMA PollPrepares ==
  ASSUME MailboxSetting, TypeOK
  PROVE  /\ imem_data = PollRom[0] => dmem_addr = 1
         /\ imem_data = PollRom[3] => dmem_addr = 0
<1>1. Trunc(0 + 4) = 4 /\ Trunc(0 + 0) = 0
  BY Sizes, SmallRemainder DEF Trunc
<1>2. ASSUME imem_data = PollRom[0] \/ imem_data = PollRom[3]
      PROVE  ALUOut = Trunc(0 + imem_data.Iimm)
  <2>1. Is(imem_data, {Itype}) /\ imem_data.rs1 = 0
    BY <1>2, PollWords DEF Is
  <2>2. Is(imem_data, {Itype, LoadType}) /\ Is(imem_data, {Itype, LoadType, Stype})
    BY <2>1 DEF Is
  <2> QED
    BY <2>1, <2>2, AddressOnALU, Immediates DEF ReadRegOut1, ReadReg
<1>3. imem_data = PollRom[0] => ALUOut = 4
  BY <1>1, <1>2, PollWords
<1>4. imem_data = PollRom[3] => ALUOut = 0
  BY <1>1, <1>2, PollWords
<1> QED
  BY <1>3, <1>4, PollAddresses DEF dmem_addr

\* What an edge does to the memories: the program stores nothing.
LEMMA PollMemories ==
  ASSUME MailboxSetting, TypeOK, PollControl, NEW w, NEW u, Edge(None, w, HaltWord, u)
  PROVE  /\ rom' = rom /\ imem_data' = PollRom[imem_addr]
         /\ ram' = [a \in RAMIdx |-> IF a \in DOMAIN w THEN w[a] ELSE ram[a]]
         /\ dmem_rdata' = IF dmem_addr \in DOMAIN w THEN u ELSE ram[dmem_addr]
<1>1. ~control.MemWrite
  <2>1. ~Is(imem_data, {Stype})
    <3>1. \A n \in 0 .. 4 : PollRom[n].opcode \in {Itype, LoadType, Btype}
      BY PollWords
    <3> QED
      BY <3>1 DEF PollControl, Is, Itype, LoadType, Btype, Stype
  <2> QED
    BY <2>1 DEF control, ControlUnit
<1>2. StoreToRam = None
  BY <1>1 DEF StoreToRam, dmem_we
<1>3. \A x : x \notin DOMAIN None
  BY DEF None
<1>4. rom' = rom /\ imem_data' = rom[imem_addr]
  BY QuietMemory DEF Edge, TypeOK
<1>5. ram' = Stored(ram, w, None, u) /\ dmem_rdata' = Output(ram, dmem_addr, w, None, u)
  BY <1>2 DEF Edge
<1> QED
  BY <1>3, <1>4, <1>5 DEF Stored, Output, TypeOK, PollControl

\* The registers and PC after the edge that ends an execute cycle.
LEMMA PollExecutes ==
  ASSUME MailboxSetting, TypeOK, PollControl, execute_cycle, NEW w, NEW u,
         Edge(None, w, HaltWord, u)
  PROVE  /\ pc = 0 => pc' = 4 /\ regs' = regs
         /\ pc = 4 => pc' = 8 /\ regs' = [regs EXCEPT ![1] = dmem_rdata]
         /\ pc = 8 => pc' = (IF regs[1] = 0 THEN 0 ELSE 12) /\ regs' = regs
         /\ pc = 12 => pc' = 16 /\ regs' = regs
         /\ pc = 16 => pc' = 20 /\ regs' = [regs EXCEPT ![2] = dmem_rdata]
         /\ pc = 20 => pc' = 20 /\ regs' = regs
<1>1. /\ pc' = NextPC(pc, TRUE, halt, LoadAddress(imem_data, ALUOut),
                      AddressToLoad(imem_data, pc))
      /\ regs' = WriteReg(regs, control.RegWrite, imem_data.rd,
                          WriteData(imem_data, ALUOut, dmem_rdata))
      /\ imem_data = PollRom[imem_addr]
  BY DEF PollControl, Edge, NextPC, WriteReg
<1>2. /\ Trunc(0 + 4) = 4 /\ Trunc(4 + 4) = 8 /\ Trunc(8 + 4) = 12 /\ Trunc(12 + 4) = 16
      /\ Trunc(16 + 4) = 20
  BY Sizes, SmallRemainder DEF Trunc
<1>3. ASSUME Is(imem_data, {Itype}) \/ Is(imem_data, {LoadType})
      PROVE  pc' = Trunc(pc + 4)
  <2>1. ~Is(imem_data, {Btype}) /\ ~Is(imem_data, {Jtype}) /\ ~halt
    BY <1>3 DEF halt, Is, Itype, LoadType, Btype, Jtype
  <2>2. ~LoadAddress(imem_data, ALUOut)
    BY <2>1 DEF LoadAddress, ControlUnit
  <2> QED
    BY <1>1, <2>1, <2>2 DEF NextPC
<1>4. ASSUME Is(imem_data, {Itype}), imem_data.rd = 0 PROVE regs' = regs
  BY <1>1, <1>4 DEF WriteReg
<1>5. ASSUME Is(imem_data, {LoadType}), imem_data.rd # 0
      PROVE  regs' = [regs EXCEPT ![imem_data.rd] = dmem_rdata]
  <2>1. Is(imem_data, {Rtype, Itype, LoadType, Jtype})
    BY <1>5 DEF Is
  <2>2. control.RegWrite = TRUE /\ ControlUnit(imem_data).MemtoReg = TRUE
    BY <1>5, <2>1 DEF control, ControlUnit
  <2> QED
    BY <1>1, <1>5, <2>2 DEF WriteReg, WriteData
<1>6. CASE pc = 0
  <2>1. imem_data = PollRom[0]
    BY <1>1, <1>6, PollAddresses DEF imem_addr
  <2>2. Is(imem_data, {Itype}) /\ imem_data.rd = 0
    BY <2>1, PollWords DEF Is
  <2> QED
    BY <1>2, <1>3, <1>4, <1>6, <2>2
<1>7. CASE pc = 4
  <2>1. imem_data = PollRom[1]
    BY <1>1, <1>7, PollAddresses DEF imem_addr
  <2>2. Is(imem_data, {LoadType}) /\ imem_data.rd = 1
    BY <2>1, PollWords DEF Is
  <2> QED
    BY <1>2, <1>3, <1>5, <1>7, <2>2
<1>8. CASE pc = 8
  <2>1. imem_data = PollRom[2]
    BY <1>1, <1>8, PollAddresses DEF imem_addr
  <2>2. /\ Is(imem_data, {Btype}) /\ imem_data.funct3 = 0
        /\ imem_data.rs1 = 1 /\ imem_data.rs2 = 0 /\ imem_data.Bimm = Trunc(0 - 8)
    BY <2>1, PollWords DEF Is
  <2>3. /\ ~Is(imem_data, {Itype, LoadType, Stype, Jtype}) /\ ~Is(imem_data, {Jtype})
        /\ ~Is(imem_data, {Rtype, Itype, LoadType, Jtype}) /\ ~Is(imem_data, {Rtype})
    BY <2>2 DEF Is, Rtype, Itype, LoadType, Stype, Btype, Jtype
  <2>4. regs' = regs
    BY <1>1, <2>3 DEF WriteReg, control, ControlUnit
  <2>5. ALUOut = Trunc(regs[1] - 0)
    <3>1. ReadRegOut1 = regs[1] /\ ALUSrcB(imem_data, regs) = 0
      BY <2>2, <2>3 DEF ReadRegOut1, ReadReg, ALUSrcB, ControlUnit
    <3>2. control.ALUOps = 1
      BY <2>2, <2>3 DEF control, ControlUnit
    <3> QED
      BY <3>1, <3>2 DEF ALUOut, ALU, ALUControlUnit
  <2>6. ALUOut = 0 <=> regs[1] = 0
    <3>1. 1 \in RegIdx
      BY Sizes DEF RegIdx
    <3> QED
      BY <2>5, <3>1, ZeroIsWord, ZeroDifference DEF TypeOK
  <2>7. LoadAddress(imem_data, ALUOut) <=> regs[1] = 0
    BY <2>2, <2>3, <2>6 DEF LoadAddress, BranchTaken, ControlUnit
  <2>8. AddressToLoad(imem_data, pc) = 0
    <3>1. ImmOut(imem_data) = Trunc(0 - 8)
      BY <2>2, Immediates
    <3>2. (0 - 8) % Radix = Radix - 8 /\ (8 + (Radix - 8)) % Radix = 0
      BY Sizes
    <3> QED
      BY <1>8, <3>1, <3>2 DEF AddressToLoad, Trunc
  <2>9. ~halt
    BY <2>2 DEF halt, Is
  <2> QED
    BY <1>1, <1>2, <1>8, <2>4, <2>7, <2>8, <2>9 DEF NextPC
<1>9. CASE pc = 12
  <2>1. imem_data = PollRom[3]
    BY <1>1, <1>9, PollAddresses DEF imem_addr
  <2>2. Is(imem_data, {Itype}) /\ imem_data.rd = 0
    BY <2>1, PollWords DEF Is
  <2> QED
    BY <1>2, <1>3, <1>4, <1>9, <2>2
<1>10. CASE pc = 16
  <2>1. imem_data = PollRom[4]
    BY <1>1, <1>10, PollAddresses DEF imem_addr
  <2>2. Is(imem_data, {LoadType}) /\ imem_data.rd = 2
    BY <2>1, PollWords DEF Is
  <2> QED
    BY <1>2, <1>3, <1>5, <1>10, <2>2
<1>11. CASE pc = 20
  <2>1. imem_data.zero
    BY <1>1, <1>11, PollAddresses, PollWords DEF imem_addr
  <2>2. ~control.RegWrite
    BY <2>1 DEF control, ControlUnit, Is
  <2> QED
    BY <1>1, <1>11, <2>1, <2>2 DEF NextPC, halt, WriteReg
<1> QED
  BY <1>6, <1>7, <1>8, <1>9, <1>10, <1>11

(* What the protocol makes of an edge on which Linux writes w: the datum    *)
(* stays once it is there, and a flag in the RAM still vouches for it.      *)
LEMMA MailboxWrite ==
  ASSUME MailboxSetting, TypeOK, PollControl, PollData,
         NEW w \in HostRamWrites \cup {None}, NEW u,
         0 \in DOMAIN w => ~DatumArrived,
         1 \in DOMAIN w => DatumArrived,
         Edge(None, w, HaltWord, u)
  PROVE  /\ DatumArrived => DatumArrived'
         /\ ram'[1] # 0 => DatumArrived'
         /\ dmem_addr = 1 /\ dmem_rdata' # 0 => DatumArrived'
         /\ dmem_addr = 0 /\ DatumArrived => dmem_rdata' = Datum
<1>1. 0 \in DOMAIN w => w[0] = Datum
  BY DEF MailboxSetting, None
<1>2. 0 \in RAMIdx /\ 1 \in RAMIdx
  BY Sizes DEF RAMIdx
<1>3. /\ ram' = [a \in RAMIdx |-> IF a \in DOMAIN w THEN w[a] ELSE ram[a]]
      /\ dmem_rdata' = IF dmem_addr \in DOMAIN w THEN u ELSE ram[dmem_addr]
  BY PollMemories
<1>4. DatumArrived => DatumArrived'
  BY <1>2, <1>3 DEF DatumArrived
<1>5. ram[1] # 0 \/ 1 \in DOMAIN w => DatumArrived
  BY DEF PollData
<1>6. ram'[1] # 0 => DatumArrived
  BY <1>2, <1>3, <1>5
<1> QED
  BY <1>3, <1>4, <1>5, <1>6 DEF DatumArrived

\* Every edge keeps the mailbox invariant of the polling program.
LEMMA MailboxEdge ==
  ASSUME MailboxSetting, TypeOK, PollControl, PollData,
         NEW w \in HostRamWrites \cup {None}, NEW u,
         0 \in DOMAIN w => ~DatumArrived,
         1 \in DOMAIN w => DatumArrived,
         Edge(None, w, HaltWord, u)
  PROVE  PollControl' /\ PollData'
<1>1. /\ DatumArrived => DatumArrived'
      /\ ram'[1] # 0 => DatumArrived'
      /\ dmem_addr = 1 /\ dmem_rdata' # 0 => DatumArrived'
      /\ dmem_addr = 0 /\ DatumArrived => dmem_rdata' = Datum
  BY MailboxWrite
<1>2. /\ areset' = areset /\ execute_cycle' = (~areset /\ ~execute_cycle)
      /\ rom' = PollRom /\ imem_data' = PollRom[imem_addr]
  BY PollMemories DEF Edge, PollControl
<1>3. imem_addr \in 0 .. 5
  BY PollAddresses DEF PollControl, imem_addr
<1>4. imem_data'.zero \/ \E n \in 0 .. 4 : imem_data' = PollRom[n]
  <2>1. CASE imem_addr = 5
    BY <1>2, <2>1, PollWords
  <2>2. CASE imem_addr # 5
    BY <1>2, <1>3, <2>2
  <2> QED
    BY <2>1, <2>2
<1>5. CASE areset
  <2>1. pc' = 0 /\ regs' = regs /\ imem_data' = PollRom[0]
    BY <1>2, <1>5, PollAddresses DEF Edge, PollControl, imem_addr
  <2>2. ~execute_cycle'
    BY <1>2, <1>5
  <2>3. PollControl'
    BY <1>2, <1>4, <1>5, <2>1, <2>2 DEF PollControl
  <2>4. PollData'
    BY <1>1, <1>2, <1>5, <2>1 DEF PollData
  <2> QED
    BY <2>3, <2>4
<1>6. CASE ~areset /\ ~execute_cycle
  <2>1. pc' = pc /\ regs' = regs
    BY <1>6 DEF Edge, NextPC, WriteReg
  <2>2. imem_addr' = imem_addr
    BY <2>1 DEF imem_addr
  <2>3. PollControl'
    <3>1. execute_cycle' /\ ~areset' /\ imem_data' = PollRom[imem_addr']
      BY <1>2, <1>6, <2>2
    <3> QED
      BY <1>2, <1>4, <2>1, <3>1 DEF PollControl
  <2>4. pc = 4 => dmem_addr = 1
    BY <1>6, PollPrepares DEF PollControl
  <2>5. pc = 16 => dmem_addr = 0
    BY <1>6, PollPrepares DEF PollControl
  <2>6. PollData'
    BY <1>1, <1>2, <1>6, <2>1, <2>4, <2>5 DEF PollData
  <2> QED
    BY <2>3, <2>6
<1>7. CASE ~areset /\ execute_cycle
  <2>1. /\ pc = 0 => pc' = 4 /\ regs' = regs
        /\ pc = 4 => pc' = 8 /\ regs' = [regs EXCEPT ![1] = dmem_rdata]
        /\ pc = 8 => pc' = (IF regs[1] = 0 THEN 0 ELSE 12) /\ regs' = regs
        /\ pc = 12 => pc' = 16 /\ regs' = regs
        /\ pc = 16 => pc' = 20 /\ regs' = [regs EXCEPT ![2] = dmem_rdata]
        /\ pc = 20 => pc' = 20 /\ regs' = regs
    BY <1>7, PollExecutes
  <2>2. pc \in {0, 4, 8, 12, 16, 20}
    BY DEF PollControl
  <2>3. PollControl'
    <3>1. pc' \in {0, 4, 8, 12, 16, 20} /\ (pc' = 4 => pc = 0) /\ (pc' = 16 => pc = 12)
      BY <2>1, <2>2
    <3>2. (pc = 0 => imem_addr = 0) /\ (pc = 12 => imem_addr = 3)
      BY PollAddresses DEF imem_addr
    <3> QED
      BY <1>2, <1>4, <1>7, <3>1, <3>2 DEF PollControl
  <2>4. PollData'
    <3>1. regs'[1] # 0 => DatumArrived
      <4>1. 1 \in RegIdx
        BY Sizes DEF RegIdx
      <4> QED
        BY <1>7, <2>1, <2>2, <4>1 DEF PollData, TypeOK
    <3>2. pc' \in {12, 16, 20} => DatumArrived
      BY <2>1, <2>2 DEF PollData
    <3>3. pc' = 20 => regs'[2] = Datum
      <4>1. 2 \in RegIdx
        BY Sizes DEF RegIdx
      <4> QED
        BY <1>7, <2>1, <2>2, <4>1 DEF PollData, TypeOK
    <3> QED
      BY <1>1, <1>2, <1>7, <3>1, <3>2, <3>3 DEF PollData
  <2> QED
    BY <2>3, <2>4
<1> QED
  BY <1>5, <1>6, <1>7

\* The mailbox invariant is inductive.
LEMMA MailboxStep ==
  ASSUME MailboxSetting, TypeOK, MailboxInv, rom \in Roms, [ExamplesNext]_vars
  PROVE  MailboxInv' /\ rom' \in Roms
<1>1. CASE Posedge
  <2>1. Edge(None, None, HaltWord, 0)
    BY <1>1 DEF Posedge
  <2>2. rom' = rom
    BY <2>1, QuietMemory DEF Edge, TypeOK
  <2>3. \A x : x \notin DOMAIN None
    BY DEF None
  <2>4. ASSUME Polling PROVE PollControl' /\ PollData'
    BY <2>1, <2>3, <2>4, MailboxEdge DEF MailboxInv
  <2> QED
    BY <2>2, <2>4 DEF MailboxInv, Polling
<1>2. CASE LinuxWrites
  <2>1. PICK w \in HostRamWrites :
          /\ 0 \in DOMAIN w => ram[0] # Datum
          /\ 1 \in DOMAIN w => ram[0] = Datum
          /\ \E u \in IF dmem_addr \in DOMAIN w THEN Word ELSE {0} : Edge(None, w, HaltWord, u)
    BY <1>2 DEF LinuxWrites
  <2>2. PICK u : Edge(None, w, HaltWord, u)
    BY <2>1
  <2>3. Polling
    BY <1>2 DEF LinuxWrites
  <2>4. rom' = rom
    BY <2>2, QuietMemory DEF Edge, TypeOK
  <2>5. PollControl' /\ PollData'
    BY <2>1, <2>2, <2>3, MailboxEdge DEF MailboxInv, DatumArrived
  <2> QED
    BY <2>4, <2>5 DEF MailboxInv
<1>3. CASE Press
  <2>1. 1 \in RegIdx
    BY Sizes DEF RegIdx
  <2>2. regs'[1] = 0
    BY <1>3, <2>1 DEF Press, ZeroRegs
  <2> QED
    BY <1>3, <2>2 DEF Press, MailboxInv, Polling, PollControl, PollData, DatumArrived
<1>4. CASE Release
  BY <1>4 DEF Release, MailboxInv, Polling, PollControl, PollData, DatumArrived, imem_addr
<1>5. CASE UNCHANGED vars
  BY <1>5 DEF vars, MailboxInv, Polling, PollControl, PollData, DatumArrived, imem_addr
<1> QED
  BY <1>1, <1>2, <1>3, <1>4, <1>5 DEF ExamplesNext

\* An edge on which Linux writes a word leaves the board well typed.
LEMMA ExamplesTypeOK ==
  ASSUME TypeOK, [ExamplesNext]_vars
  PROVE  TypeOK'
<1>1. CASE LinuxWrites
  <2>1. PICK w \in HostRamWrites :
          \E u \in IF dmem_addr \in DOMAIN w THEN Word ELSE {0} : Edge(None, w, HaltWord, u)
    BY <1>1 DEF LinuxWrites
  <2>2. PICK u \in Word : Edge(None, w, HaltWord, u)
    BY <2>1, ZeroIsWord
  <2>3. HaltWord \in Instr
    BY BoardAssumption
  <2> QED
    BY <2>2, <2>3, HostWriteTypes, EdgeType
<1>2. CASE ~LinuxWrites
  <2>1. [Next]_vars
    BY <1>2 DEF ExamplesNext, Next
  <2> QED
    BY <2>1, NextTypeOK
<1> QED
  BY <1>1, <1>2

(* For every width, number of registers and memory size that the polling    *)
(* program fits in, however the edges of the CPU, the writes of Linux and   *)
(* the presses of KEY[1] fall, and whatever the RAM shows on the edge that  *)
(* writes a word: the CPU passes the poll with Linux's datum or not at all  *)
(* (main.sv: "Linux writes, FPGA reads/writes").                            *)
THEOREM DatumStaysIntact ==
  ASSUME MailboxSetting
  PROVE  ExamplesSpec => []DatumIntact
<1> DEFINE I == TypeOK /\ MailboxInv /\ rom \in Roms
<1>1. Init => I
  <2> SUFFICES ASSUME Init PROVE MailboxInv
    BY InitTypeOK DEF Init
  <2>1. 0 \in RAMIdx /\ 1 \in RAMIdx /\ 1 \in RegIdx
    BY Sizes DEF RAMIdx, RegIdx
  <2>2. ram[1] = 0 /\ regs[1] = 0
    BY <2>1 DEF Init, ZeroRegs
  <2>3. HaltWord.zero
    BY BoardAssumption
  <2>4. Polling => rom = PollRom
    BY OnlyPollPolls DEF Init
  <2> QED
    BY <2>2, <2>3, <2>4 DEF Init, MailboxInv, PollControl, PollData
<1>2. I /\ [ExamplesNext]_vars => I'
  BY ExamplesTypeOK, MailboxStep
<1>3. I => DatumIntact
  <2>1. Len(Poll) = 5
    BY DEF Poll
  <2> QED
    BY <2>1 DEF DatumIntact, Received, MailboxInv, PollData
<1> QED
  BY <1>1, <1>2, <1>3, PTL DEF ExamplesSpec
=============================================================================
