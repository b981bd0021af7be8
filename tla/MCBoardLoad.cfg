\* The same instructions in any order: a load may follow anything.
CONSTANTS
  XLEN = 4
  NREG = 3
  ROMWORDS = 4
  RAMWORDS = 2
  LoadWhileRunning = FALSE
  Instr <- MCInstr
  HaltWord <- MCHalt
  Roms <- AnyRoms
  HostRomWrites = {}
  HostRamWrites = {}
SPECIFICATION FairSpec
PROPERTY LW_operation
