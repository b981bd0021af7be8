\* Every program of three free words and a last one that halts, branches back or falls through.
CONSTANTS
  XLEN = 4
  NREG = 3
  ROMWORDS = 4
  RAMWORDS = 2
  LoadWhileRunning = FALSE
  Instr <- MCInstr
  HaltWord <- MCHalt
  Roms <- MCRoms
  HostRomWrites <- MCRomWrites
  HostRamWrites = {}
SPECIFICATION FairSpec
INVARIANTS TypeOK FetchCoherent
PROPERTY ImplementsFairISA
