\* 7-bit words hold every sum and every PC.
CONSTANTS
  XLEN = 7
  NREG = 6
  ROMWORDS = 32
  RAMWORDS = 2
  LoadWhileRunning = TRUE
  Instr <- MCInstr
  HaltWord <- MCHalt
  Roms <- MCRoms
  HostRomWrites = {}
  HostRamWrites <- MCRamWrites
SPECIFICATION ExamplesSpec
INVARIANT DatumIntact
PROPERTIES Completes FlagSeen
