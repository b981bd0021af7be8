\* test_1.txt links with jal x1, 4.
CONSTANTS
  XLEN = 8
  NREG = 32
  ROMWORDS = 64
  RAMWORDS = 64
  Instr <- Test1Instr
  InitialRoms <- Test1Roms
  EnableInputs = {TRUE}
SPECIFICATION FairSpec
PROPERTY JAL_operation
