\* The PC assertion against the halt at the end of the program.
CONSTANTS
  XLEN = 8
  NREG = 32
  ROMWORDS = 64
  RAMWORDS = 64
  Instr <- SumInstr
  InitialRoms <- SumRoms
  EnableInputs = {TRUE}
SPECIFICATION FairSpec
PROPERTY Pc4_check
