\* 6 bits hold every value and every address of the test.
CONSTANTS
  XLEN = 6
  NREG = 6
  ROMWORDS = 16
  RAMWORDS = 16
  Instr <- MCInstr
  InitialRoms <- MCRoms
  EnableInputs = {TRUE}
SPECIFICATION TestSpec
INVARIANTS InputsCurrent MatchesExpectedRows
PROPERTY ImplementsISA
