\* enable goes down at any tick.
CONSTANTS
  XLEN = 8
  NREG = 32
  ROMWORDS = 64
  RAMWORDS = 64
  Instr <- SumInstr
  InitialRoms <- SumRoms
  EnableInputs = {TRUE, FALSE}
SPECIFICATION StallSpec
PROPERTY ADDI_operation
