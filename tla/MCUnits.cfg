\* 28-bit words for the instructions, 8-bit ones for the ALU's bench, 4-bit
\* ones for the ALUs against each other.
CONSTANTS
  BITS = 28
  NREG = 32
  ALUBITS = 8
  OPBITS = 4
SPECIFICATION MCSpec
INVARIANTS RoundTrip RtlComputesRV32I BoardAgrees BenchesPass
CHECK_DEADLOCK FALSE
