------------------------------ MODULE MCDqsEye ------------------------------
(* The DQS enable search with the delay chain of the build                  *)
(* (sequencer_defines.h) against read windows that begin all over a cycle.  *)
(* They include one narrower than a phase tap, a memory that never answers, *)
(* and one whose reads pass wherever they sample.                           *)
EXTENDS ReadEye

CONSTANTS
  Narrow,        \* a width below a phase tap
  Jitter,        \* picoseconds
  EyeStep,       \* windows start every EyeStep picoseconds of a cycle
  EyePlace       \* the FIFO place whose cycle they start in

Dead  == [lo |-> 0, width |-> -1, jitter |-> 0]
Stuck == [lo |-> 0, width |-> Ring, jitter |-> 0]

Places(step) == {EyePlace * Cycle + step * n : n \in 0 .. (Cycle - 1) \div step}

MCEyes ==
  {Dead, Stuck}
  \cup [lo : Places(EyeStep), width : EyeWidths, jitter : {0}]
  \cup [lo : Places(8 * EyeStep), width : {Narrow} \cup EyeWidths, jitter : {Jitter}]

ASSUME EyeAssumption == EyeSetting

=============================================================================
