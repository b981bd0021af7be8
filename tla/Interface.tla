------------------------------ MODULE Interface ------------------------------
(* What the sequencer is built for: the ranks and pins of the memory and    *)
(* the taps of its phases (sequencer_defines.h).                            *)
EXTENDS Integers, FiniteSets

CONSTANTS
  RANKS,      \* RW_MGR_MEM_NUMBER_OF_RANKS
  Skipped,    \* the ranks with skip_ranks set
  Mirrored,   \* the ranks of RW_MGR_MEM_ADDRESS_MIRRORING
  VG,         \* virtual groups of a DQS group
  WIDTH,      \* DQ pins of a virtual group
  TRIES,      \* NUM_READ_TESTS
  PHASE_MAX   \* IO_DQS_EN_PHASE_MAX

ASSUME InterfaceAssumption ==
  /\ RANKS \in Nat \ {0}
  /\ Skipped \subseteq 0 .. RANKS - 1 /\ Mirrored \subseteq 0 .. RANKS - 1
  /\ VG \in Nat \ {0} /\ WIDTH \in Nat \ {0}
  /\ TRIES \in Nat /\ PHASE_MAX \in Nat

\* The ranks from r on that are tested.
RanksFrom(r) == {q \in r .. RANKS - 1 : q \notin Skipped}
LeastRank(S) == CHOOSE r \in S : \A q \in S : r <= q

=============================================================================
