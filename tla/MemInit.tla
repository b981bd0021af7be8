------------------------------ MODULE MemInit ------------------------------
(* rw_mgr_mem_initialize and rw_mgr_mem_handoff for DDR3: the memory is held  *)
(* in reset, its clock is enabled, and each rank that is not skipped is     *)
(* given its mode registers and calibrates its terminations; its rows are   *)
(* opened for the calibration, and after it the rank is given the mode      *)
(* registers the user asked for.  An action is one command and the wait     *)
(* behind it.                                                               *)
EXTENDS Interface, IdleLoop, Sequences

CONSTANTS
  AFI_CLK_FREQ,   \* MHz
  TINIT,          \* the counters TINIT_CNTR0_VAL, 1 and 2
  TRESET          \* TRESET_CNTR0_VAL, 1 and 2

VARIABLES
  at,       \* "reset", "raise", "enable", "init", "config", "activate",
            \* "calibrate", "handoff" or "done"
  rank,     \* the rank that is given commands
  step,     \* its next command
  last,     \* history: the command given last, to any rank
  waited    \* history: the clocks waited since

vars == <<at, rank, step, last, waited>>

Init ==
  /\ at = "reset" /\ rank = 0 /\ step = 1
  /\ last = "RESET" /\ waited = 0

\* A command and the clocks the code waits behind it.
Command(name, wait) == [name |-> name, wait |-> wait]

\* Slip: no wait behind ZQCL.
init_program_hasty(r) ==
  << Command("MRS2", 4), Command("MRS3", 4), Command("MRS1", 4),
     Command("MRS0_DLL_RESET", 0), Command("ZQCL", 0) >>

\* The mode registers and ZQCL of a rank.  Without mirrored addresses there is
\* no wait behind MRS1.
init_program(r) ==
  << Command("MRS2", 4), Command("MRS3", 4),
     Command("MRS1", IF r \in Mirrored THEN 4 ELSE 0),
     Command("MRS0_DLL_RESET", 0), Command("ZQCL", 512) >>

\* The rows of a rank; ACTIVATE has a loop of its own behind each of the two.
activate_program(r) ==
  << Command("PRECHARGE_ALL", 0), Command("ACTIVATE_0_AND_1", 16) >>

\* The mode registers at the handoff; the processor is slow enough for what
\* is to be waited at the end.
handoff_program(r) ==
  << Command("PRECHARGE_ALL", 0), Command("MRS2", 4), Command("MRS3", 4),
     Command("MRS1", 4), Command("MRS0_USER", 0) >>

\* The loop over the ranks, from r on; behind the last one the next stage.
Enter(stage, r, next) ==
  /\ step' = 1
  /\ IF RanksFrom(r) = {} THEN at' = next /\ UNCHANGED rank
                          ELSE at' = stage /\ rank' = LeastRank(RanksFrom(r))

\* RESET is held, with the clock disabled, for TINIT.
Reset ==
  /\ at = "reset" /\ at' = "raise"
  /\ waited' = NestedWait(TINIT[1], TINIT[2], TINIT[3])
  /\ UNCHANGED <<rank, step, last>>

\* RESET goes high for TRESET.
Raise ==
  /\ at = "raise" /\ at' = "enable"
  /\ last' = "RESET_HIGH"
  /\ waited' = NestedWait(TRESET[1], TRESET[2], TRESET[3])
  /\ UNCHANGED <<rank, step>>

\* The clock is enabled.
Enable ==
  /\ at = "enable"
  /\ last' = "CKE"
  /\ waited' = delay_for_n_mem_clocks(250)
  /\ Enter("init", 0, "config")

Give(program, next) ==
  /\ last' = program[step].name
  /\ waited' = delay_for_n_mem_clocks(program[step].wait)
  /\ IF step < Len(program)
     THEN step' = step + 1 /\ UNCHANGED <<at, rank>>
     ELSE Enter(at, rank + 1, next)

InitRank     == at = "init" /\ Give(init_program(rank), "config")
ActivateRank == at = "activate" /\ Give(activate_program(rank), "calibrate")
HandoffRank  == at = "handoff" /\ Give(handoff_program(rank), "done")

\* mem_config ends with the rows of every rank.
Config ==
  /\ at = "config"
  /\ Enter("activate", 0, "calibrate")
  /\ UNCHANGED <<last, waited>>

\* What is calibrated in between leaves the mode registers alone.
Calibrate ==
  /\ at = "calibrate"
  /\ Enter("handoff", 0, "done")
  /\ UNCHANGED <<last, waited>>

Next == Reset \/ Raise \/ Enable \/ InitRank \/ Config \/ ActivateRank
        \/ Calibrate \/ HandoffRank

Spec == Init /\ [][Next]_vars

----------------------------------------------------------------------------
\* The clocks that are asked for between two commands, the next to rank r:
\* 200 us of RESET and 500 us behind it, tXPR, tZQinit and tMRD.  Between
\* MRS1 and the DLL reset tMRD is asked for where addresses are mirrored; for
\* another rank the code does not wait.  Nothing is asked of the loops behind
\* ACTIVATE, which no comment gives a time.
Required(before, next, r) ==
  CASE before = "RESET"                      -> 200 * AFI_CLK_FREQ
    [] before = "RESET_HIGH"                 -> 500 * AFI_CLK_FREQ
    [] before = "CKE"                        -> 250
    [] before = "ZQCL"                       -> 512
    [] before \in {"MRS2", "MRS3"}           -> 4
    [] before = "MRS1" /\ next = "MRS0_USER" -> 4
    [] before = "MRS1" /\ next = "MRS0_DLL_RESET" /\ r \in Mirrored -> 4
    [] OTHER                                 -> 0

=============================================================================
