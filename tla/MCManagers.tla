----------------------------- MODULE MCManagers -----------------------------
(* What the sequencer asks of the hardware managers, one at a time: the     *)
(* settings of the scan chain manager with short chains, the memory tests,  *)
(* and the commands that initialise the memory, for more ranks and virtual  *)
(* groups than the build has, one of the ranks skipped and one mirrored.    *)
EXTENDS ScanChain

CONSTANTS AFI_CLK_FREQ, TINIT, TRESET

VARIABLES
  which,   \* the manager that is asked: "scan", "test" or "init"
  kind, all_correct, t_at, try, t_rank, vg, word, tmp, bit_chk, phase, result, bad,
  i_at, i_rank, i_step, i_last, i_waited

T == INSTANCE MemTest WITH at <- t_at, rank <- t_rank
I == INSTANCE MemInit WITH at <- i_at, rank <- i_rank, step <- i_step,
                           last <- i_last, waited <- i_waited

MCSkipped  == {1}
MCMirrored == {2}
MCTInit    == <<74, 32, 32>>
MCTReset   == <<74, 99, 10>>

t_vars   == <<kind, all_correct, t_at, try, t_rank, vg, word, tmp, bit_chk, phase, result, bad>>
i_vars   == <<i_at, i_rank, i_step, i_last, i_waited>>
all_vars == <<which, vars, t_vars, i_vars>>

\* The counters of the build hold RESET for 200 us and give the memory 500 us
\* behind it.
ASSUME TimesAssumption ==
  /\ I!NestedWait(TINIT[1], TINIT[2], TINIT[3]) >= 200 * AFI_CLK_FREQ
  /\ I!NestedWait(TRESET[1], TRESET[2], TRESET[3]) >= 500 * AFI_CLK_FREQ

\* A manager that is not asked rests in one of its initial states.
MCInit ==
  /\ which \in {"scan", "test", "init"}
  /\ Init /\ T!Init /\ I!Init
  /\ which # "scan" => rfile = [s \in Settings |-> 0]
  /\ which # "test" => kind = "write" /\ all_correct

MCNext ==
  \/ which = "scan" /\ Next /\ UNCHANGED <<which, t_vars, i_vars>>
  \/ which = "test" /\ T!Next /\ UNCHANGED <<which, vars, i_vars>>
  \/ which = "init" /\ I!Next /\ UNCHANGED <<which, vars, t_vars>>

MCSpec == MCInit /\ [][MCNext]_all_vars /\ WF_all_vars(which = "test" /\ MCNext)

----------------------------------------------------------------------------
\* The folded check of every test names exactly the pins that failed.
CheckIsExact == T!CheckIsExact

\* No repetition of a read test, no phase of a guaranteed read is left out.
NoTestIsSkipped == T!NoTestIsSkipped

\* Every test returns, as long as the processor goes on.
TestsReturn == which = "test" ~> t_at = "done"

\* The memory is given the time it needs before every command: also a rank
\* that follows one that is skipped, and the DLL reset of a mirrored rank.
TimesAreKept == [][i_last' # i_last => i_waited >= I!Required(i_last, i_last', i_rank)]_i_vars

=============================================================================
