------------------------------ MODULE DqsEnable ------------------------------
(* rw_mgr_mem_calibrate_vfifo_find_dqs_en_phase: the search for the DQS     *)
(* enable setting of a read group.  A setting is a place in the read valid  *)
(* FIFO, a phase tap and a delay tap; the search moves it, issues a read    *)
(* test, and keeps the edges it finds as picosecond counts of its own,      *)
(* never reading the setting back.  Every action is one read test and the   *)
(* code that runs until the next.  The memory answers from Answers, so the  *)
(* same module is run with an eye that passes and with arbitrary answers.   *)
EXTENDS Integers

CONSTANTS
  VFIFO_SIZE,       \* places of the read valid FIFO
  PHASE_MAX,        \* IO_DQS_EN_PHASE_MAX
  DELAY_MAX,        \* IO_DQS_EN_DELAY_MAX
  OPA_TAP,          \* IO_DELAY_PER_OPA_TAP, picoseconds of a phase tap
  DCHAIN_TAP,       \* IO_DELAY_PER_DQS_EN_DCHAIN_TAP, of a delay tap
  Eyes,             \* the read windows a board may have
  Answers(_, _)     \* what a read test may answer, by eye and setting

\* Step 0: the delay taps in a phase tap, rounded up, less one.
DtapsPerPtap == (OPA_TAP + DCHAIN_TAP - 1) \div DCHAIN_TAP - 1

ASSUME DqsAssumption ==
  /\ VFIFO_SIZE \in Nat \ {0}
  /\ PHASE_MAX \in Nat /\ PHASE_MAX >= 3
  /\ DELAY_MAX \in Nat
  /\ OPA_TAP \in Nat \ {0} /\ DCHAIN_TAP \in Nat \ {0}
  /\ OPA_TAP <= DELAY_MAX * DCHAIN_TAP        \* the delay taps span a phase

VARIABLES
  eye,       \* the board's read window
  at,        \* the loop that issues the next read test
  s,         \* the setting the hardware holds: [v, p, d]
  turns,     \* VFIFO places tried by the loop (v of step 1, then i)
  fails,     \* fail_cnt
  tmp,       \* tmp_delay
  work_bgn,
  work_end,
  edge,      \* initial_failing_dtap
  fresh,     \* j = 0: nothing looked at yet in step 4a
  dtaps,     \* dtaps_per_ptap
  base       \* history: the VFIFO place from which step 2 counts

vars == <<eye, at, s, turns, fails, tmp, work_bgn, work_end, edge, fresh, dtaps, base>>

Settings == [v : 0 .. VFIFO_SIZE - 1, p : 0 .. PHASE_MAX, d : 0 .. DELAY_MAX]
Stages   == {"hunt", "begin", "backoff", "end", "dtap", "pass", "fail",
             "centre", "found", "none"}
Done     == at \in {"found", "none"}

\* A cycle of the memory clock, the picoseconds of a VFIFO place.
Cycle == (PHASE_MAX + 1) * OPA_TAP
Ring  == VFIFO_SIZE * Cycle

\* Where a setting samples, counted from place 0 of the FIFO.
Position(x) == x.v * Cycle + x.p * OPA_TAP + x.d * DCHAIN_TAP

Incr(x) == [x EXCEPT !.v = (@ + 1) % VFIFO_SIZE]

\* Slip: one step down, below place 0 too.
DecrUnwrapped(x) == [x EXCEPT !.v = @ - 1]

\* There is no decrement: the FIFO goes once round but one.
Decr(x) == [x EXCEPT !.v = (@ + VFIFO_SIZE - 1) % VFIFO_SIZE]

At(x, p, d) == [x EXCEPT !.p = p, !.d = d]

Passes(ok) == ok \in Answers(eye, s)

Init ==
  /\ eye \in Eyes
  /\ at = "hunt"
  /\ s \in {x \in Settings : x.p = 1 /\ x.d = 0}
  /\ turns = 0 /\ fails = 0 /\ tmp = 0
  /\ work_bgn = 0 /\ work_end = 0
  /\ edge = 0 /\ fresh = TRUE
  /\ dtaps = DtapsPerPtap
  /\ base = 0

Stop(verdict) ==
  /\ at' = verdict
  /\ UNCHANGED <<turns, fails, tmp, work_bgn, work_end, edge, fresh, dtaps>>

----------------------------------------------------------------------------
\* Step 1: push the VFIFO until a second read fails.
Hunt ==
  /\ at = "hunt"
  /\ \E ok \in BOOLEAN :
       /\ Passes(ok)
       /\ \/ /\ ~ok /\ fails = 1
             /\ at' = "begin"
             /\ s' = At(s, 1, 0)
             /\ base' = s.v
             /\ turns' = 0 /\ fails' = 2
             /\ work_bgn' = OPA_TAP
             /\ UNCHANGED <<tmp, work_end, edge, fresh, dtaps>>
          \/ /\ ok \/ fails = 0
             /\ s' = Incr(s)
             /\ UNCHANGED base
             /\ \/ /\ turns + 1 < VFIFO_SIZE
                   /\ turns' = turns + 1
                   /\ fails' = IF ok THEN fails ELSE fails + 1
                   /\ UNCHANGED <<at, tmp, work_bgn, work_end, edge, fresh, dtaps>>
                \/ /\ turns + 1 = VFIFO_SIZE
                   /\ Stop("none")
  /\ UNCHANGED eye

----------------------------------------------------------------------------
\* Steps 3a and 4a start from the first phase that passed.  The phase before
\* it is searched for an earlier edge, unless it is phase 0, which a hard PHY
\* cannot be set to; the phases after it are searched for the end.

\* Slip: the phase that is skipped is not counted.
EndFromUncounted(x, p, end) ==
  IF p > PHASE_MAX
  THEN /\ s' = At(Incr(x), 1, 0) /\ work_end' = end /\ fresh' = FALSE
  ELSE /\ s' = At(x, p, 0) /\ work_end' = end /\ fresh' = TRUE

\* Step 4a from phase p: phase 0 is counted but never programmed.
EndFrom(x, p, end) ==
  IF p > PHASE_MAX
  THEN /\ s' = At(Incr(x), 1, 0) /\ work_end' = end + OPA_TAP /\ fresh' = FALSE
  ELSE /\ s' = At(x, p, 0) /\ work_end' = end /\ fresh' = TRUE

BackOff ==
  IF s.p = 1
  THEN /\ at' = "end"
       /\ EndFrom(s, 3, work_bgn + OPA_TAP)
       /\ UNCHANGED tmp
  ELSE /\ at' = "backoff"
       /\ s' = At(s, s.p - 1, 0)
       /\ tmp' = work_bgn - OPA_TAP
       /\ work_end' = work_bgn
       /\ UNCHANGED fresh

\* Step 2: phase tap by phase tap round the whole FIFO, once for each delay
\* tap of a phase, until a read passes.
FindBegin ==
  /\ at = "begin"
  /\ \E ok \in BOOLEAN :
       /\ Passes(ok)
       /\ \/ /\ ok /\ s.d = 0
             /\ BackOff
             /\ UNCHANGED <<turns, fails, work_bgn, edge, dtaps>>
          \/ /\ ok /\ s.d > 0          \* step 3-5b: narrower than a phase
             /\ at' = "dtap"
             /\ work_end' = work_bgn
             /\ UNCHANGED <<s, turns, fails, tmp, work_bgn, edge, fresh, dtaps>>
          \/ /\ ~ok /\ s.p < PHASE_MAX
             /\ s' = At(s, s.p + 1, s.d)
             /\ work_bgn' = work_bgn + OPA_TAP
             /\ UNCHANGED <<at, turns, fails, tmp, work_end, edge, fresh, dtaps>>
          \/ /\ ~ok /\ s.p = PHASE_MAX /\ turns + 1 < VFIFO_SIZE
             /\ s' = Incr(At(s, 1, s.d))
             /\ turns' = turns + 1
             /\ work_bgn' = work_bgn + 2 * OPA_TAP
             /\ UNCHANGED <<at, fails, tmp, work_end, edge, fresh, dtaps>>
          \/ /\ ~ok /\ s.p = PHASE_MAX /\ turns + 1 = VFIFO_SIZE /\ s.d < DtapsPerPtap
             /\ s' = Incr(At(s, 1, s.d + 1))
             /\ turns' = 0
             /\ tmp' = tmp + DCHAIN_TAP
             /\ work_bgn' = tmp + DCHAIN_TAP + OPA_TAP
             /\ UNCHANGED <<at, fails, work_end, edge, fresh, dtaps>>
          \/ /\ ~ok /\ s.p = PHASE_MAX /\ turns + 1 = VFIFO_SIZE /\ s.d = DtapsPerPtap
             /\ s' = Incr(s)
             /\ Stop("none")
  /\ UNCHANGED <<eye, base>>

\* Step 3a: from the phase before, increment in delay taps.  work_end still
\* holds the phase that passed.
BackoffStep ==
  /\ at = "backoff"
  /\ \E ok \in BOOLEAN :
       /\ Passes(ok)
       /\ IF ok \/ s.d = DELAY_MAX \/ tmp + DCHAIN_TAP >= work_bgn
          THEN /\ at' = "end"
               /\ work_bgn' = IF ok THEN tmp ELSE work_bgn
               /\ EndFrom(s, s.p + 2, work_end + OPA_TAP)
               /\ UNCHANGED tmp
          ELSE /\ s' = At(s, s.p, s.d + 1)
               /\ tmp' = tmp + DCHAIN_TAP
               /\ UNCHANGED <<at, work_bgn, work_end, fresh>>
  /\ UNCHANGED <<eye, turns, fails, edge, dtaps, base>>

\* Step 4a: go forward to the first phase that fails; a failure at the very
\* first one moves the beginning instead.  Step 5a: back off one phase.
FindEnd ==
  /\ at = "end"
  /\ \E ok \in BOOLEAN :
       /\ Passes(ok)
       /\ \/ /\ ~ok /\ ~fresh
             /\ at' = "dtap"
             /\ s' = IF s.p = 1 THEN At(Decr(s), PHASE_MAX, 0) ELSE At(s, s.p - 1, 0)
             /\ work_end' = work_end - (IF s.p = 1 THEN 2 ELSE 1) * OPA_TAP
             /\ UNCHANGED <<turns, work_bgn, fresh>>
          \/ /\ ok \/ fresh
             /\ work_bgn' = IF ok THEN work_bgn ELSE work_end
             /\ fresh' = FALSE
             /\ \/ /\ s.p < PHASE_MAX
                   /\ s' = At(s, s.p + 1, 0)
                   /\ work_end' = work_end + OPA_TAP
                   /\ UNCHANGED <<at, turns>>
                \/ /\ s.p = PHASE_MAX /\ turns < VFIFO_SIZE
                   /\ s' = Incr(At(s, 1, 0))
                   /\ turns' = turns + 1
                   /\ work_end' = work_end + 2 * OPA_TAP
                   /\ UNCHANGED at
                \/ /\ s.p = PHASE_MAX /\ turns = VFIFO_SIZE
                   /\ s' = Incr(s)
                   /\ at' = "none"
                   /\ UNCHANGED <<turns, work_end>>
  /\ UNCHANGED <<eye, fails, tmp, edge, dtaps, base>>

----------------------------------------------------------------------------
\* Slip: the end of the window instead of its middle.
CentredAtEnd(bgn, end) ==
  LET inner == ((end - 1) % Cycle) + 1
      p     == (inner - 1) \div OPA_TAP
      d     == (inner - p * OPA_TAP + DCHAIN_TAP - 1) \div DCHAIN_TAP
  IN  IF p = 0 THEN [p |-> 1, d |-> 0] ELSE [p |-> p, d |-> d]

\* Step 6: the centre of the window as a phase and a delay within one cycle.
\* A centre in phase 0 is moved to phase 1.
Centred(bgn, end) ==
  LET mid   == (bgn + end) \div 2
      inner == ((mid - 1) % Cycle) + 1
      p     == (inner - 1) \div OPA_TAP
      d     == (inner - p * OPA_TAP + DCHAIN_TAP - 1) \div DCHAIN_TAP
  IN  IF p = 0 THEN [p |-> 1, d |-> 0] ELSE [p |-> p, d |-> d]

Centre(x, bgn, end, n) ==
  /\ at' = "centre"
  /\ s' = At(x, Centred(bgn, end).p, Centred(bgn, end).d)
  /\ turns' = 0
  /\ dtaps' = n

\* Slip: phase 0 taken for a phase a hard PHY can be set to.
BackPhaseToZero(x, d) ==
  IF x.p = 0 THEN At(Decr(x), PHASE_MAX, d) ELSE At(x, x.p - 1, d)

\* The setting from which tracking re-finds the edge: one phase back.
BackPhase(x, d) ==
  IF x.p = 1 THEN At(Decr(x), PHASE_MAX, d) ELSE At(x, x.p - 1, d)

\* Step 5: from the last phase that passes, increment in delay taps to the
\* edge.  An edge before the beginning is no window.
FindEdge ==
  /\ at = "dtap"
  /\ \E ok \in BOOLEAN :
       /\ Passes(ok)
       /\ \/ /\ ok /\ s.d < DELAY_MAX
             /\ s' = At(s, s.p, s.d + 1)
             /\ work_end' = work_end + DCHAIN_TAP
             /\ UNCHANGED <<at, turns, edge, dtaps>>
          \/ /\ ok /\ s.d = DELAY_MAX
             /\ work_end' = work_end
             /\ edge' = DELAY_MAX + 1
             /\ \/ /\ work_end >= work_bgn
                   /\ Centre(BackPhase(s, s.d), work_bgn, work_end, dtaps)
                \/ /\ work_end < work_bgn
                   /\ at' = "none"
                   /\ UNCHANGED <<s, turns, dtaps>>
          \/ /\ ~ok
             /\ work_end' = IF s.d = 0 THEN work_end ELSE work_end - DCHAIN_TAP
             /\ edge' = s.d
             /\ \/ /\ work_end' >= work_bgn
                   /\ at' = "pass"
                   /\ s' = BackPhase(s, s.d)
                   /\ UNCHANGED <<turns, dtaps>>
                \/ /\ work_end' < work_bgn
                   /\ at' = "none"
                   /\ UNCHANGED <<s, turns, dtaps>>
  /\ UNCHANGED <<eye, fails, tmp, work_bgn, fresh, base>>

\* For tracking, one phase back: the delay taps from there to the same edge
\* are the delay taps of a phase.  First a read that passes ...
TrackPass ==
  /\ at = "pass"
  /\ \E ok \in BOOLEAN :
       /\ Passes(ok)
       /\ \/ /\ s.d < DELAY_MAX
             /\ at' = IF ok THEN "fail" ELSE at
             /\ s' = At(s, s.p, s.d + 1)
             /\ UNCHANGED <<turns, dtaps>>
          \/ /\ s.d = DELAY_MAX
             /\ Centre(s, work_bgn, work_end, dtaps)
  /\ UNCHANGED <<eye, fails, tmp, work_bgn, work_end, edge, fresh, base>>

\* Slip: the delay taps counted from 0, not from the edge.
TrackFailFromZero ==
  /\ at = "fail"
  /\ \E ok \in BOOLEAN :
       /\ Passes(ok)
       /\ \/ /\ ok /\ s.d < DELAY_MAX
             /\ s' = At(s, s.p, s.d + 1)
             /\ UNCHANGED <<at, turns, dtaps>>
          \/ /\ ok /\ s.d = DELAY_MAX
             /\ Centre(s, work_bgn, work_end, dtaps)
          \/ /\ ~ok
             /\ Centre(s, work_bgn, work_end, s.d)
  /\ UNCHANGED <<eye, fails, tmp, work_bgn, work_end, edge, fresh, base>>

\* ... then a read that fails; without one the static count stays.
TrackFail ==
  /\ at = "fail"
  /\ \E ok \in BOOLEAN :
       /\ Passes(ok)
       /\ \/ /\ ok /\ s.d < DELAY_MAX
             /\ s' = At(s, s.p, s.d + 1)
             /\ UNCHANGED <<at, turns, dtaps>>
          \/ /\ ok /\ s.d = DELAY_MAX
             /\ Centre(s, work_bgn, work_end, dtaps)
          \/ /\ ~ok
             /\ Centre(s, work_bgn, work_end, s.d - edge)
  /\ UNCHANGED <<eye, fails, tmp, work_bgn, work_end, edge, fresh, base>>

\* Slip: the centre is tried in one place of the FIFO only.
FindCentreOnce ==
  /\ at = "centre"
  /\ \E ok \in BOOLEAN :
       /\ Passes(ok)
       /\ at' = IF ok THEN "found" ELSE "none"
       /\ UNCHANGED <<s, turns>>
  /\ UNCHANGED <<eye, fails, tmp, work_bgn, work_end, edge, fresh, dtaps, base>>

\* The centre is relative to a cycle: push the VFIFO until it passes.
FindCentre ==
  /\ at = "centre"
  /\ \E ok \in BOOLEAN :
       /\ Passes(ok)
       /\ \/ /\ ok
             /\ at' = "found"
             /\ UNCHANGED <<s, turns>>
          \/ /\ ~ok
             /\ s' = Incr(s)
             /\ turns' = turns + 1
             /\ at' = IF turns + 1 = VFIFO_SIZE THEN "none" ELSE at
  /\ UNCHANGED <<eye, fails, tmp, work_bgn, work_end, edge, fresh, dtaps, base>>

Next == Hunt \/ FindBegin \/ BackoffStep \/ FindEnd \/ FindEdge
        \/ TrackPass \/ TrackFail \/ FindCentre

Spec == Init /\ [][Next]_vars /\ WF_vars(Next)

----------------------------------------------------------------------------
\* The type invariant.
TypeOK ==
  /\ eye \in Eyes
  /\ at \in Stages
  /\ s \in Settings
  /\ turns \in 0 .. VFIFO_SIZE
  /\ fails \in 0 .. 2
  /\ tmp \in Nat /\ work_bgn \in Nat /\ work_end \in Nat
  /\ edge \in 0 .. DELAY_MAX + 1
  /\ fresh \in BOOLEAN
  /\ dtaps \in 0 .. DELAY_MAX
  /\ base \in 0 .. VFIFO_SIZE - 1

\* Whatever the memory answers, no read test is issued at phase tap 0, which a
\* hard PHY cannot be set to: not after backing off over a VFIFO place, not
\* while re-finding the edge for tracking, not at the centre.
PhaseZeroNeverSet == s.p # 0

\* Whatever the memory answers, the delay taps of a phase handed to tracking
\* count at least one tap when they were measured: the edge was found after a
\* read that passed.
TrackingCounts == dtaps = DtapsPerPtap \/ dtaps > 0

\* The setting, counted from the place where step 2 started.
Offset(x) == (Position(x) - base * Cycle) % Ring

\* The picosecond count of each loop is where the hardware samples: the
\* beginning counted from phase taps, the earlier edge from delay taps, and the
\* end, which is a phase tap behind when the beginning was at phase 1 (or was
\* moved up to the tap after it).
CountsFollowSetting ==
  /\ at = "begin" => Offset(s) = work_bgn % Ring
  /\ at = "backoff" => Offset(s) = tmp % Ring
  /\ at \in {"end", "dtap"} =>
       \/ Offset(s) = work_end % Ring
       \/ /\ Offset(s) = (work_end + OPA_TAP) % Ring
          /\ work_bgn % Cycle \in {OPA_TAP, 2 * OPA_TAP}

=============================================================================
