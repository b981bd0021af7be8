------------------------------- MODULE ReadEye -------------------------------
(* The DQS enable search against a board whose reads have a window: a read  *)
(* passes when it samples between lo and lo + width picoseconds, answers    *)
(* either way within jitter picoseconds of an edge, and fails elsewhere.    *)
EXTENDS DqsEnable

CONSTANT EyeWidths     \* picoseconds of the windows the search is built for

\* How far inside the window, from its beginning, a sample is taken.
Depth(e, pos) == (pos - e.lo) % Ring

EyeAnswers(e, x) ==
  LET depth == Depth(e, Position(x)) IN
    IF \/ depth < e.jitter \/ depth > Ring - e.jitter
       \/ depth \in (e.width - e.jitter) + 1 .. (e.width + e.jitter) - 1
    THEN BOOLEAN
    ELSE {depth <= e.width}

\* The windows and the delay chain: four phase taps at least, less than two
\* cycles by three phase taps, and delay taps that reach past a phase tap but
\* not past two.
EyeSetting ==
  /\ \A e \in Eyes : e.lo \in Int
  /\ \A e \in Eyes, x \in Settings : Answers(e, x) = EyeAnswers(e, x)
  /\ \A w \in EyeWidths : w \in Nat /\ 4 * OPA_TAP <= w /\ w + 3 * OPA_TAP < 2 * Cycle
  /\ VFIFO_SIZE >= 2
  /\ DCHAIN_TAP <= OPA_TAP /\ DELAY_MAX * DCHAIN_TAP < 2 * OPA_TAP

----------------------------------------------------------------------------
\* A window of four phase taps or more, with steady edges ...
Wide == eye.width \in EyeWidths /\ eye.jitter = 0

\* ... is always found, and whatever the memory answers the search ends.
Succeeds == <>(Done /\ (Wide => at = "found"))

\* The setting that is kept samples within a phase tap and a half of the
\* middle of such a window: a tap for a centre that falls on phase 0, which
\* is moved to phase 1, half a tap for the end being counted a tap short.
NearMiddle ==
  at = "found" /\ Wide =>
    LET depth == Depth(eye, Position(s)) IN
      /\ 2 * depth >= eye.width - 3 * OPA_TAP
      /\ 2 * depth <= eye.width + 3 * OPA_TAP

\* The delay taps handed to tracking span one phase tap of time.
TracksOnePhase ==
  at = "found" /\ Wide => dtaps \in {DtapsPerPtap, DtapsPerPtap + 1}

=============================================================================
