------------------------------ MODULE MCDeskew ------------------------------
(* Per-bit deskew of a read group, or of a write group, of a board whose    *)
(* bits have windows: a bit passes while DQS is delayed by between lo and   *)
(* hi taps more than its DQ pin.  One more board of each side answers       *)
(* anything: jitter, a dead device, windows with holes.                     *)
EXTENDS ReadCenter

CONSTANTS
  WRITE_MAX,      \* IO_IO_OUT1_DELAY_MAX of the write side
  WriteWindows    \* the windows of a bit of the write side

VARIABLES
  side,       \* the side that is deskewed: "read" or "write"
  w_eye, w_at, w_d, w_out, w_start, w_sticky, w_edge, w_curr, w_best, w_margin, w_failing

w_vars == <<w_eye, w_at, w_d, w_out, w_start, w_sticky, w_edge, w_curr, w_best, w_margin, w_failing>>

Window(l, h) == [lo |-> l, hi |-> h]
Spans(w, x)  == w.lo <= x /\ x <= w.hi

\* Every bit of the board that answers anything has this for a window.
AnyWindow == Window(1, 0)

----------------------------------------------------------------------------
\* Windows of a read: in reach of the chains, across their ends, beyond them.
ReadWindows ==
  {Window(l, h) : l \in -DELAY_MAX - 1 .. DQS_IN_MAX, h \in -DELAY_MAX - 1 .. DQS_IN_MAX + 1}

MCEyes == {e \in [Bits -> ReadWindows] : \A i \in Bits : e[i].lo <= e[i].hi}
          \cup {All(AnyWindow)}

MCAnswers(e, x, y) ==
  IF e = All(AnyWindow) THEN SUBSET Bits
  ELSE {{i \in Bits : Spans(e[i], y - x[i])}}

\* What is read of a board with windows follows from them; nothing is assumed
\* of the board that answers anything.
ASSUME ReadAssumption ==
  /\ Eyes \subseteq [Bits -> [lo : Int, hi : Int]]
  /\ \A e \in Eyes \ {All(AnyWindow)} :
       /\ \A i \in Bits : e[i].lo <= e[i].hi
       /\ \A x \in [Bits -> 0 .. DELAY_MAX], y \in 0 .. DQS_IN_MAX :
            Answers(e, x, y) = MCAnswers(e, x, y)

\* The taps by which a bit is sampled after its window opens and before it
\* closes.
After(i)  == dqs - dq[i] - eye[i].lo
Before(i) == eye[i].hi - (dqs - dq[i])

----------------------------------------------------------------------------
\* The mask of a write is obeyed at any set of distances between DQS and the
\* mask pin: one window, several, or none.
MCWriteWindows ==
  {Window(-3, 0), Window(-2, 1), Window(-1, 2), Window(0, 3), Window(1, 4)}

ASSUME WriteAssumption ==
  /\ WRITE_MAX \in Nat
  /\ WriteWindows \subseteq [lo : Int, hi : Int]
  /\ \A w \in WriteWindows : w.lo <= w.hi

WriteAny  == [bit |-> All(AnyWindow), mask |-> {}]
WriteEyes == [bit : [Bits -> WriteWindows], mask : SUBSET (-WRITE_MAX .. WRITE_MAX)]

MaskBit       == DQ
Sampled(x, i) == x.dqs - x.dq[i]
Inside(e, x)  == {i \in Bits : Spans(e.bit[i], Sampled(x, i))}
Obeyed(e, x)  == x.dqs - x.dm \in e.mask
WritesWork(e, x) == Inside(e, x) = Bits /\ Obeyed(e, x)

WriteAnswers(e, x, use_dm) ==
  IF e = WriteAny THEN SUBSET (Bits \cup (IF use_dm THEN {MaskBit} ELSE {}))
  ELSE {Inside(e, x) \cup (IF use_dm /\ Obeyed(e, x) THEN {MaskBit} ELSE {})}

W == INSTANCE WriteCenter WITH
       DELAY_MAX <- WRITE_MAX, Eyes <- WriteEyes \cup {WriteAny}, Answers <- WriteAnswers,
       eye <- w_eye, at <- w_at, d <- w_d, out <- w_out, start <- w_start,
       sticky <- w_sticky, edge <- w_edge, curr <- w_curr, best <- w_best,
       margin <- w_margin, failing <- w_failing

----------------------------------------------------------------------------
\* The side that is not deskewed rests in one of its initial states.
MCInit ==
  /\ \/ side = "read" /\ w_eye = WriteAny /\ w_start = 0
     \/ side = "write" /\ eye = All(AnyWindow) /\ start = 0
  /\ Init /\ W!Init

MCNext ==
  \/ side = "read" /\ Next /\ UNCHANGED <<side, w_vars>>
  \/ side = "write" /\ W!Next /\ UNCHANGED <<side, vars>>

MCSpec == MCInit /\ [][MCNext]_<<side, vars, w_vars>>

----------------------------------------------------------------------------
\* The delays of both sides stay within their chains whatever the memory
\* answers.
TypesOK == TypeOK /\ W!TypeOK

\* When deskew reports success, the margins it returns are there on every bit,
\* so every bit is read correctly with the delays it leaves.
ReadMarginsAreReal ==
  at = "found" /\ eye # All(AnyWindow) =>
    \A i \in Bits : margin.dq <= After(i) /\ margin.dqs <= Before(i)

\* A write with the mask is correct with the delays that a successful deskew
\* leaves, and stays correct when any of them is off by as much as the margins
\* returned: the search for the mask's window put DQS back.
WriteMarginsAreReal ==
  w_at = "found" /\ w_eye # WriteAny =>
    /\ WritesWork(w_eye, w_out)
    /\ \A i \in Bits : /\ w_margin.dq  <= Sampled(w_out, i) - w_eye.bit[i].lo
                       /\ w_margin.dqs <= w_eye.bit[i].hi - Sampled(w_out, i)
    /\ \A n \in 0 .. w_margin.dm : WritesWork(w_eye, [w_out EXCEPT !.dm = @ + n])

\* The margins that either side returns are there.
MarginsAreReal == ReadMarginsAreReal /\ WriteMarginsAreReal

\* A bit of a read that no limit of a chain stopped is centred to the tap,
\* when its whole window was in reach of the two loops.  The bits are moved to
\* the one with the least middle, whose own delay is 0: of it, as of every bit
\* at an end of its chain, nothing is said here.
Centred ==
  at = "found" /\ eye # All(AnyWindow) =>
    \A i \in Bits :
      (/\ dq[i] \in 1 .. DELAY_MAX - 1 /\ dqs \in 1 .. DQS_IN_MAX - 1
       /\ start - DELAY_MAX <= eye[i].lo /\ eye[i].hi <= DQS_IN_MAX)
      => After(i) - Before(i) \in -1 .. 1

\* Deskew fails only for cause: the bit it reports has no window in reach of
\* either loop, or, when it reports none, a chain is too short to line the
\* windows up or the mask has no window that is reached without moving DQS.
ReadFailsForCause ==
  at = "none" /\ eye # All(AnyWindow) =>
    IF failing # NoBit
    THEN eye[failing].hi < start - DELAY_MAX \/ eye[failing].lo > DQS_IN_MAX
    ELSE dqs \in {0, DQS_IN_MAX} \/ \E i \in Bits : dq[i] = DELAY_MAX

\* The same of a write, or of the mask; here any bit at an end of its chain
\* passes for a cause.
WriteFailsForCause ==
  w_at = "none" /\ w_eye # WriteAny =>
    IF w_failing # NoBit
    THEN \/ w_eye.bit[w_failing].hi < w_start - WRITE_MAX
         \/ w_eye.bit[w_failing].lo > WRITE_MAX
    ELSE \/ \E i \in Bits : w_out.dq[i] \in {0, WRITE_MAX}
         \/ w_best = W!NoRun \/ w_best.bgn > 0

\* Both sides fail only for cause.
FailsForCause == ReadFailsForCause /\ WriteFailsForCause

\* The places of the mask's axis at which a write with the mask passes, DQ
\* being settled; [a .. b] is a run of them.
Place(x)    == [w_out EXCEPT !.dqs = w_start + (IF x > 0 THEN x ELSE 0),
                             !.dm  = IF x < 0 THEN -x ELSE 0]
Passing     == {x \in -WRITE_MAX .. WRITE_MAX - w_start : WritesWork(w_eye, Place(x))}
IsRun(a, b) == a <= b /\ a .. b \subseteq Passing

\* The search keeps the longest run of passing delays, the first of equals,
\* over both chains: also a run that crosses 0, where the mask's delay ends
\* and that of DQS begins, and also when the search stops early.
LongestRun ==
  w_at \in {"found", "none"} /\ w_failing = NoBit /\ w_eye # WriteAny =>
    IF Passing = {} THEN w_best = W!NoRun
    ELSE /\ IsRun(w_best.bgn, w_best.end)
         /\ \A a, b \in Passing :
              IsRun(a, b) => \/ b - a < w_best.end - w_best.bgn
                             \/ b - a = w_best.end - w_best.bgn /\ w_best.bgn <= a

=============================================================================
