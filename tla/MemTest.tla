------------------------------- MODULE MemTest -------------------------------
(* The memory tests every search of the calibration asks its questions      *)
(* with: the read test, the write test and the guaranteed read.  A test     *)
(* runs the read-write manager once per rank and virtual group, reads its   *)
(* error word, and folds the words of a rank into one bit per DQ pin.       *)
EXTENDS Interface

Pins     == 0 .. WIDTH * VG - 1   \* read_correct_mask, write_correct_mask
Lanes    == 0 .. WIDTH - 1        \* the masks of a virtual group
Kinds    == {"read", "write", "patterns"}
NoPhase  == -1

VARIABLES
  kind,        \* which of the three functions was called
  all_correct, \* whether every pin must pass, or one is enough
  at,          \* "test", "checked" or "done"
  try,         \* the tests made before this one
  rank, vg,    \* the loops of a test
  word,        \* the error word of the read-write manager
  tmp,         \* tmp_bit_chk
  bit_chk,     \* *bit_chk
  phase,       \* the DQS enable phase the guaranteed read set, if it did
  result,      \* what the function returns
  bad          \* the pins that failed in this test (a record of the run)

vars == <<kind, all_correct, at, try, rank, vg, word, tmp, bit_chk, phase, result, bad>>

\* A test begins with every pin correct and the first rank that is not
\* skipped; with none there is nothing to ask.
FirstStep == IF RanksFrom(0) = {} THEN "checked" ELSE "test"
FirstRank == IF RanksFrom(0) = {} THEN 0 ELSE LeastRank(RanksFrom(0))

Init ==
  /\ kind \in Kinds
  /\ all_correct \in IF kind = "patterns" THEN {TRUE} ELSE BOOLEAN
  /\ at = FirstStep /\ rank = FirstRank /\ vg = VG - 1
  /\ try = 0 /\ word = {} /\ tmp = {}
  /\ bit_chk = Pins /\ bad = {}
  /\ phase = NoPhase /\ result = FALSE

Again ==
  /\ at' = FirstStep /\ rank' = FirstRank
  /\ try' = try + 1
  /\ bit_chk' = Pins /\ bad' = {}

----------------------------------------------------------------------------
\* Slip: the datapath is not reset, and the word keeps earlier errors.
SeenSince(e) == word \cup e

\* The error word after a run whose errors are e, the datapath having been
\* reset before it.
Seen(e) == e

\* The check so far makes room for the lanes of one more virtual group.
Folded(w) == {b + WIDTH : b \in tmp} \cup (Lanes \ w)

\* A rank's check narrows the test's.
Narrowed(t) == bit_chk \cap t

\* One turn of the loop over virtual groups, downwards; after the last the
\* next rank that is not skipped.
Turn ==
  /\ at = "test"
  /\ \E e \in SUBSET Lanes :
       /\ word' = Seen(e)
       /\ bad' = bad \cup {b + vg * WIDTH : b \in e}
       /\ IF vg > 0
          THEN /\ tmp' = Folded(Seen(e)) /\ vg' = vg - 1
               /\ UNCHANGED <<at, rank, bit_chk>>
          ELSE /\ bit_chk' = Narrowed(Folded(Seen(e)))
               /\ tmp' = {} /\ vg' = VG - 1
               /\ IF RanksFrom(rank + 1) = {}
                  THEN at' = "checked" /\ UNCHANGED rank
                  ELSE rank' = LeastRank(RanksFrom(rank + 1)) /\ UNCHANGED at
  /\ UNCHANGED <<kind, all_correct, try, phase, result>>

----------------------------------------------------------------------------
\* What one test says.
Verdict == IF all_correct THEN bit_chk = Pins ELSE bit_chk # {}

Return(r) ==
  /\ at' = "done" /\ result' = r
  /\ UNCHANGED <<rank, try, bit_chk, bad, phase>>

\* A write test is made once.
CheckWrite == kind = "write" /\ Return(Verdict)

\* A read test is repeated as long as it passes.
CheckRead ==
  /\ kind = "read"
  /\ \/ Verdict /\ try + 1 < TRIES /\ Again /\ UNCHANGED <<phase, result>>
     \/ ~(Verdict /\ try + 1 < TRIES) /\ Return(Verdict)

\* Slip: the last phase is not tried.
CheckPatternsShort ==
  /\ kind = "patterns"
  /\ \/ Verdict /\ Return(TRUE)
     \/ ~Verdict /\ try < PHASE_MAX /\ phase' = try /\ Again /\ UNCHANGED result
     \/ ~Verdict /\ try >= PHASE_MAX /\ Return(FALSE)

\* Slip: the phases are tried for ever.
CheckPatternsForever ==
  /\ kind = "patterns"
  /\ \/ Verdict /\ Return(TRUE)
     \/ ~Verdict /\ phase' = try % (PHASE_MAX + 1)
        /\ at' = FirstStep /\ rank' = FirstRank /\ bit_chk' = Pins /\ bad' = {}
        /\ UNCHANGED <<try, result>>

\* The guaranteed read is repeated as long as it fails, with every DQS enable
\* phase in turn.
CheckPatterns ==
  /\ kind = "patterns"
  /\ \/ Verdict /\ Return(TRUE)
     \/ ~Verdict /\ try <= PHASE_MAX /\ phase' = try /\ Again /\ UNCHANGED result
     \/ ~Verdict /\ try > PHASE_MAX /\ Return(FALSE)

Check ==
  /\ at = "checked"
  /\ CheckWrite \/ CheckRead \/ CheckPatterns
  /\ UNCHANGED <<kind, all_correct, word, tmp, vg>>

Next == Turn \/ Check

Spec == Init /\ [][Next]_vars /\ WF_vars(Next)

----------------------------------------------------------------------------
\* The type invariant.
TypeOK ==
  /\ kind \in Kinds /\ all_correct \in BOOLEAN
  /\ at \in {"test", "checked", "done"}
  /\ try \in 0 .. TRIES + PHASE_MAX + 1
  /\ rank \in 0 .. RANKS - 1 /\ vg \in 0 .. VG - 1
  /\ word \subseteq Lanes
  /\ tmp \subseteq Pins /\ bit_chk \subseteq Pins /\ bad \subseteq Pins
  /\ phase \in -1 .. PHASE_MAX
  /\ result \in BOOLEAN

\* After a test the check names exactly the pins that failed in no rank that
\* is not skipped, each pin in its place whatever virtual group it is in.
CheckIsExact == at \in {"checked", "done"} => bit_chk = Pins \ bad

\* A read that is said to work worked in every test; a guaranteed read that is
\* said not to failed with every phase, and one that works leaves the phase it
\* worked with.
NoTestIsSkipped ==
  at = "done" =>
    /\ kind = "read" /\ result => try + 1 >= TRIES
    /\ kind = "patterns" /\ ~result => try = PHASE_MAX + 1
    /\ kind = "patterns" => phase = try - 1

=============================================================================
