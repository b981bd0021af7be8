----------------------------- MODULE Calibrator -----------------------------
(* What a calibration of the SDRAM interface promises the hardware around   *)
(* it: a call takes the interface from the memory controller, passes its    *)
(* tests one after the other or stops at one that fails, gives the          *)
(* interface back, and only then says whether every test passed.            *)

CONSTANT Tests  \* the tests a calibration must pass

VARIABLES
  phase,   \* "idle", "claimed", "testing" or "released"
  passed,  \* the tests this call has passed
  status   \* the verdict shown: "reset", "success" or "fail"

vars == <<phase, passed, status>>

Init == phase = "idle" /\ passed = {} /\ status \in {"reset", "success", "fail"}

\* A call withdraws the verdict of the last one before it does anything.
Claim ==
  /\ phase = "idle"
  /\ phase' = "claimed" /\ passed' = {} /\ status' = "reset"

Take ==
  /\ phase = "claimed"
  /\ phase' = "testing" /\ UNCHANGED <<passed, status>>

\* One more test passes; none is counted twice.
Pass ==
  /\ phase = "testing"
  /\ \E t \in Tests \ passed : passed' = passed \cup {t}
  /\ UNCHANGED <<phase, status>>

Release ==
  /\ phase = "testing"
  /\ phase' = "released" /\ UNCHANGED <<passed, status>>

Report ==
  /\ phase = "released"
  /\ status' = IF passed = Tests THEN "success" ELSE "fail"
  /\ phase' = "idle" /\ UNCHANGED passed

Next == Claim \/ Take \/ Pass \/ Release \/ Report

Safety == Init /\ [][Next]_vars

\* A call that began returns.
Spec == Safety /\ WF_vars(Take) /\ WF_vars(Release) /\ WF_vars(Report)

=============================================================================
