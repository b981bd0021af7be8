----------------------------- MODULE ReadCenter -----------------------------
(* rw_mgr_mem_calibrate_vfifo_center: per-bit deskew of a read group.  The  *)
(* delay of all DQ pins is raised to find the left edge of each bit's       *)
(* window, then the delay of DQS to find the right edge; DQS moves to the   *)
(* middle of the window that is furthest off, and every DQ pin is delayed   *)
(* to line up.  Every action is one test and the code that runs until the   *)
(* next; a test answers the set of bits that were read correctly.           *)
EXTENDS Deskew

CONSTANTS
  DQS_IN_MAX,       \* IO_DQS_IN_DELAY_MAX
  Eyes,             \* the read windows a board may have
  Answers(_, _, _)  \* the sets of bits a test may pass, by eye, dq and dqs

ASSUME ReadCenterAssumption == DQS_IN_MAX \in 0 .. DELAY_MAX

VARIABLES
  eye,         \* the board's read windows
  at,          \* the loop that issues the next test
  d,           \* the loop's delay
  dq,          \* the DQ delay of each bit
  dqs,         \* the DQS bus delay
  start,       \* start_dqs
  sticky,      \* sticky_bit_chk
  edge,        \* left_edge and right_edge of each bit
  margin,      \* dq_margin and dqs_margin
  failing      \* the bit handed to set_failing_group_stage

vars == <<eye, at, d, dq, dqs, start, sticky, edge, margin, failing>>

Stages == {"left", "right", "found", "none"}
NoBit  == DQ
All(x) == [i \in Bits |-> x]

Init ==
  /\ eye \in Eyes
  /\ at = "left" /\ d = 0
  /\ dq = All(0)
  /\ start \in 0 .. DQS_IN_MAX /\ dqs = start
  /\ sticky = {}
  /\ edge = NoEdges
  /\ margin = [dq |-> Illegal, dqs |-> Illegal]
  /\ failing = NoBit

\* The left edges, delaying every DQ pin; then DQ is put back to 0.  Bits
\* whose two edges are known count as seen by the loop that follows.
Left ==
  /\ at = "left"
  /\ \E ok \in SUBSET Bits :
       /\ ok \in Answers(eye, dq, dqs)
       /\ LET e == IF Stops(ok, sticky) THEN edge ELSE LeftEdges(edge, d, ok)
          IN  IF Stops(ok, sticky) \/ d = DELAY_MAX
              THEN /\ at' = "right" /\ d' = 0
                   /\ dq' = All(0)
                   /\ edge' = Cleared(e)
                   /\ sticky' = HasBoth(Cleared(e))
              ELSE /\ d' = d + 1
                   /\ dq' = All(d + 1)
                   /\ edge' = e
                   /\ sticky' = sticky \cup ok
                   /\ UNCHANGED at
  /\ UNCHANGED <<eye, dqs, start, margin, failing>>

----------------------------------------------------------------------------
\* Slip: the delay of DQS is not put back.
GiveUpMoved(e) ==
  /\ at' = "none"
  /\ failing' = Min(Bits \ HasBoth(e))
  /\ UNCHANGED <<dq, dqs, margin>>

\* A bit without a window: put DQS back and report the first such bit.
GiveUp(e) ==
  /\ at' = "none"
  /\ failing' = Min(Bits \ HasBoth(e))
  /\ dqs' = start
  /\ UNCHANGED <<dq, margin>>

\* Every bit has a window: DQS to the middle, as far as it can go, and the DQ
\* pins to line up with it.
Settle(e) ==
  LET new_dqs == Clamp(start - MidMin(e), DQS_IN_MAX)
      moved   == start - new_dqs
  IN  /\ dqs' = new_dqs
      /\ dq' = [i \in Bits |-> ShiftDq(e, i, moved)]
      /\ margin' = Margins(e, moved)
      /\ at' = IF margin'.dq >= 0 /\ margin'.dqs >= 0 THEN "found" ELSE "none"
      /\ UNCHANGED failing

\* The right edges, delaying DQS from where it was.
Right ==
  /\ at = "right"
  /\ \E ok \in SUBSET Bits :
       /\ ok \in Answers(eye, dq, dqs)
       /\ LET last == Stops(ok, sticky) \/ d = DQS_IN_MAX - start
              e    == IF Stops(ok, sticky) THEN edge ELSE RightEdges(edge, d, ok)
          IN  /\ edge' = e
              /\ sticky' = sticky \cup ok
              /\ \/ ~last /\ d' = d + 1 /\ dqs' = dqs + 1
                    /\ UNCHANGED <<at, dq, margin, failing>>
                 \/ last /\ HasBoth(e) # Bits /\ GiveUp(e) /\ UNCHANGED d
                 \/ last /\ HasBoth(e) = Bits /\ Settle(e) /\ UNCHANGED d
  /\ UNCHANGED <<eye, start>>

Next == Left \/ Right

Spec == Init /\ [][Next]_vars /\ WF_vars(Next)

----------------------------------------------------------------------------
\* The type invariant; the delays stay within their chains whatever the
\* memory answers.
TypeOK ==
  /\ eye \in Eyes
  /\ at \in Stages
  /\ d \in 0 .. DELAY_MAX
  /\ dq \in [Bits -> 0 .. DELAY_MAX]
  /\ dqs \in 0 .. DQS_IN_MAX
  /\ start \in 0 .. DQS_IN_MAX
  /\ sticky \subseteq Bits
  /\ edge \in [Bits -> [l : Int, r : Int]]
  /\ margin \in [dq : Int, dqs : Int]
  /\ failing \in Bits \cup {NoBit}

\* Whatever the memory answers, a group reported as having no window leaves
\* DQS where it was found, for the caller to try other relationships.
FailureRestores == failing # NoBit => at = "none" /\ dqs = start /\ dq = All(0)

=============================================================================
