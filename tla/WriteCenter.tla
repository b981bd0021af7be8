----------------------------- MODULE WriteCenter -----------------------------
(* rw_mgr_mem_calibrate_writes_center: per-bit deskew of a write group, and *)
(* then the window of the data mask.  The DQ pins are lined up as for a     *)
(* read but DQS stays where it was; the mask pin is delayed from the end of *)
(* its chain down to nothing, then DQS instead, and the longest run of      *)
(* passing delays is the mask's window.                                     *)
EXTENDS Deskew

CONSTANTS
  Eyes,             \* the write windows a board may have
  Answers(_, _, _)  \* the sets of bits a test may pass, by eye, out and use_dm

\* What a test with the mask passes besides the bits, when the mask is obeyed.
MaskBit == DQ

VARIABLES
  eye,         \* the board's write windows
  at,          \* the loop that issues the next test
  d,           \* the loop's delay
  out,         \* the output delays: [dq, dqs, dm]
  start,       \* start_dqs
  sticky,      \* sticky_bit_chk
  edge,        \* left_edge and right_edge of each bit
  curr,        \* bgn_curr and end_curr
  best,        \* bgn_best and end_best
  margin,      \* dq_margin, dqs_margin and dm_margin
  failing      \* the bit handed to set_failing_group_stage

vars == <<eye, at, d, out, start, sticky, edge, curr, best, margin, failing>>

Stages == {"left", "right", "dm", "dqs", "found", "none"}
NoBit  == DQ
All(x) == [i \in Bits |-> x]
NoRun  == [bgn |-> Illegal, end |-> Illegal]

Init ==
  /\ eye \in Eyes
  /\ at = "left" /\ d = 0
  /\ start \in 0 .. DELAY_MAX
  /\ out = [dq |-> All(0), dqs |-> start, dm |-> 0]
  /\ sticky = {}
  /\ edge = NoEdges
  /\ curr = NoRun /\ best = NoRun
  /\ margin = [dq |-> Illegal, dqs |-> Illegal, dm |-> 0]
  /\ failing = NoBit

\* The left edges, delaying every DQ pin; then DQ is put back to 0.  Bits
\* whose left edge is known count as seen by the loop that follows.
Left ==
  /\ at = "left"
  /\ \E ok \in SUBSET Bits :
       /\ ok \in Answers(eye, out, FALSE)
       /\ LET e == IF Stops(ok, sticky) THEN edge ELSE LeftEdges(edge, d, ok)
          IN  IF Stops(ok, sticky) \/ d = DELAY_MAX
              THEN /\ at' = "right" /\ d' = 0
                   /\ out' = [out EXCEPT !.dq = All(0)]
                   /\ edge' = Cleared(e)
                   /\ sticky' = HasLeft(Cleared(e))
              ELSE /\ d' = d + 1
                   /\ out' = [out EXCEPT !.dq = All(d + 1)]
                   /\ edge' = e
                   /\ sticky' = sticky \cup ok
                   /\ UNCHANGED at
  /\ UNCHANGED <<eye, start, curr, best, margin, failing>>

----------------------------------------------------------------------------
\* A bit without a window is reported; DQS stays where the loop left it.
GiveUp(e) ==
  /\ at' = "none"
  /\ failing' = Min(Bits \ HasBoth(e))
  /\ UNCHANGED <<d, out, margin>>

\* Every bit has a window: the DQ pins do all the moving, DQS is put back,
\* and the mask is searched from the end of its delay chain.
Settle(e) ==
  /\ at' = "dm" /\ d' = DELAY_MAX
  /\ out' = [dq |-> [i \in Bits |-> ShiftDq(e, i, 0)], dqs |-> start, dm |-> DELAY_MAX]
  /\ margin' = [margin EXCEPT !.dq = Margins(e, 0).dq, !.dqs = Margins(e, 0).dqs]
  /\ UNCHANGED failing

\* The right edges, delaying DQS from where it was.  A test that stops the
\* loop at 0 still marks the marginal bits.
Right ==
  /\ at = "right"
  /\ \E ok \in SUBSET Bits :
       /\ ok \in Answers(eye, out, FALSE)
       /\ LET stop == Stops(ok, sticky)
              last == stop \/ d = DELAY_MAX - start
              e    == IF stop /\ d > 0 THEN edge ELSE RightEdges(edge, d, ok)
          IN  /\ edge' = e
              /\ sticky' = sticky \cup ok
              /\ \/ ~last /\ d' = d + 1 /\ out' = [out EXCEPT !.dqs = @ + 1]
                    /\ UNCHANGED <<at, margin, failing>>
                 \/ last /\ HasBoth(e) # Bits /\ GiveUp(e)
                 \/ last /\ HasBoth(e) = Bits /\ Settle(e)
  /\ UNCHANGED <<eye, start, curr, best>>

----------------------------------------------------------------------------
\* The mask's window is measured along one axis: -d where the mask is delayed
\* by d, d where DQS is.
Length(run) == IF run.bgn = Illegal THEN 0 ELSE run.end - run.bgn + 1

\* A test at place x of the axis prolongs the current run or ends it; only a
\* longer run displaces the best one.
Run(x, ok) ==
  IF ~ok THEN NoRun
  ELSE [bgn |-> IF curr.bgn = Illegal THEN x ELSE curr.bgn, end |-> x]

Better(run) == IF Length(run) > Length(best) THEN run ELSE best

\* The mask pin is part of the test that writes with the mask.
MaskedPass(ok) == ok = Bits \cup {MaskBit}

\* Slip: the run that reaches 0 is not carried over to DQS.
MaskAnew ==
  /\ at = "dm"
  /\ \E ok \in SUBSET (Bits \cup {MaskBit}) :
       /\ ok \in Answers(eye, out, TRUE)
       /\ LET run == Run(-d, MaskedPass(ok)) IN
            /\ best' = Better(run)
            /\ curr' = IF d = 0 THEN NoRun ELSE run
            /\ IF d > 0
               THEN d' = d - 1 /\ out' = [out EXCEPT !.dm = d - 1] /\ UNCHANGED at
               ELSE at' = "dqs" /\ UNCHANGED <<d, out>>
  /\ UNCHANGED <<eye, start, sticky, edge, margin, failing>>

\* The mask pin's delay, from the end of the chain to 0.  A run that does not
\* reach 0 is over.
Mask ==
  /\ at = "dm"
  /\ \E ok \in SUBSET (Bits \cup {MaskBit}) :
       /\ ok \in Answers(eye, out, TRUE)
       /\ LET run == Run(-d, MaskedPass(ok)) IN
            /\ best' = Better(run)
            /\ curr' = IF d = 0 /\ run.end # 0 THEN NoRun ELSE run
            /\ IF d > 0
               THEN d' = d - 1 /\ out' = [out EXCEPT !.dm = d - 1] /\ UNCHANGED at
               ELSE at' = "dqs" /\ UNCHANGED <<d, out>>
  /\ UNCHANGED <<eye, start, sticky, edge, margin, failing>>

\* The mask only moves right: a middle that takes DQS to move is taken as 0.
Mid(run) == LET mid == Half(-run.bgn - run.end) IN IF mid < 0 THEN 0 ELSE mid

\* Slip: DQS stays where the search for the mask's window left it.
FinishMoved(run) ==
  /\ out' = [out EXCEPT !.dm = Mid(run)]
  /\ margin' = [margin EXCEPT !.dm = IF run = NoRun THEN -1 ELSE -run.bgn - Mid(run)]
  /\ at' = IF margin'.dq >= 0 /\ margin'.dqs >= 0 /\ margin'.dm >= 0
           THEN "found" ELSE "none"

\* DQS goes back, the mask to the middle of the best run.
Finish(run) ==
  /\ out' = [out EXCEPT !.dqs = start, !.dm = Mid(run)]
  /\ margin' = [margin EXCEPT !.dm = IF run = NoRun THEN -1 ELSE -run.bgn - Mid(run)]
  /\ at' = IF margin'.dq >= 0 /\ margin'.dqs >= 0 /\ margin'.dm >= 0
           THEN "found" ELSE "none"

\* The delay of DQS, from where it was to the end of the chain, unless what is
\* left of the chain cannot hold a longer run.
MaskDqs ==
  /\ at = "dqs"
  /\ \E ok \in SUBSET (Bits \cup {MaskBit}) :
       /\ ok \in Answers(eye, out, TRUE)
       /\ LET run == Run(d, MaskedPass(ok))
              hopeless == ~MaskedPass(ok) /\ Length(best) - 1 > DELAY_MAX - start - d
          IN  /\ best' = Better(run)
              /\ curr' = run
              /\ \/ /\ d < DELAY_MAX - start /\ ~hopeless
                    /\ d' = d + 1
                    /\ out' = [out EXCEPT !.dqs = start + d + 1]
                    /\ UNCHANGED <<at, margin>>
                 \/ /\ d = DELAY_MAX - start \/ hopeless
                    /\ Finish(best')
                    /\ UNCHANGED d
  /\ UNCHANGED <<eye, start, sticky, edge, failing>>

Next == Left \/ Right \/ Mask \/ MaskDqs

Spec == Init /\ [][Next]_vars /\ WF_vars(Next)

----------------------------------------------------------------------------
\* The type invariant; the delays stay within their chains whatever the
\* memory answers.
Delays == 0 .. DELAY_MAX
TypeOK ==
  /\ eye \in Eyes
  /\ at \in Stages
  /\ d \in Delays
  /\ out \in [dq : [Bits -> Delays], dqs : Delays, dm : Delays]
  /\ start \in Delays
  /\ sticky \subseteq Bits
  /\ edge \in [Bits -> [l : Int, r : Int]]
  /\ curr \in [bgn : Int, end : Int] /\ best \in [bgn : Int, end : Int]
  /\ margin \in [dq : Int, dqs : Int, dm : Int]
  /\ failing \in Bits \cup {NoBit}

=============================================================================
