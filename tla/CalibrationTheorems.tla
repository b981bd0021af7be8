------------------------- MODULE CalibrationTheorems -------------------------
(* Invariants of the calibration flow for every number of groups and bits,   *)
(* every delay chain and every outcome of the searches, and that the flow    *)
(* implements what a calibration promises.                                  *)
EXTENDS Calibration, TLAPS

----------------------------------------------------------------------------
(* The type invariant.                                                      *)

\* A bit's number is a natural number.
LEMMA BitsAreNat ==
  ASSUME NEW g \in Groups
  PROVE  BitsOf(g) \subseteq Nat
<1>1. g \in Nat /\ DQ \in Nat
  BY CalibrationAssumption DEF Groups
<1>2. g * DQ \in Nat
  BY <1>1
<1> QED
  BY <1>1, <1>2 DEF BitsOf

\* Recording a failure keeps the record a record.
LEMMA RecordedType ==
  ASSUME NEW e \in Errors, NEW g \in Nat, NEW stage \in CalStages, NEW sub \in SubStages
  PROVE  Recorded(e, g, stage, sub) \in Errors
BY DEF Recorded, Errors

\* What holds of the search at a delay and a tap.
Searching == at \in {"pattern", "sweep", "centre"} => d <= PTAP

\* The latency starts above zero.
LEMMA StartLatencyType == StartLatency \in Nat \ {0}
BY CalibrationAssumption DEF StartLatency

\* The next output delay, or none, keeps the types.
LEMMA NextDelayType ==
  ASSUME TypeOK, NEW e \in Errors, NEW sub \in SubStages, NextDelay(e, sub), d <= PTAP
  PROVE  /\ d' \in 0 .. PTAP + 2 /\ err' \in Errors /\ substage' \in SubStages
         /\ out' \in [Groups -> [dq : {0}, dqs : 2 .. PTAP \cup {OUT_RESERVE}, deskewed : BOOLEAN]]
         /\ pass' \in BOOLEAN /\ at' \in {"pattern", "handoff"}
         /\ at' = "pattern" => d' <= PTAP
<1> USE DEF TypeOK
<1>1. group \in Nat /\ group \in Groups /\ PTAP \in Nat /\ d \in Nat
  BY CalibrationAssumption DEF Groups
<1>2. CASE d + 2 <= PTAP
  <2>1. Added(out[group], d + 2) \in [dq : {0}, dqs : 2 .. PTAP \cup {OUT_RESERVE}, deskewed : BOOLEAN]
    BY <1>1, <1>2 DEF Added
  <2> QED
    BY <1>1, <1>2, <2>1 DEF NextDelay
<1>3. CASE ~(d + 2 <= PTAP)
  <2>1. Recorded(e, group, "VFIFO", sub) \in Errors
    BY <1>1, RecordedType DEF CalStages
  <2> QED
    BY <1>1, <1>3, <2>1 DEF NextDelay
<1> QED
  BY <1>2, <1>3

\* So does the next tap.
LEMMA NextTapType ==
  ASSUME TypeOK, NEW e \in Errors, NEW sub \in SubStages, NEW left \in 0 .. DQS_IN_MAX,
         NextTap(e, sub, left), d <= PTAP
  PROVE  /\ d' \in 0 .. PTAP + 2 /\ err' \in Errors /\ substage' \in SubStages
         /\ out' \in [Groups -> [dq : {0}, dqs : 2 .. PTAP \cup {OUT_RESERVE}, deskewed : BOOLEAN]]
         /\ pass' \in BOOLEAN /\ at' \in {"pattern", "sweep", "handoff"}
         /\ at' # "handoff" => d' <= PTAP
         /\ tap' \in 0 .. DQS_IN_MAX /\ dqs_in' \in [Groups -> 0 .. DQS_IN_MAX]
<1>1. CASE tap < DQS_IN_MAX
  BY <1>1, CalibrationAssumption DEF TypeOK, NextTap, TryTap
<1>2. CASE ~(tap < DQS_IN_MAX)
  <2>1. NextDelay(e, sub) /\ dqs_in' = [dqs_in EXCEPT ![group] = left] /\ tap' = tap
    BY <1>2 DEF NextTap
  <2>2. tap' \in 0 .. DQS_IN_MAX /\ dqs_in' \in [Groups -> 0 .. DQS_IN_MAX]
    BY <2>1 DEF TypeOK
  <2> QED
    BY <2>1, <2>2, NextDelayType
<1> QED
  BY <1>1, <1>2

----------------------------------------------------------------------------
(* The latency, and the type invariant of the whole flow.                   *)

\* What is known of the latencies tested: none before the search, all those
\* above the present one in it, and a spare one behind it if it succeeded.
LatencyInv ==
  /\ at \in {"group", "pattern", "sweep", "centre", "write", "reread"} =>
       lat = StartLatency /\ works = {}
  /\ at = "claimed" => works = {}
  /\ at = "latency" => lat \in 1 .. StartLatency /\ works = lat + 1 .. StartLatency
  /\ at \in {"handoff", "restore", "report"} =>
       (pass <=> works # {}) /\ (pass => works = lat - 1 .. StartLatency)

FlowInv == TypeOK /\ Searching /\ LatencyInv

\* The end of the loop over latencies.
LEMMA LatencyDoneType ==
  ASSUME TypeOK, NEW n \in 0 .. StartLatency, LatencyDone(n),
         works' = n + 1 .. StartLatency
  PROVE  /\ at' = "handoff" /\ lat' \in 0 .. StartLatency + 1
         /\ pass' \in BOOLEAN /\ err' \in Errors
         /\ pass' <=> works' # {}
         /\ pass' => works' = lat' - 1 .. StartLatency
<1>1. n \in Nat /\ StartLatency \in Nat
  BY StartLatencyType
<1>2. CASE works' = {}
  <2>1. Recorded(err, 255, "LFIFO", "READ_LATENCY") \in Errors
    BY RecordedType DEF TypeOK, CalStages, SubStages
  <2>2. /\ at' = "handoff" /\ pass' = FALSE /\ lat' = n
        /\ err' = Recorded(err, 255, "LFIFO", "READ_LATENCY")
    BY <1>2 DEF LatencyDone
  <2>3. n \in 0 .. StartLatency + 1 /\ FALSE \in BOOLEAN
    BY <1>1
  <2>4. err' \in Errors /\ lat' \in 0 .. StartLatency + 1 /\ pass' \in BOOLEAN
    BY <2>1, <2>2, <2>3
  <2> QED
    BY <1>2, <2>2, <2>4
<1>3. CASE works' # {}
  <2>1. n + 1 <= StartLatency
    BY <1>1, <1>3
  <2>2. lat' = n + 2 /\ pass' = TRUE /\ err' = err /\ at' = "handoff"
    BY <1>3 DEF LatencyDone
  <2> QED
    BY <1>1, <1>3, <2>1, <2>2 DEF TypeOK
<1> QED
  BY <1>2, <1>3

\* A step that fails records a bit of the group, or the group.
LEMMA FailType ==
  ASSUME TypeOK, NEW stage \in CalStages, NEW sub \in SubStages, Fail(stage, sub)
  PROVE  at' = "handoff" /\ pass' = FALSE /\ err' \in Errors
<1>1. PICK g \in BitsOf(group) \cup {group} : err' = Recorded(err, g, stage, sub)
  BY DEF Fail
<1>2. group \in Groups /\ group \in Nat
  BY CalibrationAssumption DEF TypeOK, Groups
<1>3. g \in Nat
  BY <1>1, <1>2, BitsAreNat
<1>4. err \in Errors
  BY DEF TypeOK
<1>5. Recorded(err, g, stage, sub) \in Errors
  BY <1>3, <1>4, RecordedType
<1> QED
  BY <1>1, <1>5 DEF Fail

LEMMA FlowInit == Init => FlowInv
<1> SUFFICES ASSUME Init PROVE FlowInv
  OBVIOUS
<1>1. 0 \in Groups
  BY CalibrationAssumption DEF Groups
<1>2. NoError \in Errors
  BY DEF NoError, Errors, CalStages, SubStages
<1>3. StartLatency \in Nat
  BY StartLatencyType
<1>4. out \in [Groups -> [dq : {0}, dqs : 2 .. PTAP \cup {OUT_RESERVE}, deskewed : BOOLEAN]]
  BY DEF Init, Zeroed
<1>5. dqs_in \in [Groups -> 0 .. DQS_IN_MAX]
  <2>1. DQS_IN_MAX \in Nat
    BY CalibrationAssumption
  <2> QED
    BY <2>1 DEF Init
<1>6. reg \in [status : {"reset", "success", "fail"},
              mux : {"controller", "sequencer"}, tracking : BOOLEAN,
              cur : [stage : CalStages, substage : SubStages],
              failing : Errors]
  BY <1>2 DEF Init, CalStages, SubStages
<1>7. /\ at = "idle" /\ group = 0 /\ d = 0 /\ tap = 0 /\ orig = 0 /\ substage = "NIL"
      /\ err = NoError /\ lat = 0 /\ works = {} /\ passed = {}
  BY DEF Init
<1>8. pass \in BOOLEAN /\ saved \in BOOLEAN
  BY DEF Init
<1>9. PTAP \in Nat /\ DQS_IN_MAX \in Nat
  BY CalibrationAssumption
<1>10. TypeOK
  BY <1>1, <1>2, <1>3, <1>4, <1>5, <1>6, <1>7, <1>8, <1>9 DEF TypeOK, Steps, SubStages
<1> QED
  BY <1>7, <1>10 DEF FlowInv, Searching, LatencyInv

LEMMA FlowNext == FlowInv /\ [Next]_vars => FlowInv'
<1> SUFFICES ASSUME FlowInv, [Next]_vars PROVE FlowInv'
  OBVIOUS
<1> DEFINE Settings == [Groups -> [dq : {0}, dqs : 2 .. PTAP \cup {OUT_RESERVE}, deskewed : BOOLEAN]]
           Registers == [status : {"reset", "success", "fail"},
                         mux : {"controller", "sequencer"}, tracking : BOOLEAN,
                         cur : [stage : CalStages, substage : SubStages],
                         failing : Errors]
<1>0. StartLatency \in Nat \ {0}
  BY StartLatencyType
<1>a. NoError \in Errors
  BY DEF NoError, Errors, CalStages, SubStages
<1>t. TypeOK /\ out \in Settings /\ reg \in Registers
  BY DEF FlowInv, TypeOK
<1>c. /\ group \in Nat /\ 0 \in Groups /\ PTAP \in Nat /\ DQS_IN_MAX \in Nat
      /\ IN_RESERVE \in 0 .. DQS_IN_MAX /\ GROUPS \in Nat \ {0}
  BY <1>t, CalibrationAssumption DEF TypeOK, Groups
<1>z. Zeroed \in [dq : {0}, dqs : 2 .. PTAP \cup {OUT_RESERVE}, deskewed : BOOLEAN]
  BY DEF Zeroed
<1>s. \A stage \in CalStages, sub \in SubStages : Showing(stage, sub) \in Registers
  BY <1>t DEF Showing
<1>1. CASE Begin
  <2>1. Showing("NIL", "NIL") \in Registers
    BY <1>s DEF CalStages, SubStages
  <2>2. reg' \in Registers
    BY <1>1, <1>a, <2>1 DEF Begin
  <2> QED
    BY <1>1, <1>t, <2>2 DEF Begin, FlowInv, TypeOK, Searching, LatencyInv, search, Steps
<1>2. CASE Claim
  <2>1. reg' \in Registers /\ saved' \in BOOLEAN
    BY <1>2, <1>t DEF Claim
  <2> QED
    BY <1>2, <1>t, <2>1 DEF Claim, FlowInv, TypeOK, Searching, LatencyInv, search, Steps
<1>3. CASE Take
  <2>1. reg' \in Registers
    BY <1>3, <1>t DEF Take
  <2>2. dqs_in' \in [Groups -> 0 .. DQS_IN_MAX]
    BY <1>3, <1>c DEF Take
  <2> QED
    BY <1>3, <1>t, <1>0, <1>a, <1>c, <2>1, <2>2
    DEF Take, FlowInv, TypeOK, Searching, LatencyInv, Steps
<1>4. CASE StartGroup
  <2>1. reg' \in Registers
    BY <1>4, <1>s DEF StartGroup, CalStages, SubStages
  <2>2. out' \in Settings
    BY <1>4, <1>t, <1>z DEF StartGroup
  <2> QED
    BY <1>4, <1>t, <1>c, <2>1, <2>2
    DEF StartGroup, FlowInv, TypeOK, Searching, LatencyInv, Steps, SubStages
<1>5. CASE Pattern
  <2>1. d <= PTAP
    BY <1>5 DEF Pattern, FlowInv, Searching
  <2>2. CASE NextDelay(err, substage) /\ UNCHANGED <<tap, orig, dqs_in, reg>>
    <3>1. /\ d' \in 0 .. PTAP + 2 /\ err' \in Errors /\ substage' \in SubStages
          /\ out' \in Settings
          /\ pass' \in BOOLEAN /\ at' \in {"pattern", "handoff"}
          /\ at' = "pattern" => d' <= PTAP
      BY <1>t, <2>1, <2>2, NextDelayType DEF TypeOK
    <3>2. at' = "handoff" => pass' = FALSE
      BY <2>2 DEF NextDelay
    <3> QED
      BY <1>5, <1>t, <2>2, <3>1, <3>2
      DEF Pattern, FlowInv, TypeOK, Searching, LatencyInv, Steps
  <2>3. CASE ~(NextDelay(err, substage) /\ UNCHANGED <<tap, orig, dqs_in, reg>>)
    <3>1. /\ at' = "sweep" /\ orig' = dqs_in[group] /\ TryTap(dqs_in[group])
          /\ reg' = [reg EXCEPT !.cur.substage = "VFIFO_CENTER"]
          /\ UNCHANGED <<d, out, substage, err, pass>>
      BY <1>5, <2>3 DEF Pattern
    <3>2. reg' \in Registers
      BY <1>t, <3>1 DEF SubStages
    <3>3. dqs_in[group] \in 0 .. DQS_IN_MAX
      BY <1>t DEF TypeOK
    <3>4. tap' \in 0 .. DQS_IN_MAX /\ orig' \in 0 .. DQS_IN_MAX
          /\ dqs_in' \in [Groups -> 0 .. DQS_IN_MAX]
      BY <1>t, <3>1, <3>3 DEF TryTap, TypeOK
    <3> QED
      BY <1>5, <1>t, <2>1, <3>1, <3>2, <3>4
      DEF Pattern, FlowInv, TypeOK, Searching, LatencyInv, Steps
  <2> QED
    BY <2>2, <2>3
<1>6. CASE Sweep
  <2>1. d <= PTAP
    BY <1>6 DEF Sweep, FlowInv, Searching
  <2>2. CASE NextTap(err, "DQS_EN_PHASE", tap)
    <3>1. /\ d' \in 0 .. PTAP + 2 /\ err' \in Errors /\ substage' \in SubStages
          /\ out' \in Settings
          /\ pass' \in BOOLEAN /\ at' \in {"pattern", "sweep", "handoff"}
          /\ at' # "handoff" => d' <= PTAP
          /\ tap' \in 0 .. DQS_IN_MAX /\ dqs_in' \in [Groups -> 0 .. DQS_IN_MAX]
      BY <1>t, <2>1, <2>2, NextTapType DEF TypeOK, SubStages
    <3>2. at' = "handoff" => pass' = FALSE
      BY <2>2 DEF NextTap, NextDelay
    <3> QED
      BY <1>6, <1>t, <3>1, <3>2 DEF Sweep, FlowInv, TypeOK, Searching, LatencyInv, Steps
  <2>3. CASE ~NextTap(err, "DQS_EN_PHASE", tap)
    <3>1. /\ at' = "centre" /\ dqs_in' = [dqs_in EXCEPT ![group] = orig]
          /\ UNCHANGED <<d, tap, out, substage, err, pass>>
      BY <1>6, <2>3 DEF Sweep
    <3>2. dqs_in' \in [Groups -> 0 .. DQS_IN_MAX]
      BY <1>t, <3>1 DEF TypeOK
    <3> QED
      BY <1>6, <1>t, <2>1, <3>1, <3>2
      DEF Sweep, FlowInv, TypeOK, Searching, LatencyInv, Steps
  <2> QED
    BY <2>2, <2>3
<1>7. CASE Centre
  <2>1. d <= PTAP /\ d \in Nat
    BY <1>7, <1>t, <1>c DEF Centre, FlowInv, Searching, TypeOK
  <2>2. CASE \E left \in 0 .. DQS_IN_MAX : ReadDone(left) /\ UNCHANGED <<tap, substage, err, pass>>
    <3>1. PICK left \in 0 .. DQS_IN_MAX : ReadDone(left) /\ UNCHANGED <<tap, substage, err, pass>>
      BY <2>2
    <3>2. dqs_in' \in [Groups -> 0 .. DQS_IN_MAX]
      BY <1>t, <3>1 DEF ReadDone, TypeOK
    <3>3. out' \in Settings
      BY <1>t, <1>z, <3>1 DEF ReadDone
    <3>4. passed' \subseteq Groups \X {"read", "write", "reread"}
      BY <1>t, <3>1 DEF ReadDone, TypeOK
    <3>5. d' \in 0 .. PTAP + 2 /\ at' = "write"
      BY <1>c, <2>1, <3>1 DEF ReadDone
    <3> QED
      BY <1>7, <1>t, <3>1, <3>2, <3>3, <3>4, <3>5
      DEF Centre, FlowInv, TypeOK, Searching, LatencyInv, Steps
  <2>3. CASE ~\E left \in 0 .. DQS_IN_MAX : ReadDone(left) /\ UNCHANGED <<tap, substage, err, pass>>
    <3>1. passed' = passed
      BY <1>7, <2>3 DEF Centre
    <3>2. PICK e \in Errors, left \in 0 .. DQS_IN_MAX : NextTap(e, "VFIFO_CENTER", left)
      <4>1. CASE \E i \in BitsOf(group) :
                   NextTap(Recorded(err, i, "VFIFO", "VFIFO_CENTER"), "VFIFO_CENTER", orig)
        <5>1. PICK i \in BitsOf(group) :
                NextTap(Recorded(err, i, "VFIFO", "VFIFO_CENTER"), "VFIFO_CENTER", orig)
          BY <4>1
        <5>2. i \in Nat
          BY <1>t, <5>1, BitsAreNat DEF TypeOK
        <5>3. Recorded(err, i, "VFIFO", "VFIFO_CENTER") \in Errors
          BY <1>t, <5>2, RecordedType DEF TypeOK, CalStages, SubStages
        <5> QED
          BY <1>t, <5>1, <5>3 DEF TypeOK
      <4>2. CASE \E left \in 0 .. DQS_IN_MAX : NextTap(err, "VFIFO_CENTER", left)
        BY <1>t, <4>2 DEF TypeOK
      <4> QED
        BY <1>7, <2>3, <4>1, <4>2 DEF Centre
    <3>3. /\ d' \in 0 .. PTAP + 2 /\ err' \in Errors /\ substage' \in SubStages
          /\ out' \in Settings
          /\ pass' \in BOOLEAN /\ at' \in {"pattern", "sweep", "handoff"}
          /\ at' # "handoff" => d' <= PTAP
          /\ tap' \in 0 .. DQS_IN_MAX /\ dqs_in' \in [Groups -> 0 .. DQS_IN_MAX]
      BY <1>t, <2>1, <3>2, NextTapType DEF SubStages
    <3>4. at' = "handoff" => pass' = FALSE
      BY <3>2 DEF NextTap, NextDelay
    <3> QED
      BY <1>7, <1>t, <3>1, <3>3, <3>4 DEF Centre, FlowInv, TypeOK, Searching, LatencyInv, Steps
  <2> QED
    BY <2>2, <2>3
<1>8. CASE Write
  <2>1. reg' \in Registers
    BY <1>8, <1>s DEF Write, CalStages, SubStages
  <2>2. out' \in Settings
    BY <1>8, <1>t DEF Write
  <2>3. CASE Fail("WRITES", "WRITES_CENTER") /\ UNCHANGED passed
    <3>1. at' = "handoff" /\ pass' = FALSE /\ err' \in Errors
      BY <1>t, <2>3, FailType DEF CalStages, SubStages
    <3> QED
      BY <1>8, <1>t, <2>1, <2>2, <2>3, <3>1
      DEF Write, FlowInv, TypeOK, Searching, LatencyInv, Steps
  <2>4. CASE at' = "reread" /\ passed' = passed \cup {<<group, "write">>} /\ UNCHANGED <<err, pass>>
    BY <1>8, <1>t, <2>1, <2>2, <2>4
    DEF Write, FlowInv, TypeOK, Searching, LatencyInv, Steps
  <2> QED
    BY <1>8, <2>3, <2>4 DEF Write
<1>9. CASE Reread
  <2>1. reg' \in Registers
    BY <1>9, <1>s DEF Reread, CalStages, SubStages
  <2>2. dqs_in' \in [Groups -> 0 .. DQS_IN_MAX]
    BY <1>9, <1>t DEF Reread, TypeOK
  <2>3. CASE Fail("VFIFO_AFTER_WRITES", "VFIFO_CENTER") /\ UNCHANGED <<group, passed>>
    <3>1. at' = "handoff" /\ pass' = FALSE /\ err' \in Errors
      BY <1>t, <2>3, FailType DEF CalStages, SubStages
    <3> QED
      BY <1>9, <1>t, <2>1, <2>2, <2>3, <3>1
      DEF Reread, FlowInv, TypeOK, Searching, LatencyInv, Steps
  <2>4. CASE ~(Fail("VFIFO_AFTER_WRITES", "VFIFO_CENTER") /\ UNCHANGED <<group, passed>>)
    <3>1. /\ at' = IF group + 1 < GROUPS THEN "group" ELSE "latency"
          /\ group' = IF group + 1 < GROUPS THEN group + 1 ELSE group
          /\ passed' = passed \cup {<<group, "reread">>}
          /\ UNCHANGED <<err, pass>>
      BY <1>9, <2>4 DEF Reread
    <3>2. group' \in Groups
      BY <1>t, <1>c, <3>1 DEF TypeOK, Groups
    <3>3. lat = StartLatency /\ works = {} /\ lat' = lat /\ works' = works
      BY <1>9 DEF Reread, FlowInv, LatencyInv
    <3> QED
      BY <1>9, <1>t, <1>0, <2>1, <2>2, <3>1, <3>2, <3>3
      DEF Reread, FlowInv, TypeOK, Searching, LatencyInv, Steps
  <2> QED
    BY <2>3, <2>4
<1>10. CASE Latency
  <2>1. reg' \in Registers
    BY <1>10, <1>s DEF Latency, CalStages, SubStages
  <2>2. lat \in 1 .. StartLatency /\ works = lat + 1 .. StartLatency
    BY <1>10 DEF Latency, FlowInv, LatencyInv
  <2>3. CASE works' = works /\ LatencyDone(lat)
    <3>1. /\ at' = "handoff" /\ lat' \in 0 .. StartLatency + 1
          /\ pass' \in BOOLEAN /\ err' \in Errors
          /\ pass' <=> works' # {}
          /\ pass' => works' = lat' - 1 .. StartLatency
      BY <1>t, <1>0, <2>2, <2>3, LatencyDoneType
    <3> QED
      BY <1>10, <1>t, <2>1, <2>3, <3>1
      DEF Latency, FlowInv, TypeOK, Searching, LatencyInv, search, Steps
  <2>4. CASE ~(works' = works /\ LatencyDone(lat))
    <3>1. /\ works' = works \cup {lat}
          /\ IF lat - 1 > 0
             THEN lat' = lat - 1 /\ UNCHANGED <<at, err, pass>>
             ELSE LatencyDone(lat - 1)
      BY <1>10, <2>4 DEF Latency
    <3>2. works' = lat .. StartLatency
      BY <1>0, <2>2, <3>1
    <3>3. CASE lat - 1 > 0
      <4>1. lat' \in 1 .. StartLatency /\ works' = lat' + 1 .. StartLatency
        BY <1>0, <2>2, <3>1, <3>2, <3>3
      <4>2. works' \subseteq 1 .. StartLatency /\ lat' \in 0 .. StartLatency + 1
        BY <1>0, <2>2, <3>2, <4>1
      <4> QED
        BY <1>10, <1>t, <2>1, <3>1, <3>3, <4>1, <4>2
        DEF Latency, FlowInv, TypeOK, Searching, LatencyInv, search, Steps
    <3>4. CASE ~(lat - 1 > 0)
      <4>1. lat - 1 \in 0 .. StartLatency /\ works' = (lat - 1) + 1 .. StartLatency
        BY <1>0, <2>2, <3>2
      <4>2. /\ at' = "handoff" /\ lat' \in 0 .. StartLatency + 1
            /\ pass' \in BOOLEAN /\ err' \in Errors
            /\ pass' <=> works' # {}
            /\ pass' => works' = lat' - 1 .. StartLatency
        BY <1>t, <3>1, <3>4, <4>1, LatencyDoneType
      <4>3. works' \subseteq 1 .. StartLatency
        BY <1>0, <2>2, <3>2
      <4> QED
        BY <1>10, <1>t, <2>1, <4>2, <4>3
        DEF Latency, FlowInv, TypeOK, Searching, LatencyInv, search, Steps
    <3> QED
      BY <3>3, <3>4
  <2> QED
    BY <2>3, <2>4
<1>11. CASE Handoff \/ Restore
  <2>1. reg' \in Registers
    BY <1>11, <1>t DEF Handoff, Restore, TypeOK
  <2> QED
    BY <1>11, <1>t, <2>1
    DEF Handoff, Restore, FlowInv, TypeOK, Searching, LatencyInv, search, Steps
<1>12. CASE Report
  <2>1. reg' \in Registers
    BY <1>12, <1>t DEF Report, TypeOK
  <2> QED
    BY <1>12, <1>t, <2>1 DEF Report, FlowInv, TypeOK, Searching, LatencyInv, search, Steps
<1>13. CASE UNCHANGED vars
  BY <1>13, <1>t DEF vars, search, FlowInv, TypeOK, Searching, LatencyInv
<1> QED
  BY <1>1, <1>2, <1>3, <1>4, <1>5, <1>6, <1>7, <1>8, <1>9, <1>10, <1>11, <1>12, <1>13
  DEF Next, Run

\* Whatever the searches find, every delay, tap, latency and register of the
\* flow stays in its range, for every number of groups and length of chain.
THEOREM TypeCorrect == Spec => []TypeOK
<1>1. FlowInv => TypeOK
  BY DEF FlowInv
<1> QED
  BY <1>1, FlowInit, FlowNext, PTL DEF Spec

\* The latency left after a success has a spare one below it that was tested,
\* as was every latency from there up to the first.
THEOREM LatencyIsSpare == Spec => []LatencyHasSpare
<1>1. FlowInv => LatencyHasSpare
  BY DEF FlowInv, LatencyInv, LatencyHasSpare
<1> QED
  BY <1>1, FlowInit, FlowNext, PTL DEF Spec

----------------------------------------------------------------------------
(* The delays of a group.                                                   *)

\* At the first output delay the outputs are where zeroing put them, the taps
\* are searched upwards, and deskew starts where the search began.
DelayInv ==
  /\ at \in {"pattern", "sweep", "centre"} /\ d = 0 => out[group] = Zeroed
  /\ OutputsRestored
  /\ SearchesUpwards

\* A failed search keeps it: the next output delay is not the first, and the
\* next tap is above.
LEMMA NextTapDelays ==
  ASSUME FlowInv, DelayInv, NEW e, NEW sub, NEW left,
         at \in {"sweep", "centre"}, NextTap(e, sub, left),
         group' = group, orig' = orig
  PROVE  DelayInv'
<1>1. /\ tap \in Nat /\ orig \in Nat /\ d \in Nat /\ PTAP \in Nat /\ DQS_IN_MAX \in Nat
      /\ group \in Groups /\ orig <= tap
  BY CalibrationAssumption DEF FlowInv, TypeOK, DelayInv, SearchesUpwards
<1>2. CASE tap < DQS_IN_MAX
  <2>1. at' = "sweep" /\ tap' = tap + 1 /\ d' = d /\ out' = out
    BY <1>2 DEF NextTap, TryTap
  <2> QED
    BY <1>1, <2>1 DEF DelayInv, OutputsRestored, SearchesUpwards
<1>3. CASE ~(tap < DQS_IN_MAX)
  <2>1. NextDelay(e, sub)
    BY <1>3 DEF NextTap
  <2>2. at' = "handoff" \/ (at' = "pattern" /\ d' = d + 2)
    BY <2>1 DEF NextDelay
  <2> QED
    BY <1>1, <2>2 DEF DelayInv, OutputsRestored, SearchesUpwards
<1> QED
  BY <1>2, <1>3

LEMMA DelayNext == FlowInv /\ DelayInv /\ [Next]_vars => DelayInv'
<1> SUFFICES ASSUME FlowInv, DelayInv, [Next]_vars PROVE DelayInv'
  OBVIOUS
<1> USE DEF DelayInv, OutputsRestored, SearchesUpwards
<1>t. /\ group \in Groups /\ d \in Nat
      /\ dqs_in \in [Groups -> 0 .. DQS_IN_MAX] /\ DQS_IN_MAX \in Nat
  BY CalibrationAssumption DEF FlowInv, TypeOK
<1>o. DOMAIN out = Groups /\ out = [g \in Groups |-> out[g]]
  BY DEF FlowInv, TypeOK
<1>1. CASE Begin \/ Claim \/ Take \/ Handoff \/ Restore \/ Report \/ Latency
  <2>1. at' \notin {"pattern", "sweep", "centre", "write"}
    BY <1>1 DEF Begin, Claim, Take, Handoff, Restore, Report, Latency, LatencyDone
  <2> QED
    BY <2>1
<1>2. CASE StartGroup
  BY <1>2, <1>t, <1>o DEF StartGroup
<1>3. CASE Pattern
  <2>1. CASE NextDelay(err, substage) /\ UNCHANGED <<tap, orig, dqs_in, reg>>
    <3>1. at' = "handoff" \/ (at' = "pattern" /\ d' = d + 2)
      BY <2>1 DEF NextDelay
    <3> QED
      BY <1>t, <3>1
  <2>2. CASE ~(NextDelay(err, substage) /\ UNCHANGED <<tap, orig, dqs_in, reg>>)
    <3>1. /\ at' = "sweep" /\ orig' = dqs_in[group] /\ TryTap(dqs_in[group])
          /\ UNCHANGED <<d, out, group>> /\ at = "pattern"
      BY <1>3, <2>2 DEF Pattern
    <3>2. dqs_in[group] \in Nat
      BY <1>t
    <3> QED
      BY <1>t, <3>1, <3>2 DEF TryTap
  <2> QED
    BY <2>1, <2>2
<1>4. CASE Sweep
  <2>1. CASE NextTap(err, "DQS_EN_PHASE", tap)
    BY <1>4, <2>1, NextTapDelays DEF Sweep
  <2>2. CASE ~NextTap(err, "DQS_EN_PHASE", tap)
    BY <1>4, <1>t, <2>2 DEF Sweep
  <2> QED
    BY <2>1, <2>2
<1>5. CASE Centre
  <2>1. CASE \E left \in 0 .. DQS_IN_MAX : ReadDone(left)
    <3>1. PICK left \in 0 .. DQS_IN_MAX : ReadDone(left)
      BY <2>1
    <3>2. at' = "write" /\ group' = group /\ at = "centre"
      BY <1>5, <3>1 DEF ReadDone, Centre
    <3>3. out' = [out EXCEPT ![group] = IF d + 2 > 2 THEN Zeroed ELSE @]
      BY <3>1 DEF ReadDone
    <3>4. out'[group] = Zeroed
      BY <1>t, <1>o, <3>2, <3>3
    <3> QED
      BY <3>2, <3>4
  <2>2. CASE ~\E left \in 0 .. DQS_IN_MAX : ReadDone(left)
    BY <1>5, <2>2, NextTapDelays DEF Centre
  <2> QED
    BY <2>1, <2>2
<1>6. CASE Write
  BY <1>6 DEF Write, Fail
<1>7. CASE Reread
  BY <1>7 DEF Reread, Fail
<1>8. CASE UNCHANGED vars
  BY <1>8 DEF vars, search
<1> QED
  BY <1>1, <1>2, <1>3, <1>4, <1>5, <1>6, <1>7, <1>8 DEF Next, Run

LEMMA DelayInit == Init => DelayInv
BY DEF Init, DelayInv, OutputsRestored, SearchesUpwards

\* The write deskew of a group starts from zeroed outputs, however many
\* output delays its read search tried.
THEOREM OutputsAreRestored == Spec => []OutputsRestored
<1>1. DelayInv => OutputsRestored
  BY DEF DelayInv
<1> QED
  BY <1>1, FlowInit, FlowNext, DelayInit, DelayNext, PTL DEF Spec

\* The taps of DQS are searched upwards and read deskew starts at the first.
THEOREM TapsAreSearchedUpwards == Spec => []SearchesUpwards
<1>1. DelayInv => SearchesUpwards
  BY DEF DelayInv
<1> QED
  BY <1>1, FlowInit, FlowNext, DelayInit, DelayNext, PTL DEF Spec

----------------------------------------------------------------------------
(* The registers the hardware around reads.                                 *)

\* The steps at which the sequencer has the interface, and those at which the
\* tracking manager is stopped.
Holding == {"group", "pattern", "sweep", "centre", "write", "reread", "latency", "handoff"}
Stopped == Holding \cup {"claimed", "restore"}

RegisterInv ==
  /\ reg.mux = "sequencer" <=> at \in Holding
  /\ at \in Stopped => reg.tracking = FALSE
  /\ at \notin Stopped => reg.tracking = saved
  /\ at \in Stopped \cup {"report"} => reg.status = "reset"
  /\ at # "idle" => reg.failing = NoError
  /\ at \in {"handoff", "restore", "report"} /\ ~pass => err.stage # "NIL"
  /\ FailureIsReported

\* A failure that is recorded, or was before, has a stage.
LEMMA RecordedStage ==
  ASSUME NEW e, NEW g, NEW stage, NEW sub, stage # "NIL"
  PROVE  Recorded(e, g, stage, sub).stage # "NIL"
BY DEF Recorded

\* Giving a group up records a stage.
LEMMA NextTapStage ==
  ASSUME NEW e, NEW sub, NEW left, NextTap(e, sub, left)
  PROVE  /\ at' \in {"sweep", "pattern", "handoff"}
         /\ at' = "handoff" => err'.stage # "NIL"
<1>1. CASE tap < DQS_IN_MAX
  BY <1>1 DEF NextTap
<1>2. CASE ~(tap < DQS_IN_MAX)
  BY <1>2, RecordedStage DEF NextTap, NextDelay
<1> QED
  BY <1>1, <1>2

LEMMA RegisterNext == FlowInv /\ RegisterInv /\ [Next]_vars => RegisterInv'
<1> SUFFICES ASSUME FlowInv, RegisterInv, [Next]_vars PROVE RegisterInv'
  OBVIOUS
<1> USE DEF RegisterInv, FailureIsReported, Holding, Stopped
<1>r. /\ reg \in [status : {"reset", "success", "fail"},
                  mux : {"controller", "sequencer"}, tracking : BOOLEAN,
                  cur : [stage : CalStages, substage : SubStages],
                  failing : Errors]
      /\ pass \in BOOLEAN
  BY DEF FlowInv, TypeOK
\* What the steps of the searches leave alone.
<1>w. \A stage, sub : LET s == Showing(stage, sub) IN
        s.mux = reg.mux /\ s.tracking = reg.tracking /\ s.status = reg.status
        /\ s.failing = reg.failing
  BY <1>r DEF Showing
<1> DEFINE Kept == /\ reg'.mux = reg.mux /\ reg'.tracking = reg.tracking
                   /\ reg'.status = reg.status /\ reg'.failing = reg.failing
                   /\ saved' = saved
<1>1. CASE Begin
  <2>1. /\ reg'.mux = reg.mux /\ reg'.tracking = reg.tracking
        /\ reg'.failing = NoError
    BY <1>1, <1>r, <1>w DEF Begin, Showing
  <2> QED
    BY <1>1, <2>1 DEF Begin
<1>2. CASE Claim
  <2>1. /\ reg'.mux = reg.mux /\ reg'.tracking = FALSE /\ reg'.status = "reset"
        /\ reg'.failing = reg.failing
    BY <1>2, <1>r DEF Claim
  <2> QED
    BY <1>2, <2>1 DEF Claim
<1>3. CASE Take
  <2>1. /\ reg'.mux = "sequencer" /\ reg'.tracking = reg.tracking /\ reg'.status = "reset"
        /\ reg'.failing = reg.failing
    BY <1>3, <1>r DEF Take
  <2> QED
    BY <1>3, <2>1 DEF Take
<1>4. CASE StartGroup
  <2>1. Kept
    BY <1>4, <1>w DEF StartGroup
  <2> QED
    BY <1>4, <2>1 DEF StartGroup
<1>5. CASE Pattern
  <2>1. Kept
    BY <1>5, <1>r DEF Pattern
  <2>2. at' \in {"sweep", "pattern", "handoff"} /\ (at' = "handoff" => err'.stage # "NIL")
    BY <1>5, RecordedStage DEF Pattern, NextDelay
  <2> QED
    BY <1>5, <2>1, <2>2 DEF Pattern
<1>6. CASE Sweep
  <2>1. at' \in {"sweep", "pattern", "handoff", "centre"} /\ (at' = "handoff" => err'.stage # "NIL")
    BY <1>6, NextTapStage DEF Sweep
  <2> QED
    BY <1>6, <2>1 DEF Sweep
<1>7. CASE Centre
  <2>1. at' \in {"sweep", "pattern", "handoff", "write"} /\ (at' = "handoff" => err'.stage # "NIL")
    BY <1>7, NextTapStage DEF Centre, ReadDone
  <2> QED
    BY <1>7, <2>1 DEF Centre
<1>8. CASE Write
  <2>1. Kept
    BY <1>8, <1>w DEF Write
  <2>2. at' \in {"reread", "handoff"} /\ (at' = "handoff" => err'.stage # "NIL")
    BY <1>8, RecordedStage DEF Write, Fail
  <2> QED
    BY <1>8, <2>1, <2>2 DEF Write
<1>9. CASE Reread
  <2>1. Kept
    BY <1>9, <1>w DEF Reread
  <2>2. at' \in {"group", "latency", "handoff"} /\ (at' = "handoff" => err'.stage # "NIL")
    BY <1>9, RecordedStage DEF Reread, Fail
  <2> QED
    BY <1>9, <2>1, <2>2 DEF Reread
<1>10. CASE Latency
  <2>1. Kept
    BY <1>10, <1>w DEF Latency
  <2>2. at' \in {"latency", "handoff"} /\ (at' = "handoff" /\ ~pass' => err'.stage # "NIL")
    BY <1>10, RecordedStage DEF Latency, LatencyDone
  <2> QED
    BY <1>10, <2>1, <2>2 DEF Latency
<1>11. CASE Handoff
  <2>1. /\ reg'.mux = "controller" /\ reg'.tracking = reg.tracking
        /\ reg'.status = reg.status /\ reg'.failing = reg.failing
    BY <1>11, <1>r DEF Handoff
  <2> QED
    BY <1>11, <2>1 DEF Handoff
<1>12. CASE Restore
  <2>1. /\ reg'.mux = reg.mux /\ reg'.tracking = saved
        /\ reg'.status = reg.status /\ reg'.failing = reg.failing
    BY <1>12, <1>r DEF Restore
  <2> QED
    BY <1>12, <2>1 DEF Restore
<1>13. CASE Report
  <2>1. reg'.mux = reg.mux /\ reg'.tracking = reg.tracking
    BY <1>13, <1>r DEF Report
  <2>2. pass => reg'.status = "success" /\ reg'.failing = NoError
    BY <1>13, <1>r DEF Report
  <2>3. ~pass => reg'.status = "fail" /\ reg'.failing = err
    BY <1>13, <1>r DEF Report
  <2> QED
    BY <1>13, <2>1, <2>2, <2>3 DEF Report, NoError
<1>14. CASE UNCHANGED vars
  BY <1>14 DEF vars, search
<1> QED
  BY <1>1, <1>2, <1>3, <1>4, <1>5, <1>6, <1>7, <1>8, <1>9, <1>10, <1>11, <1>12, <1>13, <1>14
  DEF Next, Run

LEMMA RegisterInit == Init => RegisterInv
<1> SUFFICES ASSUME Init PROVE RegisterInv
  OBVIOUS
<1>1. /\ at = "idle" /\ reg.mux = "controller" /\ reg.tracking = saved
      /\ reg.status = "reset" /\ reg.failing = NoError
  BY DEF Init
<1> QED
  BY <1>1 DEF RegisterInv, Holding, Stopped, FailureIsReported, NoError

\* A call that failed shows in which stage; one that succeeded shows none.
THEOREM FailuresAreReported == Spec => []FailureIsReported
<1>1. RegisterInv => FailureIsReported
  BY DEF RegisterInv
<1> QED
  BY <1>1, FlowInit, FlowNext, RegisterInit, RegisterNext, PTL DEF Spec

\* The tracking manager never samples while the sequencer has the interface,
\* on no path through a calibration, and gets its setting back.
THEOREM TrackingIsStopped == Spec => []TrackingStopped
<1>1. RegisterInv => TrackingStopped
  BY DEF RegisterInv, TrackingStopped, Holding, Stopped
<1> QED
  BY <1>1, FlowInit, FlowNext, RegisterInit, RegisterNext, PTL DEF Spec

----------------------------------------------------------------------------
(* The flow implements what a calibration promises.                         *)

\* The tests of the groups below g.
Past(g) == {t \in Groups \X {"read", "write", "reread"} : t[1] < g}

\* The tests passed at each step; none is passed twice, and those that count
\* for a success are all of them.
PassedInv ==
  /\ at = "claimed" => passed = {}
  /\ at \in {"group", "pattern", "sweep", "centre"} => passed = Past(group)
  /\ at = "write" => passed = Past(group) \cup {<<group, "read">>}
  /\ at = "reread" => passed = Past(group) \cup {<<group, "read">>, <<group, "write">>}
  /\ at = "latency" => passed = Groups \X {"read", "write", "reread"}
  /\ at \in {"handoff", "restore", "report"} /\ pass =>
       passed = Groups \X {"read", "write", "reread"}

\* Below a group and the group itself is below the next, or everything.
LEMMA NextPast ==
  ASSUME NEW g \in Groups
  PROVE  LET all == Past(g) \cup {<<g, "read">>, <<g, "write">>, <<g, "reread">>} IN
           /\ g + 1 < GROUPS => all = Past(g + 1)
           /\ ~(g + 1 < GROUPS) => all = Groups \X {"read", "write", "reread"}
<1> DEFINE all == Past(g) \cup {<<g, "read">>, <<g, "write">>, <<g, "reread">>}
<1>1. g \in Nat /\ GROUPS \in Nat /\ \A h \in Groups : h \in Nat /\ h < GROUPS
  BY CalibrationAssumption DEF Groups
<1>2. \A h \in Groups, k \in {"read", "write", "reread"} :
        <<h, k>> \in all <=> h < g + 1
  <2> SUFFICES ASSUME NEW h \in Groups, NEW k \in {"read", "write", "reread"}
               PROVE  <<h, k>> \in all <=> h < g + 1
    OBVIOUS
  <2>1. <<h, k>> \in Past(g) <=> h < g
    BY DEF Past
  <2>2. <<h, k>> \in {<<g, "read">>, <<g, "write">>, <<g, "reread">>} <=> h = g
    OBVIOUS
  <2> QED
    BY <1>1, <2>1, <2>2
<1>3. all \subseteq Groups \X {"read", "write", "reread"}
  BY DEF Past
<1>4. ASSUME g + 1 < GROUPS PROVE all = Past(g + 1)
  <2>1. Past(g + 1) \subseteq Groups \X {"read", "write", "reread"}
    BY DEF Past
  <2>2. ASSUME NEW t \in Groups \X {"read", "write", "reread"}
        PROVE  t \in all <=> t \in Past(g + 1)
    <3>1. PICK h \in Groups, k \in {"read", "write", "reread"} : t = <<h, k>>
      OBVIOUS
    <3>2. <<h, k>> \in Past(g + 1) <=> h < g + 1
      BY DEF Past
    <3> HIDE DEF all
    <3> QED
      BY <1>2, <3>1, <3>2
  <2> HIDE DEF all
  <2> QED
    BY <1>3, <2>1, <2>2
<1>5. ASSUME ~(g + 1 < GROUPS) PROVE all = Groups \X {"read", "write", "reread"}
  <2>1. ASSUME NEW t \in Groups \X {"read", "write", "reread"}
        PROVE  t \in all
    <3>1. PICK h \in Groups, k \in {"read", "write", "reread"} : t = <<h, k>>
      OBVIOUS
    <3>2. h < g + 1
      BY <1>1, <1>5
    <3> HIDE DEF all
    <3> QED
      BY <1>2, <3>1, <3>2
  <2> HIDE DEF all
  <2> QED
    BY <1>3, <2>1
<1> QED
  BY <1>4, <1>5

LEMMA PassedNext == FlowInv /\ PassedInv /\ [Next]_vars => PassedInv'
<1> SUFFICES ASSUME FlowInv, PassedInv, [Next]_vars PROVE PassedInv'
  OBVIOUS
<1> USE DEF PassedInv
<1>t. group \in Groups
  BY DEF FlowInv, TypeOK
<1>1. CASE Begin
  BY <1>1 DEF Begin
<1>2. CASE Claim
  BY <1>2 DEF Claim
<1>3. CASE Take
  <2>1. Past(0) = {}
    BY DEF Past, Groups
  <2> QED
    BY <1>3, <2>1 DEF Take
<1>4. CASE StartGroup
  BY <1>4 DEF StartGroup
<1>5. CASE Pattern
  <2>1. /\ at' \in {"sweep", "pattern", "handoff"} /\ group' = group /\ passed' = passed
        /\ at' = "handoff" => pass' = FALSE
    BY <1>5 DEF Pattern, NextDelay
  <2> QED
    BY <1>5, <2>1 DEF Pattern
<1>6. CASE Sweep
  <2>1. /\ at' \in {"centre", "sweep", "pattern", "handoff"} /\ group' = group /\ passed' = passed
        /\ at' = "handoff" => pass' = FALSE
    BY <1>6 DEF Sweep, NextTap, NextDelay
  <2> QED
    BY <1>6, <2>1 DEF Sweep
<1>7. CASE Centre
  <2>1. CASE \E left \in 0 .. DQS_IN_MAX : ReadDone(left)
    BY <1>7, <2>1 DEF Centre, ReadDone
  <2>2. CASE ~\E left \in 0 .. DQS_IN_MAX : ReadDone(left)
    <3>1. /\ at' \in {"sweep", "pattern", "handoff"} /\ group' = group /\ passed' = passed
          /\ at' = "handoff" => pass' = FALSE
      BY <1>7, <2>2 DEF Centre, NextTap, NextDelay
    <3> QED
      BY <1>7, <3>1 DEF Centre
  <2> QED
    BY <2>1, <2>2
<1>8. CASE Write
  BY <1>8 DEF Write, Fail
<1>9. CASE Reread
  <2>1. CASE Fail("VFIFO_AFTER_WRITES", "VFIFO_CENTER")
    BY <2>1 DEF Fail
  <2>2. CASE ~Fail("VFIFO_AFTER_WRITES", "VFIFO_CENTER")
    <3>1. /\ at = "reread"
          /\ at' = IF group + 1 < GROUPS THEN "group" ELSE "latency"
          /\ group' = IF group + 1 < GROUPS THEN group + 1 ELSE group
          /\ passed' = passed \cup {<<group, "reread">>}
      BY <1>9, <2>2 DEF Reread
    <3>2. passed' = Past(group) \cup {<<group, "read">>, <<group, "write">>, <<group, "reread">>}
      BY <3>1
    <3> QED
      BY <1>t, <3>1, <3>2, NextPast
  <2> QED
    BY <2>1, <2>2
<1>10. CASE Latency
  <2>1. at' \in {"latency", "handoff"} /\ passed' = passed
    BY <1>10 DEF Latency, LatencyDone
  <2> QED
    BY <1>10, <2>1 DEF Latency
<1>11. CASE Handoff \/ Restore \/ Report
  BY <1>11 DEF Handoff, Restore, Report
<1>12. CASE UNCHANGED vars
  BY <1>12 DEF vars
<1> QED
  BY <1>1, <1>2, <1>3, <1>4, <1>5, <1>6, <1>7, <1>8, <1>9, <1>10, <1>11, <1>12 DEF Next, Run

LEMMA PassedInit == Init => PassedInv
BY DEF Init, PassedInv

\* The tests passed as the abstract specification sees them.
AllPassed == passed \cup (IF works = {} THEN {} ELSE {LatencyTest})

\* No test of a group is the test of the latency.
LEMMA LatencyTestIsNew == LatencyTest \notin Groups \X {"read", "write", "reread"}
BY CalibrationAssumption DEF LatencyTest, Groups

\* Every step of the flow is a step of the promise or invisible.
LEMMA PromiseNext ==
  FlowInv /\ FlowInv' /\ RegisterInv /\ PassedInv /\ [Next]_vars => [Promise!Next]_(Promise!vars)
<1> SUFFICES ASSUME FlowInv, FlowInv', RegisterInv, PassedInv, [Next]_vars
             PROVE  [Promise!Next]_(Promise!vars)
  OBVIOUS
<1>t. /\ group \in Groups /\ group \in Nat /\ at \in Steps /\ at' \in Steps
      /\ passed \subseteq Groups \X {"read", "write", "reread"}
      /\ reg \in [status : {"reset", "success", "fail"},
                  mux : {"controller", "sequencer"}, tracking : BOOLEAN,
                  cur : [stage : CalStages, substage : SubStages],
                  failing : Errors]
  BY CalibrationAssumption DEF FlowInv, TypeOK, Groups
<1>p. /\ at \in {"idle", "begun"} => Phase = "idle"
      /\ at = "claimed" => Phase = "claimed"
      /\ at \in {"restore", "report"} => Phase = "released"
      /\ at \in Holding => Phase = "testing"
  BY <1>t DEF Phase, Holding
<1>q. /\ at' \in {"idle", "begun"} => Phase' = "idle"
      /\ at' = "claimed" => Phase' = "claimed"
      /\ at' \in {"restore", "report"} => Phase' = "released"
      /\ at' \in Holding => Phase' = "testing"
  BY <1>t DEF Phase, Holding
<1>v. \A g \in Groups, k \in {"read", "write", "reread"} : <<g, k>> \in Tests
  BY DEF Tests
<1> DEFINE Kept == Phase' = Phase /\ AllPassed' = AllPassed /\ reg'.status = reg.status
           Passing(t) == /\ Phase = "testing" /\ Phase' = "testing" /\ reg'.status = reg.status
                         /\ t \in Tests /\ t \notin AllPassed /\ AllPassed' = AllPassed \cup {t}
<1>k. Kept => UNCHANGED Promise!vars
  BY DEF Promise!vars, AllPassed
<1>n. \A t : Passing(t) => Promise!Next
  BY DEF Promise!Next, Promise!Pass, AllPassed
<1>1. CASE Begin
  <2>1. reg'.status = reg.status
    BY <1>1, <1>t DEF Begin, Showing
  <2>2. Kept
    BY <1>1, <1>p, <1>q, <2>1 DEF Begin, AllPassed
  <2> QED
    BY <1>k, <2>2
<1>2. CASE Claim
  <2>1. reg'.status = "reset"
    BY <1>2, <1>t DEF Claim
  <2>2. AllPassed' = {}
    BY <1>2 DEF Claim, AllPassed
  <2>3. Phase = "idle" /\ Phase' = "claimed"
    BY <1>2, <1>p, <1>q DEF Claim
  <2>4. Promise!Claim
    BY <2>1, <2>2, <2>3 DEF Promise!Claim, AllPassed
  <2> QED
    BY <2>4 DEF Promise!Next
<1>3. CASE Take
  <2>1. reg'.status = "reset" /\ reg.status = "reset"
    BY <1>3, <1>t DEF Take, RegisterInv, Stopped
  <2>2. AllPassed' = AllPassed
    BY <1>3 DEF Take, AllPassed
  <2>3. Phase = "claimed" /\ Phase' = "testing"
    BY <1>3, <1>p, <1>q DEF Take, Holding
  <2>4. Promise!Take
    BY <2>1, <2>2, <2>3 DEF Promise!Take, AllPassed
  <2> QED
    BY <2>4 DEF Promise!Next
<1>4. CASE StartGroup \/ Pattern \/ Sweep \/ (Centre /\ passed' = passed)
           \/ (Write /\ passed' = passed) \/ (Reread /\ passed' = passed)
  <2>1. at \in Holding
    BY <1>4 DEF Holding, StartGroup, Pattern, Sweep, Centre, Write, Reread
  <2>2. at' \in Holding
    BY <1>4 DEF Holding, StartGroup, Pattern, Sweep, Centre, Write, Reread,
                NextTap, NextDelay, ReadDone, Fail
  <2>3. AllPassed' = AllPassed
    BY <1>4 DEF AllPassed, StartGroup, Pattern, Sweep, Centre, Write, Reread
  <2>4. reg'.status = reg.status
    BY <1>4, <1>t DEF StartGroup, Pattern, Sweep, Centre, Write, Reread, Showing
  <2> QED
    BY <1>p, <1>q, <1>k, <2>1, <2>2, <2>3, <2>4
<1>5. CASE (Centre /\ passed' # passed) \/ (Write /\ passed' # passed) \/ (Reread /\ passed' # passed)
  <2>1. PICK k \in {"read", "write", "reread"} :
          passed' = passed \cup {<<group, k>>} /\ <<group, k>> \notin passed
    BY <1>5 DEF Centre, ReadDone, Write, Reread
  <2>2. <<group, k>> # LatencyTest
    BY <1>t, LatencyTestIsNew
  <2>3. AllPassed' = AllPassed \cup {<<group, k>>} /\ <<group, k>> \notin AllPassed
    BY <1>5, <2>1, <2>2 DEF AllPassed, Centre, Write, Reread
  <2>4. at \in Holding /\ at' \in Holding
    BY <1>5 DEF Holding, Centre, ReadDone, Write, Reread, Fail
  <2>5. reg'.status = reg.status
    BY <1>5, <1>t DEF Centre, Write, Reread, Showing
  <2>6. Passing(<<group, k>>)
    BY <1>p, <1>q, <1>t, <1>v, <2>3, <2>4, <2>5
  <2> QED
    BY <1>n, <2>6
<1>6. CASE Latency
  <2>1. at \in Holding /\ at' \in Holding
    BY <1>6 DEF Holding, Latency, LatencyDone
  <2>2. reg'.status = reg.status /\ passed' = passed
    BY <1>6, <1>t DEF Latency, Showing
  <2>3. works' = works \/ works' = works \cup {lat}
    BY <1>6 DEF Latency
  <2>4. CASE works = {} /\ works' # {}
    <3>1. LatencyTest \in Tests /\ LatencyTest \notin AllPassed
          /\ AllPassed' = AllPassed \cup {LatencyTest}
      BY <1>t, <2>2, <2>4, LatencyTestIsNew DEF AllPassed, Tests
    <3>2. Passing(LatencyTest)
      BY <1>p, <1>q, <2>1, <2>2, <3>1
    <3> QED
      BY <1>n, <3>2
  <2>5. CASE ~(works = {} /\ works' # {})
    <3>1. AllPassed' = AllPassed
      BY <2>2, <2>3, <2>5 DEF AllPassed
    <3> QED
      BY <1>p, <1>q, <1>k, <2>1, <2>2, <3>1
  <2> QED
    BY <2>4, <2>5
<1>7. CASE Handoff
  <2>1. Phase = "testing" /\ Phase' = "released"
    BY <1>7, <1>p, <1>q DEF Handoff, Holding
  <2>2. reg'.status = reg.status /\ AllPassed' = AllPassed
    BY <1>7, <1>t DEF Handoff, AllPassed
  <2>3. Promise!Release
    BY <2>1, <2>2 DEF Promise!Release, AllPassed
  <2> QED
    BY <2>3 DEF Promise!Next
<1>8. CASE Restore
  <2>1. Kept
    BY <1>8, <1>p, <1>q, <1>t DEF Restore, AllPassed
  <2> QED
    BY <1>k, <2>1
<1>9. CASE Report
  <2>1. Phase = "released" /\ Phase' = "idle" /\ AllPassed' = AllPassed
    BY <1>9, <1>p, <1>q DEF Report, AllPassed
  <2>2. pass <=> works # {}
    BY <1>9 DEF Report, FlowInv, LatencyInv
  <2>3. pass <=> AllPassed = Tests
    <3>1. CASE pass
      BY <1>9, <2>2, <3>1 DEF Report, PassedInv, AllPassed, Tests
    <3>2. CASE ~pass
      BY <1>t, <2>2, <3>2, LatencyTestIsNew DEF AllPassed, Tests
    <3> QED
      BY <3>1, <3>2
  <2>4. pass => reg'.status = "success"
    BY <1>9, <1>t DEF Report
  <2>5. ~pass => reg'.status = "fail"
    BY <1>9, <1>t DEF Report
  <2>6. Promise!Report
    BY <2>1, <2>3, <2>4, <2>5 DEF Promise!Report, AllPassed
  <2> QED
    BY <2>6 DEF Promise!Next
<1>10. CASE UNCHANGED vars
  BY <1>10 DEF vars, Promise!vars, Phase
<1> QED
  BY <1>1, <1>2, <1>3, <1>4, <1>5, <1>6, <1>7, <1>8, <1>9, <1>10 DEF Next, Run

\* The calibration flow implements Calibrator, fairness aside: for every number of
\* groups and every outcome of the searches the interface is claimed before
\* a test and given back before a verdict, which is right.
THEOREM FlowImplementsPromise == Spec => Promise!Safety
<1>1. Init => Promise!Init
  BY DEF Init, Promise!Init, Phase
<1> QED
  BY <1>1, FlowInit, FlowNext, RegisterInit, RegisterNext, PassedInit, PassedNext, PromiseNext, PTL
  DEF Spec, Promise!Safety

=============================================================================
