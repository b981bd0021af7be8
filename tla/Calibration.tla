----------------------------- MODULE Calibration -----------------------------
(* sdram_calibration: one call claims the SDRAM interface, calibrates every *)
(* group for reads, writes and reads again, shortens the read latency,      *)
(* hands the interface to the memory controller and reports.  What the      *)
(* searches inside a step find is left open (DqsEnable, ReadCenter and      *)
(* WriteCenter model them); what the flow does with it is not.              *)
EXTENDS Naturals, FiniteSets

CONSTANTS
  GROUPS,       \* RW_MGR_MEM_IF_WRITE_DQS_WIDTH
  DQ,           \* bits of a group
  PTAP,         \* dtaps_per_ptap
  DQS_IN_MAX,   \* IO_DQS_IN_DELAY_MAX
  IN_RESERVE,   \* IO_DQS_IN_RESERVE
  OUT_RESERVE,  \* IO_DQS_OUT_RESERVE
  READ_LAT,     \* the memory's read latency
  LAT_WIDTH     \* MAX_LATENCY_COUNT_WIDTH

\* The longest latency its register can count.
MaxLatency == 2 ^ LAT_WIDTH - 1

ASSUME CalibrationAssumption ==
  /\ GROUPS \in Nat \ {0} /\ DQ \in Nat \ {0}
  /\ PTAP \in Nat /\ DQS_IN_MAX \in Nat /\ IN_RESERVE \in 0 .. DQS_IN_MAX
  /\ OUT_RESERVE \in Nat /\ READ_LAT \in Nat
  /\ MaxLatency \in Nat \ {0}

Groups == 0 .. GROUPS - 1

VARIABLES
  at,        \* the step the call is at
  group,     \* write_group and read_group
  d,         \* the delay the output side is tried with
  tap, orig, \* dqs_in_dtaps and orig_start_dqs
  dqs_in,    \* the DQS input delay of each group, in the hardware
  out,       \* the output delays of each group: [dq, dqs, deskewed]
  substage,  \* failed_substage
  err,       \* gbl->error_stage, error_substage and error_group
  lat,       \* gbl->curr_read_lat
  works,     \* the latencies whose test passed (found_one)
  passed,    \* the steps a group passed, <<group, step>> (a record of the run)
  pass,      \* what mem_calibrate returns
  reg,       \* registers the hardware around reads: [status, mux, tracking,
             \* cur, failing]
  saved      \* ctrlcfg: the tracking bit to put back

search == <<d, tap, orig, dqs_in, out, substage>>
vars == <<at, group, search, err, lat, works, passed, pass, reg, saved>>

NoError == [stage |-> "NIL", substage |-> "NIL", group |-> 255]

\* scc_mgr_zero_group.  "dq" stands for the DQ and DM pins of the group and
\* "dqs" for DQS and the termination control: each pair is always set alike,
\* until the per-bit write deskew takes the delays over.
Zeroed == [dq |-> 0, dqs |-> OUT_RESERVE, deskewed |-> FALSE]

\* scc_mgr_apply_group_all_out_delay_add, where the second chain of delays
\* has no taps: DQ and DM stay and DQS takes the delay on its first chain.
Added(o, n) == [o EXCEPT !.dqs = n]

\* set_failing_group_stage: only the first failure is kept.
Recorded(e, g, stage, sub) ==
  IF e.stage = "NIL" THEN [stage |-> stage, substage |-> sub, group |-> g] ELSE e

\* mem_config: where the read latency starts.
StartLatency == IF READ_LAT + 16 > MaxLatency THEN MaxLatency ELSE READ_LAT + 16

\* reg_file_set_stage (which clears the substage) and reg_file_set_sub_stage.
Showing(stage, sub) == [reg EXCEPT !.cur = [stage |-> stage, substage |-> sub]]

\* A call may find the registers as an earlier one left them.
Init ==
  /\ at = "idle" /\ group = 0
  /\ d = 0 /\ tap = 0 /\ orig = 0 /\ substage = "NIL"
  /\ dqs_in \in {[g \in Groups |-> x] : x \in {0, DQS_IN_MAX}}
  /\ out = [g \in Groups |-> Zeroed]
  /\ err = NoError /\ lat = 0 /\ works = {} /\ passed = {} /\ pass = FALSE
  /\ saved \in BOOLEAN
  /\ reg = [status   |-> "reset", mux |-> "controller", tracking |-> saved,
            cur      |-> [stage |-> "NIL", substage |-> "NIL"],
            failing  |-> NoError]

----------------------------------------------------------------------------
\* sdram_calibration clears the register file, not yet the verdict.
Begin ==
  /\ at = "idle"
  /\ at' = "begun"
  /\ reg' = [Showing("NIL", "NIL") EXCEPT !.failing = NoError]
  /\ UNCHANGED <<group, search, err, lat, works, passed, pass, saved>>

\* run_mem_calibrate withdraws the verdict and stops the tracking manager.
Claim ==
  /\ at = "begun"
  /\ at' = "claimed" /\ passed' = {} /\ works' = {}
  /\ saved' = reg.tracking
  /\ reg' = [reg EXCEPT !.status = "reset", !.tracking = FALSE]
  /\ UNCHANGED <<group, search, err, lat, pass>>

\* initialize, rw_mgr_mem_initialize and the beginning of mem_calibrate: the
\* interface is taken, the memory reset, and every delay set to its reserve.
Take ==
  /\ at = "claimed"
  /\ at' = "group" /\ group' = 0
  /\ reg' = [reg EXCEPT !.mux = "sequencer", !.status = "reset"]
  /\ err' = NoError
  /\ lat' = StartLatency
  /\ dqs_in' = [g \in Groups |-> IN_RESERVE]
  /\ UNCHANGED <<d, tap, orig, out, substage, works, passed, pass, saved>>

\* The next group: its delays are zeroed and its read search begins.
StartGroup ==
  /\ at = "group"
  /\ at' = "pattern" /\ d' = 0
  /\ out' = [out EXCEPT ![group] = Zeroed]
  /\ substage' = "GUARANTEED_READ"
  /\ reg' = Showing("VFIFO", "GUARANTEED_READ")
  /\ UNCHANGED <<group, tap, orig, dqs_in, err, lat, works, passed, pass, saved>>

----------------------------------------------------------------------------
\* Slip: the last output delay is tried again.
NextDelaySame(e, sub) ==
  /\ substage' = sub
  /\ IF d + 2 <= PTAP
     THEN /\ at' = "pattern" /\ d' = d
          /\ out' = [out EXCEPT ![group] = Added(@, d + 2)]
          /\ err' = e /\ UNCHANGED pass
     ELSE /\ at' = "handoff" /\ pass' = FALSE
          /\ err' = Recorded(e, group, "VFIFO", sub)
          /\ UNCHANGED <<d, out>>

\* Slip: a group out of delays is not recorded.
NextDelayUnrecorded(e, sub) ==
  /\ substage' = sub
  /\ err' = e
  /\ IF d + 2 <= PTAP
     THEN /\ at' = "pattern" /\ d' = d + 2
          /\ out' = [out EXCEPT ![group] = Added(@, d + 2)]
          /\ UNCHANGED pass
     ELSE at' = "handoff" /\ pass' = FALSE /\ UNCHANGED <<d, out>>

\* This delay of the output side does not do: the next one, or give up.
NextDelay(e, sub) ==
  /\ substage' = sub
  /\ IF d + 2 <= PTAP
     THEN /\ at' = "pattern" /\ d' = d + 2
          /\ out' = [out EXCEPT ![group] = Added(@, d + 2)]
          /\ err' = e /\ UNCHANGED pass
     ELSE /\ at' = "handoff" /\ pass' = FALSE
          /\ err' = Recorded(e, group, "VFIFO", sub)
          /\ UNCHANGED <<d, out>>

\* The group's DQS input delay becomes n for the next search.
TryTap(n) == tap' = n /\ dqs_in' = [dqs_in EXCEPT ![group] = n]

\* The guaranteed read; when it passes, the search for a DQS enable phase
\* starts with the DQS input delay the hardware holds.
Pattern ==
  /\ at = "pattern"
  /\ \/ /\ at' = "sweep"
        /\ orig' = dqs_in[group] /\ TryTap(dqs_in[group])
        /\ reg' = [reg EXCEPT !.cur.substage = "VFIFO_CENTER"]
        /\ UNCHANGED <<d, out, substage, err, pass>>
     \/ NextDelay(err, substage) /\ UNCHANGED <<tap, orig, dqs_in, reg>>
  /\ UNCHANGED <<group, lat, works, passed, saved>>

\* Slip: one tap beyond the chain.
NextTapBeyond(e, sub, left) ==
  IF tap <= DQS_IN_MAX
  THEN at' = "sweep" /\ TryTap(tap + 1) /\ substage' = sub /\ err' = e
       /\ UNCHANGED <<d, out, pass>>
  ELSE NextDelay(e, sub) /\ dqs_in' = [dqs_in EXCEPT ![group] = left]
       /\ UNCHANGED tap

\* A search failed with this DQS input delay: the next tap, or the next output
\* delay with the tap the hardware was left with.
NextTap(e, sub, left) ==
  IF tap < DQS_IN_MAX
  THEN at' = "sweep" /\ TryTap(tap + 1) /\ substage' = sub /\ err' = e
       /\ UNCHANGED <<d, out, pass>>
  ELSE NextDelay(e, sub) /\ dqs_in' = [dqs_in EXCEPT ![group] = left]
       /\ UNCHANGED tap

\* Slip: the deskew starts from the tap the search ended with.
SweepKeepsTap ==
  /\ at = "sweep"
  /\ \/ at' = "centre" /\ UNCHANGED <<d, tap, out, substage, err, pass, dqs_in>>
     \/ NextTap(err, "DQS_EN_PHASE", tap)
  /\ UNCHANGED <<group, orig, lat, works, passed, reg, saved>>

\* The search for a DQS enable phase; when it finds one the DQS input delay
\* goes back to where the searches began.
Sweep ==
  /\ at = "sweep"
  /\ \/ /\ at' = "centre" /\ dqs_in' = [dqs_in EXCEPT ![group] = orig]
        /\ UNCHANGED <<d, tap, out, substage, err, pass>>
     \/ NextTap(err, "DQS_EN_PHASE", tap)
  /\ UNCHANGED <<group, orig, lat, works, passed, reg, saved>>

\* The bits of the group, by their number in the interface.
BitsOf(g) == g * DQ .. g * DQ + DQ - 1

\* Slip: the delay of a search at the second delay is left on the outputs.
ReadDoneLate(left) ==
  /\ at' = "write"
  /\ dqs_in' = [dqs_in EXCEPT ![group] = left]
  /\ d' = d + 2
  /\ out' = [out EXCEPT ![group] = IF d + 2 > 4 THEN Zeroed ELSE @]
  /\ passed' = passed \cup {<<group, "read">>}

\* The group reads: the loop advances d once more, and outputs that were
\* moved are put back.
ReadDone(left) ==
  /\ at' = "write"
  /\ dqs_in' = [dqs_in EXCEPT ![group] = left]
  /\ d' = d + 2
  /\ out' = [out EXCEPT ![group] = IF d + 2 > 2 THEN Zeroed ELSE @]
  /\ passed' = passed \cup {<<group, "read">>}

\* Read deskew: it centres the group, finds a bit without a window (and puts
\* DQS back), or runs out of margin (and leaves DQS where it moved it).
Centre ==
  /\ at = "centre"
  /\ \/ \E left \in 0 .. DQS_IN_MAX : ReadDone(left)
        /\ UNCHANGED <<tap, substage, err, pass>>
     \/ /\ \/ \E i \in BitsOf(group) :
                NextTap(Recorded(err, i, "VFIFO", "VFIFO_CENTER"), "VFIFO_CENTER", orig)
           \/ \E left \in 0 .. DQS_IN_MAX : NextTap(err, "VFIFO_CENTER", left)
        /\ UNCHANGED passed
  /\ UNCHANGED <<group, orig, lat, works, reg, saved>>

----------------------------------------------------------------------------
\* A step of the group failed, in a bit of it or as a whole: the call stops.
Fail(stage, sub) ==
  /\ at' = "handoff" /\ pass' = FALSE
  /\ \E g \in BitsOf(group) \cup {group} : err' = Recorded(err, g, stage, sub)

\* rw_mgr_mem_calibrate_writes.
Write ==
  /\ at = "write"
  /\ reg' = Showing("WRITES", "WRITES_CENTER")
  /\ \/ at' = "reread" /\ passed' = passed \cup {<<group, "write">>}
        /\ UNCHANGED <<err, pass>>
     \/ Fail("WRITES", "WRITES_CENTER") /\ UNCHANGED passed
  /\ out' = [out EXCEPT ![group].deskewed = TRUE]
  /\ UNCHANGED <<group, d, tap, orig, dqs_in, substage, lat, works, saved>>

\* rw_mgr_mem_calibrate_vfifo_end; then the next group, or the latency.
Reread ==
  /\ at = "reread"
  /\ reg' = Showing("VFIFO_AFTER_WRITES", "VFIFO_CENTER")
  /\ \/ /\ at' = IF group + 1 < GROUPS THEN "group" ELSE "latency"
        /\ group' = IF group + 1 < GROUPS THEN group + 1 ELSE group
        /\ passed' = passed \cup {<<group, "reread">>}
        /\ UNCHANGED <<err, pass>>
     \/ Fail("VFIFO_AFTER_WRITES", "VFIFO_CENTER") /\ UNCHANGED <<group, passed>>
  /\ \E left \in 0 .. DQS_IN_MAX : dqs_in' = [dqs_in EXCEPT ![group] = left]
  /\ UNCHANGED <<d, tap, orig, out, substage, lat, works, saved>>

\* Slip: the margin is forgotten.
LatencyDoneShort(n) ==
  /\ at' = "handoff"
  /\ IF works' = {}
     THEN /\ pass' = FALSE /\ lat' = n
          /\ err' = Recorded(err, 255, "LFIFO", "READ_LATENCY")
     ELSE pass' = TRUE /\ lat' = n + 1 /\ UNCHANGED err

\* Slip: a failure at the first latency is taken for a success.
LatencyDoneAnyhow(n) ==
  /\ at' = "handoff"
  /\ pass' = TRUE /\ lat' = n + 2 /\ UNCHANGED err

\* The loop ended at latency n: the smallest that worked and one more, or no
\* latency at all, recorded for group 0xff.
LatencyDone(n) ==
  /\ at' = "handoff"
  /\ IF works' = {}
     THEN /\ pass' = FALSE /\ lat' = n
          /\ err' = Recorded(err, 255, "LFIFO", "READ_LATENCY")
     ELSE pass' = TRUE /\ lat' = n + 2 /\ UNCHANGED err

\* rw_mgr_mem_calibrate_lfifo, one test per step: down from the latency the
\* memory promises to the first that fails.
Latency ==
  /\ at = "latency"
  /\ reg' = Showing("LFIFO", "READ_LATENCY")
  /\ \/ works' = works /\ LatencyDone(lat)
     \/ /\ works' = works \cup {lat}
        /\ IF lat - 1 > 0
           THEN lat' = lat - 1 /\ UNCHANGED <<at, err, pass>>
           ELSE LatencyDone(lat - 1)
  /\ UNCHANGED <<group, search, passed, saved>>

----------------------------------------------------------------------------
\* Slip: the tracking manager is let go before the interface is.
HandoffTracking ==
  /\ at = "handoff"
  /\ at' = "restore"
  /\ reg' = [reg EXCEPT !.tracking = saved]
  /\ UNCHANGED <<group, search, err, lat, works, passed, pass, saved>>

\* rw_mgr_mem_handoff, whatever the result: the controller has the interface.
Handoff ==
  /\ at = "handoff"
  /\ at' = "restore"
  /\ reg' = [reg EXCEPT !.mux = "controller"]
  /\ UNCHANGED <<group, search, err, lat, works, passed, pass, saved>>

Restore ==
  /\ at = "restore"
  /\ at' = "report"
  /\ reg' = [reg EXCEPT !.tracking = saved]
  /\ UNCHANGED <<group, search, err, lat, works, passed, pass, saved>>

\* The verdict, and for a failure the stage that was recorded.
Report ==
  /\ at = "report"
  /\ at' = "idle"
  /\ reg' = IF pass THEN [reg EXCEPT !.status = "success"]
                    ELSE [reg EXCEPT !.status = "fail", !.failing = err]
  /\ UNCHANGED <<group, search, err, lat, works, passed, pass, saved>>

Run ==
  \/ Claim \/ Take \/ StartGroup
  \/ Pattern \/ Sweep \/ Centre \/ Write \/ Reread \/ Latency
  \/ Handoff \/ Restore \/ Report

Next == Begin \/ Run

\* A call that was made runs to its end.
Spec == Init /\ [][Next]_vars /\ WF_vars(Run)

----------------------------------------------------------------------------
Steps == {"idle", "begun", "claimed", "group", "pattern", "sweep", "centre",
          "write", "reread", "latency", "handoff", "restore", "report"}
SubStages == {"NIL", "GUARANTEED_READ", "DQS_EN_PHASE", "VFIFO_CENTER",
              "WRITES_CENTER", "READ_LATENCY"}
CalStages == {"NIL", "VFIFO", "WRITES", "VFIFO_AFTER_WRITES", "LFIFO"}
Errors == [stage : CalStages, substage : SubStages, group : Nat]

\* The type invariant; whatever the searches find, the delays and the loops
\* over them stay in their ranges.
TypeOK ==
  /\ at \in Steps /\ group \in Groups
  /\ d \in 0 .. PTAP + 2
  /\ tap \in 0 .. DQS_IN_MAX /\ orig \in 0 .. DQS_IN_MAX
  /\ dqs_in \in [Groups -> 0 .. DQS_IN_MAX]
  /\ out \in [Groups -> [dq : {0}, dqs : 2 .. PTAP \cup {OUT_RESERVE}, deskewed : BOOLEAN]]
  /\ substage \in SubStages
  /\ err \in Errors
  /\ lat \in 0 .. StartLatency + 1 /\ works \subseteq 1 .. StartLatency
  /\ passed \subseteq Groups \X {"read", "write", "reread"}
  /\ pass \in BOOLEAN /\ saved \in BOOLEAN
  /\ reg \in [status : {"reset", "success", "fail"},
              mux : {"controller", "sequencer"}, tracking : BOOLEAN,
              cur : [stage : CalStages, substage : SubStages],
              failing : Errors]

\* However many output delays the read search went through, the write deskew
\* of the group starts from the delays scc_mgr_zero_group gave it.
OutputsRestored == at = "write" => out[group] = Zeroed

\* Before a group is deskewed for reads DQS is where its searches began, and
\* no search is made below that tap.
SearchesUpwards ==
  /\ at \in {"sweep", "centre"} => orig <= tap
  /\ at = "centre" => dqs_in[group] = orig

\* The latency left after a success is one more than one that was tested, and
\* every latency from there up to the first was tested and worked.
LatencyHasSpare ==
  at = "handoff" /\ pass => works = lat - 1 .. StartLatency

\* Whenever a call has failed, the register says in which stage; after a
\* success it says none.
FailureIsReported ==
  at = "idle" => ((reg.status = "fail") <=> (reg.failing.stage # "NIL"))

\* The tracking manager never samples while the sequencer has the interface,
\* and between calls it is as it was.
TrackingStopped ==
  /\ reg.mux = "sequencer" => ~reg.tracking
  /\ at \in {"idle", "begun"} => reg.tracking = saved

\* Every call returns.
Returns == at = "begun" ~> at = "idle"

----------------------------------------------------------------------------
\* The step a call is at, seen by the abstract specification.
Phase ==
  CASE at \in {"idle", "begun"}      -> "idle"
    [] at = "claimed"                -> "claimed"
    [] at \in {"restore", "report"}  -> "released"
    [] OTHER                         -> "testing"

\* What a call must pass: every step of every group, and a read latency.
LatencyTest == <<GROUPS, "latency">>
Tests == (Groups \X {"read", "write", "reread"}) \cup {LatencyTest}

Promise == INSTANCE Calibrator WITH
  phase  <- Phase,
  passed <- passed \cup (IF works = {} THEN {} ELSE {LatencyTest}),
  status <- reg.status

\* The flow keeps what a calibration promises: it never tests without having
\* claimed the interface, never reports before giving it back, and reports
\* success exactly when each step of each group and the latency passed.
KeepsPromise == Promise!Spec

=============================================================================
