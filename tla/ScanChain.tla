------------------------------ MODULE ScanChain ------------------------------
(* The delay settings of a group, as the sequencer reaches them: a setter    *)
(* writes a setting to the register file of the scan chain manager, a load  *)
(* marks the chain that holds it, and only an update shifts the marked      *)
(* chains into the pins.  Some functions do all three, some leave the       *)
(* update to their caller, and the setter of the DQS input delay leaves the *)
(* load to it too; so the callers are here, call by call, with the points   *)
(* at which they test the memory.  A setting that is written but not marked *)
(* is silently not there when the test is made.  The second delay of each   *)
(* output has no taps in this build and its setters write nothing.          *)
EXTENDS Interface

CONSTANTS
  DELAY_MAX,    \* the longest delay of a pin
  IN_RESERVE,   \* IO_DQS_IN_RESERVE
  OUT_RESERVE   \* IO_DQS_OUT_RESERVE

ASSUME ScanChainAssumption ==
  /\ DELAY_MAX \in Nat
  /\ IN_RESERVE \in 0 .. DELAY_MAX /\ OUT_RESERVE \in 0 .. DELAY_MAX

Delays == 0 .. DELAY_MAX

\* The settings each chain holds.  The pins of one kind are set alike here.
DQ     == {"dq_in", "dq_out1"}
DM     == {"dm_in", "dm_out1"}
DQS_IO == {"dqs_io_in", "dqs_out1"}
DQS    == {"dqs_in", "en_phase", "en_delay", "out_phase", "oct_out1"}
Settings == DQ \cup DM \cup DQS_IO \cup DQS

VARIABLES
  stage,   \* how far mem_calibrate is, and between which two calls a deskew is
  rfile,   \* the settings in the register file
  marked,  \* the settings of the chains marked for the next update
  pins     \* the settings in effect

vars == <<stage, rfile, marked, pins>>

\* Setters give the settings in f their new values.
Set(f) == rfile' = [s \in Settings |-> IF s \in DOMAIN f THEN f[s] ELSE rfile[s]]

\* Loads mark chains; an update, which follows in the same function or comes
\* from its caller, shifts what is marked.
Load(chains) == marked' = marked \cup chains /\ UNCHANGED pins
LoadAndUpdate(chains) ==
  /\ pins' = [s \in Settings |-> IF s \in marked \cup chains THEN rfile'[s] ELSE pins[s]]
  /\ marked' = {}

\* Where a memory test is made: by the searches, and in the turns of the scans.
Tests == {"ready", "left", "right", "write_left", "write_right", "dm_left", "dm_right"}

\* Where the DQS input delay is written and its chain not marked yet.
Bare == {"sweep_set", "reserve_set", "right_set", "restore_set", "centre_set"}

\* Where an update is due.
Due == {"sweep_loaded", "reserve_loaded", "right_loaded", "restore_loaded", "centre_loaded",
        "left_set", "left_done", "centre", "write_left_set", "write_left_done",
        "write_right_set", "write_centre", "write_centre_dqs", "dm_left_set", "dm_left_done",
        "dm_right_set", "dm_back", "dm_mid"}

Unzeroed == {"start", "bypassed", "zeroed"}
Stages   == Unzeroed \cup Tests \cup {"dm_start"} \cup Bare \cup Due

Only(s, x) == [t \in {s} |-> x]
Both(s, t, x) == [u \in {s, t} |-> x]

\* The registers hold whatever an earlier calibration left.
Init ==
  /\ stage = "start"
  /\ rfile \in {[s \in Settings |-> 0],
                [s \in Settings |-> IF s = "en_phase" THEN PHASE_MAX
                                    ELSE IF s = "out_phase" THEN 0 ELSE DELAY_MAX]}
  /\ marked = {}
  /\ pins = rfile

----------------------------------------------------------------------------
\* The pins are switched to their mode, and every chain is shifted with the
\* settings it had.
scc_set_bypass_mode ==
  /\ stage = "start" /\ stage' = "bypassed"
  /\ UNCHANGED rfile
  /\ LoadAndUpdate(Settings)

\* Slip: the DQS enable delay is left out.
zero_all_but_delay ==
  /\ stage = "bypassed" /\ stage' = "zeroed"
  /\ Set([s \in DQS \ {"en_delay"} |-> CASE s = "dqs_in"   -> IN_RESERVE
                                         [] s = "oct_out1" -> OUT_RESERVE
                                         [] OTHER          -> 0])
  /\ LoadAndUpdate(DQS)

scc_mgr_zero_all ==
  /\ stage = "bypassed" /\ stage' = "zeroed"
  /\ Set([s \in DQS |-> CASE s = "dqs_in"   -> IN_RESERVE
                          [] s = "oct_out1" -> OUT_RESERVE
                          [] OTHER          -> 0])
  /\ LoadAndUpdate(DQS)

\* A group's delays: with out_only those of its inputs are kept.
ZeroGroup(out_only) ==
  /\ LET inputs == IF out_only THEN {} ELSE {"dq_in", "dm_in", "dqs_io_in"}
     IN  Set([s \in {"dq_out1", "dm_out1", "dqs_out1", "oct_out1"} \cup inputs |->
                IF s \in {"dqs_out1", "oct_out1"} THEN OUT_RESERVE ELSE 0])
  /\ LoadAndUpdate(DQ \cup DM \cup DQS_IO \cup DQS)

scc_mgr_zero_group ==
  \/ stage = "zeroed" /\ stage' = "ready" /\ ZeroGroup(FALSE)
  \/ stage = "ready" /\ UNCHANGED stage /\ ZeroGroup(TRUE)

----------------------------------------------------------------------------
\* The setters that update at once.
scc_mgr_set_dqs_en_phase_all_ranks(p) ==
  Set(Only("en_phase", p)) /\ LoadAndUpdate(DQS)

scc_mgr_set_dqs_en_delay_all_ranks(x) ==
  Set(Only("en_delay", x)) /\ LoadAndUpdate(DQS)

scc_mgr_set_dqdqs_output_phase_all_ranks ==
  Set(Only("out_phase", 0)) /\ LoadAndUpdate(DQS)

\* Slip: the termination control is forgotten.
out_delay_add_dqs_only(x) ==
  /\ x > 0
  /\ Set(Only("dqs_out1", x))
  /\ LoadAndUpdate(DQ \cup DM \cup DQS_IO \cup DQS)

\* The delay of the output side: DQ and DM have no second delay to take it,
\* DQS and the termination control take it on their first.
scc_mgr_apply_group_all_out_delay_add_all_ranks(x) ==
  /\ x > 0
  /\ Set(Both("dqs_out1", "oct_out1", x))
  /\ LoadAndUpdate(DQ \cup DM \cup DQS_IO \cup DQS)

\* The setters that leave the update to their caller.
scc_mgr_apply_group_dq_in_delay(x) ==
  Set(Only("dq_in", x)) /\ Load(DQ)

scc_mgr_apply_group_dq_out1_delay(x) ==
  Set(Only("dq_out1", x)) /\ Load(DQ)

scc_mgr_apply_group_dm_out1_delay(x) ==
  Set(Only("dm_out1", x)) /\ Load(DM)

scc_mgr_apply_group_dqs_io_and_oct_out1(x) ==
  Set(Both("dqs_out1", "oct_out1", x)) /\ Load(DQS_IO \cup DQS)

\* The setter that leaves the load to its caller, too.
scc_mgr_set_dqs_bus_in_delay(x) ==
  Set(Only("dqs_in", x)) /\ UNCHANGED <<marked, pins>>

scc_mgr_load_dqs == UNCHANGED rfile /\ Load(DQS)

\* The update a caller makes before it issues a test.
Update == UNCHANGED rfile /\ LoadAndUpdate({})

----------------------------------------------------------------------------
\* A caller that moves the DQS input delay: three calls.
MoveDqsIn(from, set, loaded, to) ==
  \/ stage \in from /\ stage' = set /\ \E x \in Delays : scc_mgr_set_dqs_bus_in_delay(x)
  \/ stage = set /\ stage' = loaded /\ scc_mgr_load_dqs
  \/ stage = loaded /\ stage' = to /\ Update

\* The search over the DQS input delay, and its end before the read deskew.
SweepDqsIn   == MoveDqsIn({"ready"}, "sweep_set", "sweep_loaded", "ready")
ReserveDqsIn == MoveDqsIn({"ready"}, "reserve_set", "reserve_loaded", "ready")

\* The search over the delays of DQ spreads them and takes them back.
SweepDqIn(x) == Set(Only("dq_in", x)) /\ LoadAndUpdate(DQ)

\* Read deskew: the turns of the left scan, and its end, which leaves the
\* update to the first turn of the right scan.
ReadLeft ==
  \/ /\ stage \in {"ready", "left"} /\ stage' = "left_set"
     /\ \E x \in Delays : scc_mgr_apply_group_dq_in_delay(x)
  \/ stage = "left_set" /\ stage' = "left" /\ Update
  \/ stage = "left" /\ stage' = "left_done" /\ scc_mgr_apply_group_dq_in_delay(0)

ReadRight == MoveDqsIn({"left_done", "right"}, "right_set", "right_loaded", "right")

\* Slip: the delay is restored in the register file alone.
restore_unloaded ==
  \/ stage = "right" /\ stage' = "restore_set" /\ \E x \in Delays : scc_mgr_set_dqs_bus_in_delay(x)
  \/ stage = "restore_set" /\ stage' = "ready" /\ Update

\* A bit without a window: the delay is restored.
ReadRestore == MoveDqsIn({"right"}, "restore_set", "restore_loaded", "ready")

\* The bits are moved one by one, then DQS; the update is the last call.
ReadCentreDq ==
  /\ stage = "right" /\ stage' = "centre"
  /\ \E x \in Delays : Set(Only("dq_in", x)) /\ Load(DQ)

ReadCentreDqs == MoveDqsIn({"centre"}, "centre_set", "centre_loaded", "ready")

\* Write deskew: DQ is scanned to the left, DQS and the termination control
\* to the right; nothing is restored where a bit has no window.
WriteLeft ==
  \/ /\ stage \in {"ready", "write_left"} /\ stage' = "write_left_set"
     /\ \E x \in Delays : scc_mgr_apply_group_dq_out1_delay(x)
  \/ stage = "write_left_set" /\ stage' = "write_left" /\ Update
  \/ stage = "write_left" /\ stage' = "write_left_done" /\ scc_mgr_apply_group_dq_out1_delay(0)

WriteRight ==
  \/ /\ stage \in {"write_left_done", "write_right"} /\ stage' = "write_right_set"
     /\ \E x \in Delays : scc_mgr_apply_group_dqs_io_and_oct_out1(x)
  \/ stage = "write_right_set" /\ stage' = "write_right" /\ Update

WriteFails ==
  stage = "write_right" /\ stage' = "ready" /\ UNCHANGED <<rfile, marked, pins>>

WriteCentre ==
  \/ /\ stage = "write_right" /\ stage' = "write_centre"
     /\ \E x \in Delays : Set(Only("dq_out1", x)) /\ Load(DQ)
  \/ /\ stage = "write_centre" /\ stage' = "write_centre_dqs"
     /\ \E x \in Delays : scc_mgr_apply_group_dqs_io_and_oct_out1(x)
  \/ stage = "write_centre_dqs" /\ stage' = "dm_start" /\ Update

\* The data mask, in the same way; DQS is moved back before the mask is
\* centred.
DmLeft ==
  \/ /\ stage \in {"dm_start", "dm_left"} /\ stage' = "dm_left_set"
     /\ \E x \in Delays : scc_mgr_apply_group_dm_out1_delay(x)
  \/ stage = "dm_left_set" /\ stage' = "dm_left" /\ Update
  \/ stage = "dm_left" /\ stage' = "dm_left_done" /\ scc_mgr_apply_group_dm_out1_delay(0)

DmRight ==
  \/ /\ stage \in {"dm_left_done", "dm_right"} /\ stage' = "dm_right_set"
     /\ \E x \in Delays : scc_mgr_apply_group_dqs_io_and_oct_out1(x)
  \/ stage = "dm_right_set" /\ stage' = "dm_right" /\ Update

DmCentre ==
  \/ /\ stage = "dm_right" /\ stage' = "dm_back"
     /\ \E x \in Delays : scc_mgr_apply_group_dqs_io_and_oct_out1(x)
  \/ /\ stage = "dm_back" /\ stage' = "dm_mid"
     /\ \E x \in Delays : scc_mgr_apply_group_dm_out1_delay(x)
  \/ stage = "dm_mid" /\ stage' = "ready" /\ Update

ReadDeskew  == ReadLeft \/ ReadRight \/ ReadRestore \/ ReadCentreDq \/ ReadCentreDqs
WriteDeskew == WriteLeft \/ WriteRight \/ WriteFails \/ WriteCentre \/ DmLeft \/ DmRight \/ DmCentre

\* The searches call the setters that update at once.
Search ==
  \/ \E p \in 0 .. PHASE_MAX : scc_mgr_set_dqs_en_phase_all_ranks(p)
  \/ scc_mgr_set_dqdqs_output_phase_all_ranks
  \/ \E x \in Delays :
       \/ scc_mgr_set_dqs_en_delay_all_ranks(x)
       \/ SweepDqIn(x)
       \/ scc_mgr_apply_group_all_out_delay_add_all_ranks(x)

Next ==
  \/ scc_set_bypass_mode \/ scc_mgr_zero_all \/ scc_mgr_zero_group
  \/ stage = "ready" /\ UNCHANGED stage /\ Search
  \/ SweepDqsIn \/ ReserveDqsIn
  \/ ReadDeskew \/ WriteDeskew

Spec == Init /\ [][Next]_vars

----------------------------------------------------------------------------
\* The type invariant; the phase and the delays stay in their ranges.
TypeOK ==
  /\ stage \in Stages
  /\ \A f \in {rfile, pins} :
       /\ f \in [Settings -> Nat]
       /\ \A s \in Settings \ {"en_phase", "out_phase"} : f[s] \in Delays
       /\ f["en_phase"] \in 0 .. PHASE_MAX /\ f["out_phase"] = 0
  /\ marked \subseteq Settings

\* Wherever the memory is tested, every setting that was written is in
\* effect: no caller forgot to load a chain or to update, on the way of any
\* scan, of a restored delay or of a centred one.
NothingLeftBehind == stage \in Tests => \A s \in Settings : pins[s] = rfile[s]

\* Once a group was zeroed, an update never leaves the termination control
\* with another delay than the DQS output it goes with.
TerminationFollowsDqs ==
  stage \notin Unzeroed /\ marked = {} => pins["oct_out1"] = pins["dqs_out1"]

\* From the first update of a calibration on, what an earlier one left of the
\* search results is gone before the first search.
NothingInherited ==
  [][stage = "zeroed" /\ stage' = "ready" =>
       /\ \A s \in Settings \ {"dqs_in", "dqs_out1", "oct_out1"} : pins'[s] = 0
       /\ pins'["dqs_in"] = IN_RESERVE
       /\ pins'["dqs_out1"] = OUT_RESERVE /\ pins'["oct_out1"] = OUT_RESERVE]_vars

=============================================================================
