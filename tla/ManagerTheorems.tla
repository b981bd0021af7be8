-------------------------- MODULE ManagerTheorems --------------------------
(* Invariants of the scan chain manager, for delays and phases of any       *)
(* length and any sequence of calls of the setters; and of the run that     *)
(* asks the managers one at a time: what the memory tests answer, and the   *)
(* times the initialisation gives the memory.                               *)
EXTENDS MCManagers, Sequences, TLAPS

----------------------------------------------------------------------------
(* Writing settings and shifting chains.                                    *)

\* The values a setting may hold.
Values(s) == CASE s = "en_phase"  -> 0 .. PHASE_MAX
               [] s = "out_phase" -> {0}
               [] OTHER           -> Delays

Typed(f) == f \in [Settings -> Nat] /\ \A s \in Settings : f[s] \in Values(s)

\* Where no update is due.
Quiet == Unzeroed \cup Tests \cup {"dm_start"}

\* A setting that is not in effect is on a chain the next update shifts; only
\* the DQS input delay is not, between its setter and its load.
Pending ==
  \A s \in Settings : rfile[s] # pins[s] => s \in marked \/ (s = "dqs_in" /\ stage \in Bare)

\* Where no update is due none is outstanding.
Settled == stage \in Quiet => marked = {}

\* The setters of the output side move DQS and the termination control alike.
Together == stage \notin Unzeroed => rfile["oct_out1"] = rfile["dqs_out1"]

IInv == /\ stage \in Stages
        /\ Typed(rfile) /\ Typed(pins)
        /\ marked \subseteq Settings
        /\ Pending
        /\ Settled
        /\ Together

\* Three kinds of stages: nothing is due, a load is due, an update is due.
LEMMA StagesApart ==
  /\ Stages = Quiet \cup Bare \cup Due
  /\ Quiet \cap Bare = {} /\ Quiet \cap Due = {} /\ Bare \cap Due = {}
  /\ (Bare \cup Due) \cap Unzeroed = {}
<1>1. Stages = Quiet \cup Bare \cup Due
  BY DEF Stages, Quiet
<1>2. Quiet \cap Bare = {}
  BY DEF Quiet, Unzeroed, Tests, Bare
<1>3. Quiet \cap Due = {}
  BY DEF Quiet, Unzeroed, Tests, Due
<1>4. Bare \cap Due = {}
  BY DEF Bare, Due
<1> QED
  BY <1>1, <1>2, <1>3, <1>4 DEF Quiet

\* Setters touch the settings they are given and no other.
LEMMA SetIsExact ==
  ASSUME Typed(rfile), NEW f, Set(f),
         \A s \in Settings \cap DOMAIN f : f[s] \in Nat /\ f[s] \in Values(s)
  PROVE  /\ Typed(rfile')
         /\ \A s \in Settings \cap DOMAIN f : rfile'[s] = f[s]
         /\ \A s \in Settings \ DOMAIN f : rfile'[s] = rfile[s]
<1>1. rfile' = [s \in Settings |-> IF s \in DOMAIN f THEN f[s] ELSE rfile[s]]
  BY DEF Set
<1>2. \A s \in Settings : rfile'[s] = IF s \in DOMAIN f THEN f[s] ELSE rfile[s]
  BY <1>1
<1>3. \A s \in Settings : rfile'[s] \in Nat /\ rfile'[s] \in Values(s)
  BY <1>2 DEF Typed
<1>4. rfile' \in [Settings -> Nat]
  BY <1>1, <1>3
<1> HIDE DEF Settings, Values
<1> QED
  BY <1>2, <1>3, <1>4 DEF Typed

\* Marking the chain of every setting that is written, or was by the setter
\* before, leaves nothing behind.
LEMMA LoadKeeps ==
  ASSUME Pending, NEW written, NEW chains, written \subseteq chains,
         stage \notin Bare \/ "dqs_in" \in chains,
         \A s \in Settings \ written : rfile'[s] = rfile[s], Load(chains)
  PROVE  Pending'
BY DEF Pending, Load

\* So does shifting it at once.
LEMMA LoadAndUpdateKeeps ==
  ASSUME Pending, stage \notin Bare, NEW written, NEW chains, written \subseteq chains,
         \A s \in Settings \ written : rfile'[s] = rfile[s],
         Typed(rfile'), Typed(pins), LoadAndUpdate(chains)
  PROVE  Pending' /\ Settled' /\ Typed(pins') /\ marked' = {}
<1>1. pins' = [s \in Settings |-> IF s \in marked \cup chains THEN rfile'[s] ELSE pins[s]]
      /\ marked' = {}
  BY DEF LoadAndUpdate
<1>2. \A s \in Settings : pins'[s] = IF s \in marked \cup chains THEN rfile'[s] ELSE pins[s]
  BY <1>1
<1>3. \A s \in Settings : pins'[s] \in Nat /\ pins'[s] \in Values(s)
  BY <1>2 DEF Typed
<1>4. pins' \in [Settings -> Nat]
  BY <1>1, <1>3
<1>5. \A s \in Settings : rfile'[s] = pins'[s]
  BY <1>2 DEF Pending
<1> QED
  BY <1>1, <1>3, <1>4, <1>5 DEF Typed, Pending, Settled

\* A call that writes settings, marks their chains and shifts them or leaves
\* that to an update that is due keeps the invariant, when it moves both
\* outputs of the strobe or neither.
LEMMA CallKeeps ==
  ASSUME IInv, stage \notin Bare, stage' \in Stages,
         NEW f, NEW chains, Set(f), DOMAIN f \subseteq chains, chains \subseteq Settings,
         \A s \in DOMAIN f : f[s] \in Nat /\ f[s] \in Values(s),
         (Load(chains) /\ stage' \in Due) \/ LoadAndUpdate(chains),
         stage' \notin Unzeroed =>
           \/ stage \notin Unzeroed /\ "dqs_out1" \notin DOMAIN f /\ "oct_out1" \notin DOMAIN f
           \/ /\ "dqs_out1" \in DOMAIN f /\ "oct_out1" \in DOMAIN f
              /\ f["oct_out1"] = f["dqs_out1"]
  PROVE  IInv'
<1>1. /\ Typed(rfile')
      /\ \A s \in Settings \cap DOMAIN f : rfile'[s] = f[s]
      /\ \A s \in Settings \ DOMAIN f : rfile'[s] = rfile[s]
  BY SetIsExact DEF IInv
<1>2. "oct_out1" \in Settings /\ "dqs_out1" \in Settings
  BY DEF Settings, DQS_IO, DQS
<1>3. Together'
  BY <1>1, <1>2 DEF IInv, Together
<1>4. CASE Load(chains) /\ stage' \in Due
  <2>1. Pending'
    BY <1>1, <1>4, LoadKeeps DEF IInv
  <2>2. marked' \subseteq Settings /\ pins' = pins
    BY <1>4 DEF Load, IInv
  <2>3. Settled'
    BY <1>4, StagesApart DEF Settled
  <2> QED
    BY <1>1, <1>3, <2>1, <2>2, <2>3 DEF IInv
<1>5. CASE LoadAndUpdate(chains)
  <2>1. Pending' /\ Settled' /\ Typed(pins') /\ marked' = {}
    BY <1>1, <1>5, LoadAndUpdateKeeps DEF IInv
  <2> QED
    BY <1>1, <1>3, <2>1 DEF IInv
<1> QED
  BY <1>4, <1>5

\* A group that was zeroed, between two calls of its calibration.
Between == stage \notin Unzeroed /\ stage' \in Stages \ Unzeroed

\* A setter of one setting that is no output of the strobe.
LEMMA OnlyKeeps ==
  ASSUME IInv, Between, stage \notin Bare,
         NEW s \in Settings \ {"dqs_out1", "oct_out1"}, NEW x \in Values(s), x \in Nat,
         NEW chains \in SUBSET Settings, s \in chains,
         Set(Only(s, x)), (Load(chains) /\ stage' \in Due) \/ LoadAndUpdate(chains)
  PROVE  IInv'
<1> DEFINE f == Only(s, x)
<1>1. DOMAIN f = {s} /\ f[s] = x
  BY DEF Only
<1>2. Set(f)
  OBVIOUS
<1>3. stage' \in Stages /\ stage \notin Unzeroed
  BY DEF Between
<1> HIDE DEF f
<1> QED
  BY <1>1, <1>2, <1>3, CallKeeps

\* A setter of both outputs of the strobe.
LEMMA BothKeeps ==
  ASSUME IInv, Between, stage \notin Bare,
         NEW x \in Delays, NEW chains \in SUBSET Settings,
         {"dqs_out1", "oct_out1"} \subseteq chains,
         Set(Both("dqs_out1", "oct_out1", x)),
         (Load(chains) /\ stage' \in Due) \/ LoadAndUpdate(chains)
  PROVE  IInv'
<1> DEFINE f == Both("dqs_out1", "oct_out1", x)
<1>1. DOMAIN f = {"dqs_out1", "oct_out1"} /\ f["dqs_out1"] = x /\ f["oct_out1"] = x
  BY DEF Both
<1>2. Set(f)
  OBVIOUS
<1>3. stage' \in Stages
  BY DEF Between
<1>4. x \in Nat /\ x \in Values("dqs_out1") /\ x \in Values("oct_out1")
  BY ScanChainAssumption DEF Values, Delays
<1> HIDE DEF f
<1> QED
  BY <1>1, <1>2, <1>3, <1>4, CallKeeps

\* The bare setter leaves a load due.
LEMMA BareKeeps ==
  ASSUME IInv, Between, stage \notin Bare, stage' \in Bare,
         NEW x \in Delays, scc_mgr_set_dqs_bus_in_delay(x)
  PROVE  IInv'
<1> DEFINE f == Only("dqs_in", x)
<1>1. DOMAIN f = {"dqs_in"} /\ f["dqs_in"] = x
  BY DEF Only
<1>2. Set(f) /\ marked' = marked /\ pins' = pins
  BY DEF scc_mgr_set_dqs_bus_in_delay
<1>3. x \in Nat /\ x \in Values("dqs_in")
  BY ScanChainAssumption DEF Values, Delays
<1> HIDE DEF f
<1>4. Typed(rfile') /\ \A s \in Settings \ {"dqs_in"} : rfile'[s] = rfile[s]
  BY <1>1, <1>2, <1>3, SetIsExact DEF IInv
<1>5. Pending'
  BY <1>2, <1>4 DEF IInv, Pending
<1>6. Settled'
  BY StagesApart DEF Settled
<1>7. Together'
  BY <1>4 DEF IInv, Together, Between, Settings, DQS_IO, DQS
<1> QED
  BY <1>2, <1>4, <1>5, <1>6, <1>7 DEF IInv, Between

\* The load of its caller leaves an update due.
LEMMA LoadDqsKeeps ==
  ASSUME IInv, Between, stage' \in Due, scc_mgr_load_dqs
  PROVE  IInv'
<1>1. rfile' = rfile /\ Load(DQS) /\ pins' = pins /\ marked' \subseteq Settings
  BY DEF scc_mgr_load_dqs, Load, IInv, Settings
<1>2. Pending'
  <2>1. "dqs_in" \in DQS
    BY DEF DQS
  <2>2. {} \subseteq DQS /\ \A s \in Settings \ {} : rfile'[s] = rfile[s]
    BY <1>1
  <2> QED
    BY <1>1, <2>1, <2>2, LoadKeeps DEF IInv
<1>3. Settled'
  BY StagesApart DEF Settled
<1> QED
  BY <1>1, <1>2, <1>3 DEF IInv, Together, Between

\* An update leaves nothing due.
LEMMA UpdateKeeps ==
  ASSUME IInv, Between, stage \in Due, Update
  PROVE  IInv'
<1>1. rfile' = rfile /\ LoadAndUpdate({})
  BY DEF Update
<1>2. stage \notin Bare
  BY StagesApart
<1>3. Pending' /\ Settled' /\ Typed(pins') /\ marked' = {}
  BY <1>1, <1>2, LoadAndUpdateKeeps DEF IInv
<1> QED
  BY <1>1, <1>3 DEF IInv, Together, Between

\* The three calls of a caller that moves the DQS input delay.
LEMMA MoveKeeps ==
  ASSUME IInv, NEW from \in SUBSET (Stages \ (Bare \cup Unzeroed)),
         NEW set \in Bare, NEW loaded \in Due, NEW to \in Quiet \ Unzeroed,
         MoveDqsIn(from, set, loaded, to)
  PROVE  IInv'
<1>1. CASE stage \in from /\ stage' = set /\ \E x \in Delays : scc_mgr_set_dqs_bus_in_delay(x)
  <2>1. Between /\ stage \notin Bare /\ stage' \in Bare
    BY <1>1, StagesApart DEF Between
  <2> QED
    BY <1>1, <2>1, BareKeeps
<1>2. CASE stage = set /\ stage' = loaded /\ scc_mgr_load_dqs
  <2>1. Between /\ stage' \in Due
    BY <1>2, StagesApart DEF Between
  <2> QED
    BY <1>2, <2>1, LoadDqsKeeps
<1>3. CASE stage = loaded /\ stage' = to /\ Update
  <2>1. Between /\ stage \in Due
    BY <1>3, StagesApart DEF Between
  <2> QED
    BY <1>3, <2>1, UpdateKeeps
<1> QED
  BY <1>1, <1>2, <1>3 DEF MoveDqsIn

----------------------------------------------------------------------------
(* The calls.                                                               *)

LEMMA InitIInv == Init => IInv
<1> SUFFICES ASSUME Init PROVE IInv
  OBVIOUS
<1>1. PHASE_MAX \in Nat /\ DELAY_MAX \in Nat
  BY InterfaceAssumption, ScanChainAssumption
<1>2. ASSUME NEW f \in {[s \in Settings |-> 0],
                        [s \in Settings |-> IF s = "en_phase" THEN PHASE_MAX
                                            ELSE IF s = "out_phase" THEN 0 ELSE DELAY_MAX]}
      PROVE  Typed(f)
  <2>1. \A s \in Settings : f[s] \in Nat /\ f[s] \in Values(s)
    BY <1>1, <1>2 DEF Values, Delays
  <2>2. f \in [Settings -> Nat]
    BY <1>1, <1>2
  <2> QED
    BY <2>1, <2>2 DEF Typed
<1>3. Typed(rfile)
  BY <1>2 DEF Init
<1>4. stage \in Stages /\ stage \in Unzeroed
  BY DEF Init, Stages, Unzeroed
<1> QED
  BY <1>3, <1>4 DEF Init, IInv, Pending, Settled, Together

LEMMA BypassKeeps == IInv /\ scc_set_bypass_mode => IInv'
<1> SUFFICES ASSUME IInv, scc_set_bypass_mode PROVE IInv'
  OBVIOUS
<1>1. stage' = "bypassed" /\ rfile' = rfile /\ LoadAndUpdate(Settings)
  BY DEF scc_set_bypass_mode
<1>2. /\ stage \notin Bare
      /\ stage' \in Stages /\ stage' \in Unzeroed
  BY <1>1, StagesApart DEF scc_set_bypass_mode, Stages, Unzeroed, Bare
<1>3. Pending' /\ Settled' /\ Typed(pins') /\ marked' = {}
  <2>1. {} \subseteq Settings /\ \A s \in Settings \ {} : rfile'[s] = rfile[s]
    BY <1>1
  <2>2. Typed(rfile') /\ Typed(pins) /\ Pending
    BY <1>1 DEF IInv
  <2> QED
    BY <1>1, <1>2, <2>1, <2>2, LoadAndUpdateKeeps
<1> QED
  BY <1>1, <1>2, <1>3 DEF IInv, Together

LEMMA ZeroAllKeeps == IInv /\ scc_mgr_zero_all => IInv'
<1> SUFFICES ASSUME IInv, scc_mgr_zero_all PROVE IInv'
  OBVIOUS
<1> DEFINE f == [s \in DQS |-> CASE s = "dqs_in"   -> IN_RESERVE
                                 [] s = "oct_out1" -> OUT_RESERVE
                                 [] OTHER          -> 0]
<1>1. stage' = "zeroed" /\ Set(f) /\ LoadAndUpdate(DQS)
  BY DEF scc_mgr_zero_all
<1>2. DOMAIN f = DQS /\ DQS \subseteq Settings
  BY DEF Settings
<1>3. \A s \in DQS : f[s] \in Nat /\ f[s] \in Values(s)
  BY ScanChainAssumption, InterfaceAssumption DEF Values, Delays, DQS
<1>4. stage \notin Bare /\ stage' \in Stages /\ stage' \in Unzeroed
  BY <1>1 DEF scc_mgr_zero_all, Bare, Stages, Unzeroed
<1> HIDE DEF f
<1> QED
  BY <1>1, <1>2, <1>3, <1>4, CallKeeps

LEMMA ZeroGroupKeeps == IInv /\ scc_mgr_zero_group => IInv'
<1> SUFFICES ASSUME IInv, NEW out_only \in BOOLEAN, ZeroGroup(out_only),
                    stage \in {"zeroed", "ready"}, stage' = "ready"
             PROVE  IInv'
  BY DEF scc_mgr_zero_group
<1> DEFINE inputs == IF out_only THEN {} ELSE {"dq_in", "dm_in", "dqs_io_in"}
           D      == {"dq_out1", "dm_out1", "dqs_out1", "oct_out1"} \cup inputs
           f      == [s \in D |-> IF s \in {"dqs_out1", "oct_out1"} THEN OUT_RESERVE ELSE 0]
<1>1. Set(f) /\ LoadAndUpdate(DQ \cup DM \cup DQS_IO \cup DQS)
  BY DEF ZeroGroup
<1>2. /\ DOMAIN f = D /\ D \subseteq DQ \cup DM \cup DQS_IO \cup DQS
      /\ DQ \cup DM \cup DQS_IO \cup DQS \subseteq Settings
      /\ "dqs_out1" \in D /\ "oct_out1" \in D
  BY DEF Settings, DQ, DM, DQS_IO, DQS
<1>3. \A s \in D : f[s] \in Nat /\ f[s] \in Values(s)
  BY ScanChainAssumption DEF Values, Delays
<1>4. f["oct_out1"] = f["dqs_out1"]
  BY <1>2
<1>5. stage \notin Bare /\ stage' \in Stages /\ stage' \notin Unzeroed
  BY DEF Bare, Stages, Unzeroed, Tests
<1> HIDE DEF f, D
<1> QED
  BY <1>1, <1>2, <1>3, <1>4, <1>5, CallKeeps

LEMMA Chains ==
  /\ DQ \in SUBSET Settings /\ DM \in SUBSET Settings /\ DQS \in SUBSET Settings
  /\ DQS_IO \cup DQS \in SUBSET Settings
  /\ DQ \cup DM \cup DQS_IO \cup DQS \in SUBSET Settings
  /\ {"dqs_out1", "oct_out1"} \subseteq DQS_IO \cup DQS
  /\ {"en_phase", "en_delay", "out_phase", "dqs_in"} \subseteq DQS
  /\ {"dq_in", "dq_out1"} \subseteq DQ /\ "dm_out1" \in DM
BY DEF Settings, DQS_IO, DQS, DQ, DM

\* The setters of one delay of the group, with the chain they mark.
LEMMA DelayKeeps ==
  ASSUME IInv, Between, stage \notin Bare, NEW x \in Delays,
         NEW s \in {"en_delay", "dq_in", "dq_out1", "dm_out1"}, NEW C \in {DQ, DM, DQS}, s \in C,
         Set(Only(s, x)), (Load(C) /\ stage' \in Due) \/ LoadAndUpdate(C)
  PROVE  IInv'
<1>1. x \in Values(s) /\ x \in Nat
  BY ScanChainAssumption DEF Values, Delays
<1> QED
  BY <1>1, Chains, OnlyKeeps

\* The searches write, mark and shift.
LEMMA SearchKeeps == IInv /\ stage = "ready" /\ UNCHANGED stage /\ Search => IInv'
<1> SUFFICES ASSUME IInv, stage = "ready", UNCHANGED stage, Search PROVE IInv'
  OBVIOUS
<1> USE ScanChainAssumption, InterfaceAssumption
<1>1. Between /\ stage \notin Bare
  BY DEF Between, Stages, Tests, Unzeroed, Bare
<1>2. ASSUME NEW p \in 0 .. PHASE_MAX, scc_mgr_set_dqs_en_phase_all_ranks(p) PROVE IInv'
  <2>1. p \in Values("en_phase") /\ p \in Nat
    BY DEF Values
  <2> QED
    BY <1>1, <1>2, <2>1, Chains, OnlyKeeps DEF scc_mgr_set_dqs_en_phase_all_ranks
<1>3. CASE scc_mgr_set_dqdqs_output_phase_all_ranks
  <2>1. 0 \in Values("out_phase")
    BY DEF Values
  <2> QED
    BY <1>1, <1>3, <2>1, Chains, OnlyKeeps DEF scc_mgr_set_dqdqs_output_phase_all_ranks
<1>4. ASSUME NEW x \in Delays, scc_mgr_set_dqs_en_delay_all_ranks(x) \/ SweepDqIn(x)
      PROVE  IInv'
  BY <1>1, <1>4, Chains, DelayKeeps DEF scc_mgr_set_dqs_en_delay_all_ranks, SweepDqIn
<1>5. ASSUME NEW x \in Delays, scc_mgr_apply_group_all_out_delay_add_all_ranks(x)
      PROVE  IInv'
  BY <1>1, <1>5, Chains, BothKeeps DEF scc_mgr_apply_group_all_out_delay_add_all_ranks
<1> QED
  BY <1>2, <1>3, <1>4, <1>5 DEF Search

\* The three calls of the searches, and of the read deskew.
LEMMA MovesKeep ==
  IInv /\ (SweepDqsIn \/ ReserveDqsIn \/ ReadRight \/ ReadRestore \/ ReadCentreDqs) => IInv'
<1> SUFFICES ASSUME IInv, SweepDqsIn \/ ReserveDqsIn \/ ReadRight \/ ReadRestore \/ ReadCentreDqs
             PROVE  IInv'
  OBVIOUS
<1>1. {"ready", "left_done", "right", "centre"} \subseteq Stages \ (Bare \cup Unzeroed)
  BY DEF Stages, Tests, Due, Bare, Unzeroed
<1>2. {"sweep_set", "reserve_set", "right_set", "restore_set", "centre_set"} \subseteq Bare
  BY DEF Bare
<1>3. {"sweep_loaded", "reserve_loaded", "right_loaded", "restore_loaded", "centre_loaded"}
        \subseteq Due
  BY DEF Due
<1>4. {"ready", "right"} \subseteq Quiet \ Unzeroed
  BY DEF Quiet, Tests, Unzeroed
<1>5. PICK from \in SUBSET {"ready", "left_done", "right", "centre"},
           set \in {"sweep_set", "reserve_set", "right_set", "restore_set", "centre_set"},
           loaded \in {"sweep_loaded", "reserve_loaded", "right_loaded", "restore_loaded",
                       "centre_loaded"},
           to \in {"ready", "right"} : MoveDqsIn(from, set, loaded, to)
  <2>1. {"ready"} \in SUBSET {"ready", "left_done", "right", "centre"}
        /\ {"left_done", "right"} \in SUBSET {"ready", "left_done", "right", "centre"}
        /\ {"right"} \in SUBSET {"ready", "left_done", "right", "centre"}
        /\ {"centre"} \in SUBSET {"ready", "left_done", "right", "centre"}
    OBVIOUS
  <2> QED
    BY <2>1 DEF SweepDqsIn, ReserveDqsIn, ReadRight, ReadRestore, ReadCentreDqs
<1> QED
  BY <1>1, <1>2, <1>3, <1>4, <1>5, MoveKeeps

\* The read deskew: the scan to the left, and the bits that are centred.
LEMMA ReadKeeps == IInv /\ ReadDeskew => IInv'
<1> SUFFICES ASSUME IInv, ReadLeft \/ ReadCentreDq PROVE IInv'
  BY MovesKeep DEF ReadDeskew
<1>1. 0 \in Delays
  BY ScanChainAssumption DEF Delays
<1>2. ASSUME NEW x \in Delays, Set(Only("dq_in", x)) /\ Load(DQ),
             stage \in {"ready", "left", "right"},
             stage' \in {"left_set", "left_done", "centre"}
      PROVE  IInv'
  <2>1. Between /\ stage \notin Bare /\ stage' \in Due
    BY <1>2 DEF Between, Stages, Tests, Due, Unzeroed, Bare
  <2> QED
    BY <1>2, <2>1, Chains, DelayKeeps
<1>3. CASE stage = "left_set" /\ stage' = "left" /\ Update
  <2>1. Between /\ stage \in Due
    BY <1>3 DEF Between, Stages, Tests, Due, Unzeroed
  <2> QED
    BY <1>3, <2>1, UpdateKeeps
<1> QED
  BY <1>1, <1>2, <1>3 DEF ReadLeft, ReadCentreDq, scc_mgr_apply_group_dq_in_delay

\* The write deskew, DQ and data mask, writes and marks, and then updates.
LEMMA WriteKeeps == IInv /\ WriteDeskew => IInv'
<1> SUFFICES ASSUME IInv, WriteDeskew PROVE IInv'
  OBVIOUS
<1>1. 0 \in Delays
  BY ScanChainAssumption DEF Delays
<1> DEFINE From == {"ready", "write_left", "write_left_done", "write_right", "write_centre",
                    "dm_start", "dm_left", "dm_left_done", "dm_right", "dm_back"}
           Set_ == {"write_left_set", "write_left_done", "write_right_set", "write_centre",
                    "write_centre_dqs", "dm_left_set", "dm_left_done", "dm_right_set",
                    "dm_back", "dm_mid"}
<1>2. stage \in From /\ stage' \in Set_ => Between /\ stage \notin Bare /\ stage' \in Due
  <2>1. From \cap (Bare \cup Unzeroed) = {}
    BY DEF Bare, Unzeroed
  <2>2. Set_ \subseteq Due
    BY DEF Due
  <2> QED
    BY <2>1, <2>2, StagesApart DEF Between
<1>3. ASSUME NEW x \in Delays, NEW s \in {"dq_out1", "dm_out1"}, NEW C \in {DQ, DM}, s \in C,
             Set(Only(s, x)) /\ Load(C), stage \in From, stage' \in Set_
      PROVE  IInv'
  BY <1>2, <1>3, DelayKeeps
<1>4. ASSUME NEW x \in Delays, scc_mgr_apply_group_dqs_io_and_oct_out1(x),
             stage \in From, stage' \in Set_
      PROVE  IInv'
  BY <1>2, <1>4, Chains, BothKeeps DEF scc_mgr_apply_group_dqs_io_and_oct_out1
<1>5. ASSUME Update,
             stage \in {"write_left_set", "write_right_set", "write_centre_dqs", "dm_left_set",
                        "dm_right_set", "dm_mid"},
             stage' \in {"ready", "write_left", "write_right", "dm_start", "dm_left", "dm_right"}
      PROVE  IInv'
  <2>1. Between /\ stage \in Due
    BY <1>5 DEF Between, Stages, Tests, Due, Unzeroed
  <2> QED
    BY <1>5, <2>1, UpdateKeeps
<1>6. CASE WriteFails
  <2>1. /\ stage \in Tests /\ stage' \in Tests /\ stage \notin Bare /\ stage \notin Unzeroed
        /\ stage' \notin Unzeroed /\ stage' \in Stages
    BY <1>6 DEF WriteFails, Tests, Bare, Unzeroed, Stages
  <2>2. stage \in Quiet
    BY <2>1 DEF Quiet
  <2>3. rfile' = rfile /\ marked' = marked /\ pins' = pins
    BY <1>6 DEF WriteFails
  <2> QED
    BY <2>1, <2>2, <2>3 DEF IInv, Typed, Pending, Settled, Together
<1>7. CASE WriteLeft \/ DmLeft
  BY <1>1, <1>3, <1>5, <1>7, Chains
     DEF WriteLeft, DmLeft, scc_mgr_apply_group_dq_out1_delay, scc_mgr_apply_group_dm_out1_delay
<1>8. CASE WriteRight \/ DmRight
  BY <1>4, <1>5, <1>8 DEF WriteRight, DmRight
<1>9. CASE WriteCentre \/ DmCentre
  BY <1>3, <1>4, <1>5, <1>9, Chains DEF WriteCentre, DmCentre, scc_mgr_apply_group_dm_out1_delay
<1> QED
  BY <1>6, <1>7, <1>8, <1>9 DEF WriteDeskew

LEMMA NextKeeps == IInv /\ [Next]_vars => IInv'
<1> SUFFICES ASSUME IInv, [Next]_vars PROVE IInv'
  OBVIOUS
<1>1. CASE UNCHANGED vars
  BY <1>1 DEF vars, IInv, Typed, Pending, Settled, Together
<1> QED
  BY <1>1, BypassKeeps, ZeroAllKeeps, ZeroGroupKeeps, SearchKeeps, MovesKeep, ReadKeeps,
     WriteKeeps DEF Next

----------------------------------------------------------------------------
\* The inductive invariant of the calls of the scan chain manager.
THEOREM Inductive == Spec => []IInv
BY InitIInv, NextKeeps, PTL DEF Spec

\* Settings keep their types: no sequence of setters gives a delay or a phase
\* its chain cannot hold.
THEOREM TypeCorrect == Spec => []TypeOK
<1>1. ASSUME NEW f, Typed(f)
      PROVE  /\ f \in [Settings -> Nat]
             /\ \A s \in Settings \ {"en_phase", "out_phase"} : f[s] \in Delays
             /\ f["en_phase"] \in 0 .. PHASE_MAX /\ f["out_phase"] = 0
  <2>1. "en_phase" \in Settings /\ "out_phase" \in Settings
    BY DEF Settings, DQS
  <2> QED
    BY <1>1, <2>1 DEF Typed, Values
<1>2. IInv => TypeOK
  BY <1>1 DEF IInv, TypeOK
<1> QED
  BY <1>2, Inductive, PTL

\* Wherever a search or a deskew tests the memory, the settings its callers
\* wrote are in effect, whatever turns and endings of the scans came before.
THEOREM NothingIsLeftBehind == Spec => []NothingLeftBehind
<1>1. IInv => NothingLeftBehind
  <2> SUFFICES ASSUME IInv, stage \in Tests PROVE \A s \in Settings : pins[s] = rfile[s]
    BY DEF NothingLeftBehind
  <2>1. stage \in Quiet /\ stage \notin Bare
    BY StagesApart DEF Quiet
  <2> QED
    BY <2>1 DEF IInv, Pending, Settled
<1> QED
  BY <1>1, Inductive, PTL

\* After an update the termination control has the delay of the DQS output it
\* goes with, after any sequence of calls.
THEOREM TerminationAlwaysFollows == Spec => []TerminationFollowsDqs
<1>1. IInv => TerminationFollowsDqs
  <2>1. "oct_out1" \in Settings /\ "dqs_out1" \in Settings
    BY DEF Settings, DQS_IO, DQS
  <2> QED
    BY <2>1 DEF IInv, Pending, Together, TerminationFollowsDqs
<1> QED
  BY <1>1, Inductive, PTL

----------------------------------------------------------------------------
(* What scc_mgr_zero_all leaves to scc_mgr_zero_group.                      *)

Zeroed ==
  stage = "zeroed" =>
    /\ rfile["en_phase"] = 0 /\ rfile["en_delay"] = 0 /\ rfile["out_phase"] = 0
    /\ rfile["dqs_in"] = IN_RESERVE

LEMMA ZeroAllZeroes == IInv /\ scc_mgr_zero_all => Zeroed'
<1> SUFFICES ASSUME IInv, scc_mgr_zero_all PROVE Zeroed'
  OBVIOUS
<1> DEFINE f == [s \in DQS |-> CASE s = "dqs_in"   -> IN_RESERVE
                                 [] s = "oct_out1" -> OUT_RESERVE
                                 [] OTHER          -> 0]
<1>1. rfile' = [s \in Settings |-> IF s \in DOMAIN f THEN f[s] ELSE rfile[s]]
  BY DEF scc_mgr_zero_all, Set
<1>2. DOMAIN f = DQS
  OBVIOUS
<1>3. \A s \in DQS : rfile'[s] = f[s]
  BY <1>1, <1>2 DEF Settings
<1>4. {"en_phase", "en_delay", "out_phase", "dqs_in"} \subseteq DQS
  BY DEF DQS
<1> QED
  BY <1>3, <1>4 DEF Zeroed

\* The calls of a group that was zeroed come from a stage behind it and lead
\* to one.
LEMMA CallsAreBehind ==
  Next => \/ scc_set_bypass_mode \/ scc_mgr_zero_all \/ scc_mgr_zero_group
          \/ stage \notin Unzeroed /\ stage' \notin Unzeroed
<1>1. stage = "ready" /\ UNCHANGED stage => stage \notin Unzeroed /\ stage' \notin Unzeroed
  BY DEF Unzeroed
<1>2. SweepDqsIn \/ ReserveDqsIn => stage \notin Unzeroed /\ stage' \notin Unzeroed
  BY DEF SweepDqsIn, ReserveDqsIn, MoveDqsIn, Unzeroed
<1>3. ReadDeskew => stage \notin Unzeroed /\ stage' \notin Unzeroed
  BY DEF ReadDeskew, ReadLeft, ReadRight, ReadRestore, ReadCentreDq, ReadCentreDqs, MoveDqsIn,
         Unzeroed
<1>4. WriteDeskew => stage \notin Unzeroed /\ stage' \notin Unzeroed
  BY DEF WriteDeskew, WriteLeft, WriteRight, WriteFails, WriteCentre, DmLeft, DmRight, DmCentre,
         Unzeroed
<1> QED
  BY <1>1, <1>2, <1>3, <1>4 DEF Next

LEMMA ZeroedInvariant == Spec => []Zeroed
<1>1. Init => Zeroed
  BY DEF Init, Zeroed
<1>2. IInv /\ Zeroed /\ [Next]_vars => Zeroed'
  <2> SUFFICES ASSUME IInv, Zeroed, [Next]_vars, stage' = "zeroed" PROVE Zeroed'
    BY DEF Zeroed
  <2>1. CASE UNCHANGED vars
    BY <2>1 DEF vars, Zeroed
  <2>2. CASE scc_mgr_zero_all
    BY <2>2, ZeroAllZeroes
  <2> QED
    BY <2>1, <2>2, CallsAreBehind DEF scc_set_bypass_mode, scc_mgr_zero_group, Unzeroed
<1> QED
  BY <1>1, <1>2, Inductive, PTL DEF Spec

\* Before the first search every setting in effect is the one of a fresh
\* start, whatever an earlier calibration left in the registers: between them
\* scc_mgr_zero_all and the first scc_mgr_zero_group write all, and the second
\* shifts all.
THEOREM NothingIsInherited == Spec => NothingInherited
<1> DEFINE Fresh ==
      /\ \A s \in Settings \ {"dqs_in", "dqs_out1", "oct_out1"} : pins'[s] = 0
      /\ pins'["dqs_in"] = IN_RESERVE
      /\ pins'["dqs_out1"] = OUT_RESERVE /\ pins'["oct_out1"] = OUT_RESERVE
<1>1. ASSUME Zeroed, Next, stage = "zeroed", stage' = "ready" PROVE Fresh
  <2>1. stage = "zeroed" /\ ZeroGroup(FALSE)
    BY <1>1, CallsAreBehind
       DEF scc_set_bypass_mode, scc_mgr_zero_all, scc_mgr_zero_group, Unzeroed
  <2> DEFINE D == {"dq_out1", "dm_out1", "dqs_out1", "oct_out1", "dq_in", "dm_in", "dqs_io_in"}
             f == [s \in {"dq_out1", "dm_out1", "dqs_out1", "oct_out1"} \cup
                          {"dq_in", "dm_in", "dqs_io_in"} |->
                      IF s \in {"dqs_out1", "oct_out1"} THEN OUT_RESERVE ELSE 0]
  <2>2. rfile' = [s \in Settings |-> IF s \in DOMAIN f THEN f[s] ELSE rfile[s]]
        /\ LoadAndUpdate(DQ \cup DM \cup DQS_IO \cup DQS)
    BY <2>1 DEF ZeroGroup, Set
  <2>3. \A s \in Settings : pins'[s] = rfile'[s]
    <3>1. pins' = [s \in Settings |-> IF s \in marked \cup (DQ \cup DM \cup DQS_IO \cup DQS)
                                      THEN rfile'[s] ELSE pins[s]]
      BY <2>2 DEF LoadAndUpdate
    <3> QED
      BY <3>1 DEF Settings
  <2>4. \A s \in Settings :
          rfile'[s] = IF s \in D THEN IF s \in {"dqs_out1", "oct_out1"} THEN OUT_RESERVE ELSE 0
                      ELSE rfile[s]
    BY <2>2
  <2>5. /\ rfile["en_phase"] = 0 /\ rfile["en_delay"] = 0 /\ rfile["out_phase"] = 0
        /\ rfile["dqs_in"] = IN_RESERVE
    BY <1>1, <2>1 DEF Zeroed
  <2> QED
    BY <2>3, <2>4, <2>5 DEF Settings, DQ, DM, DQS_IO, DQS
<1>2. Zeroed /\ [Next]_vars => [stage = "zeroed" /\ stage' = "ready" => Fresh]_vars
  BY <1>1 DEF vars
<1> QED
  BY <1>2, ZeroedInvariant, PTL DEF Spec, NothingInherited

----------------------------------------------------------------------------
(* The run: one manager is asked, and the others rest.                      *)

\* The scan chain manager of the run is that of the theorems above.
LEMMA RunIsScanChain == MCSpec => Spec
<1>1. MCInit => Init
  BY DEF MCInit
<1>2. [MCNext]_all_vars => [Next]_vars
  BY DEF MCNext, all_vars
<1> QED
  BY <1>1, <1>2, PTL DEF MCSpec, Spec

----------------------------------------------------------------------------
(* The check of a test.  While a rank is tested, a pin of a virtual group    *)
(* that was read counts as correct when it was before and its bit of the    *)
(* check so far is set; the pins of the groups to come count as before.     *)

Base(g) == g * WIDTH

Counted(q) == q \in bit_chk /\ (q >= Base(vg + 1) => q - Base(vg + 1) \in tmp)

CInv ==
  /\ t_at \in {"test", "checked", "done"}
  /\ vg \in 0 .. VG - 1
  /\ tmp \subseteq Nat
  /\ bit_chk \subseteq T!Pins
  /\ t_at = "test" => \A q \in T!Pins : q \in bad <=> ~Counted(q)
  /\ t_at # "test" => vg = VG - 1 /\ tmp = {}
  /\ T!CheckIsExact

LEMMA PinsOfATest ==
  /\ VG \in Nat \ {0} /\ WIDTH \in Nat \ {0} /\ VG * WIDTH \in Nat
  /\ T!Pins = 0 .. VG * WIDTH - 1
BY InterfaceAssumption DEF T!Pins

\* Where a test starts nothing has failed yet.
LEMMA StartIsExact ==
  ASSUME vg = VG - 1, bit_chk = T!Pins, bad = {}, tmp = {}, t_at = T!FirstStep
  PROVE  CInv
<1>1. Base(vg + 1) = VG * WIDTH
  BY PinsOfATest DEF Base
<1>2. \A q \in T!Pins : Counted(q)
  BY <1>1, PinsOfATest DEF Counted
<1>3. t_at \in {"test", "checked"}
  BY DEF T!FirstStep
<1> QED
  BY <1>2, <1>3, PinsOfATest DEF CInv, T!CheckIsExact

\* The same of the test that is made again.
LEMMA AgainIsExact ==
  ASSUME T!Again, vg' = VG - 1, tmp' = {}
  PROVE  CInv'
<1>1. bit_chk' = T!Pins /\ bad' = {} /\ t_at' = T!FirstStep
  BY DEF T!Again
<1>2. Base(vg' + 1) = VG * WIDTH
  BY PinsOfATest DEF Base
<1>3. \A q \in T!Pins : q \in bit_chk' /\ ~(q >= Base(vg' + 1))
  BY <1>1, <1>2, PinsOfATest
<1>4. t_at' \in {"test", "checked"}
  BY <1>1 DEF T!FirstStep
<1> QED
  BY <1>1, <1>3, <1>4, PinsOfATest DEF CInv, T!CheckIsExact, Counted

\* The fold puts the lanes of the group just read below those read before.
LEMMA FoldIsExact ==
  ASSUME CInv, t_at = "test", NEW e \in SUBSET T!Lanes, NEW q \in T!Pins
  PROVE  q \in bad \cup {b + vg * WIDTH : b \in e}
           <=> ~(q \in bit_chk /\ (q >= Base(vg) => q - Base(vg) \in T!Folded(e)))
<1>1. Base(vg) \in Nat /\ Base(vg + 1) = Base(vg) + WIDTH /\ WIDTH \in Nat \ {0}
  BY PinsOfATest DEF CInv, Base
<1>2. q \in Nat
  BY PinsOfATest
<1>3. q \in {b + vg * WIDTH : b \in e} <=> q - Base(vg) \in e
  <2>1. \A b \in e : b \in Nat /\ b < WIDTH
    BY <1>1 DEF T!Lanes
  <2>2. \A b \in e : q = b + Base(vg) <=> b = q - Base(vg)
    BY <1>1, <1>2, <2>1
  <2> QED
    BY <2>2 DEF Base
<1>4. q \in bad <=> ~Counted(q)
  BY DEF CInv
<1>5. CASE q < Base(vg)
  <2>1. q - Base(vg) \notin e
    BY <1>1, <1>2, <1>5 DEF T!Lanes
  <2>2. ~(q >= Base(vg)) /\ ~(q >= Base(vg + 1))
    BY <1>1, <1>2, <1>5
  <2> QED
    BY <1>3, <1>4, <2>1, <2>2 DEF Counted
<1>6. CASE Base(vg) <= q /\ q < Base(vg + 1)
  <2>1. q - Base(vg) \in T!Lanes
    BY <1>1, <1>2, <1>6 DEF T!Lanes
  <2>2. \A b \in tmp : b + WIDTH # q - Base(vg)
    BY <1>1, <1>2, <1>6 DEF CInv
  <2>3. q - Base(vg) \in T!Folded(e) <=> q - Base(vg) \notin e
    BY <2>1, <2>2 DEF T!Folded
  <2>4. q >= Base(vg) /\ ~(q >= Base(vg + 1))
    BY <1>1, <1>2, <1>6
  <2> QED
    BY <1>3, <1>4, <2>3, <2>4 DEF Counted
<1>7. CASE q >= Base(vg + 1)
  <2>1. q - Base(vg) \notin T!Lanes /\ q - Base(vg) \notin e
    BY <1>1, <1>2, <1>7 DEF T!Lanes
  <2>2. \A b \in tmp : b + WIDTH = q - Base(vg) <=> b = q - Base(vg + 1)
    BY <1>1, <1>2, <1>7 DEF CInv
  <2>3. q - Base(vg) \in T!Folded(e) <=> q - Base(vg + 1) \in tmp
    BY <2>1, <2>2 DEF T!Folded
  <2>4. q >= Base(vg) /\ q >= Base(vg + 1)
    BY <1>1, <1>2, <1>7
  <2> QED
    BY <1>3, <1>4, <2>1, <2>3, <2>4 DEF Counted
<1> QED
  BY <1>1, <1>2, <1>5, <1>6, <1>7

LEMMA TurnIsExact == CInv /\ T!Turn => CInv'
<1> SUFFICES ASSUME CInv, T!Turn PROVE CInv'
  OBVIOUS
<1>1. t_at = "test" /\ vg \in 0 .. VG - 1 /\ tmp \subseteq Nat /\ bit_chk \subseteq T!Pins
  BY DEF CInv, T!Turn
<1>2. PICK e \in SUBSET T!Lanes :
        /\ bad' = bad \cup {b + vg * WIDTH : b \in e}
        /\ IF vg > 0
           THEN /\ tmp' = T!Folded(e) /\ vg' = vg - 1 /\ UNCHANGED <<t_at, t_rank, bit_chk>>
           ELSE /\ bit_chk' = T!Narrowed(T!Folded(e)) /\ tmp' = {} /\ vg' = VG - 1
                /\ IF T!RanksFrom(t_rank + 1) = {}
                   THEN t_at' = "checked" /\ UNCHANGED t_rank
                   ELSE t_rank' = T!LeastRank(T!RanksFrom(t_rank + 1)) /\ UNCHANGED t_at
  BY DEF T!Turn, T!Seen
<1>3. \A q \in T!Pins :
        q \in bad' <=> ~(q \in bit_chk /\ (q >= Base(vg) => q - Base(vg) \in T!Folded(e)))
  BY <1>1, <1>2, FoldIsExact
<1>4. CASE vg > 0
  <2>1. vg' + 1 = vg /\ vg' \in 0 .. VG - 1
    BY <1>1, <1>2, <1>4, PinsOfATest
  <2>2. tmp' \subseteq Nat
    BY <1>1, <1>2, <1>4, PinsOfATest DEF T!Folded, T!Lanes
  <2>3. bit_chk' = bit_chk /\ t_at' = "test" /\ tmp' = T!Folded(e)
    BY <1>1, <1>2, <1>4
  <2>4. \A q \in T!Pins : q \in bad' <=> ~Counted(q)'
    BY <1>3, <2>1, <2>3 DEF Counted, Base
  <2> QED
    BY <1>1, <2>1, <2>2, <2>3, <2>4 DEF CInv, T!CheckIsExact, T!Pins
<1>5. CASE vg = 0
  <2>1. bit_chk' = bit_chk \cap T!Folded(e) /\ tmp' = {} /\ vg' = VG - 1
        /\ t_at' \in {"test", "checked"}
    BY <1>1, <1>2, <1>5 DEF T!Narrowed
  <2>2. Base(vg) = 0 /\ \A q \in T!Pins : q \in Nat /\ q - Base(vg) = q /\ q >= Base(vg)
    BY <1>5, PinsOfATest DEF Base
  <2>3. \A q \in T!Pins : q \in bad' <=> q \notin bit_chk'
    BY <1>3, <2>1, <2>2
  <2>4. Base(vg' + 1) = VG * WIDTH
    BY <2>1, PinsOfATest DEF Base
  <2>5. \A q \in T!Pins : ~(q >= Base(vg' + 1))
    BY <2>4, PinsOfATest
  <2>6. \A q \in T!Pins : q \in bad' <=> ~Counted(q)'
    BY <2>3, <2>5 DEF Counted, Base
  <2>7. bit_chk' \subseteq T!Pins /\ bit_chk' = T!Pins \ bad'
    BY <1>1, <2>1, <2>3
  <2>8. vg' \in 0 .. VG - 1
    BY <2>1, PinsOfATest
  <2> QED
    BY <2>1, <2>6, <2>7, <2>8 DEF CInv, T!CheckIsExact, T!Pins
<1> QED
  BY <1>1, <1>4, <1>5, PinsOfATest

LEMMA CheckKeepsExact == CInv /\ T!Check => CInv'
<1> SUFFICES ASSUME CInv, T!Check PROVE CInv'
  OBVIOUS
<1>1. t_at = "checked" /\ UNCHANGED <<kind, all_correct, word, tmp, vg>>
  BY DEF T!Check
<1>2. vg' = VG - 1 /\ tmp' = {}
  BY <1>1 DEF CInv
<1>3. T!Again \/ \E r : T!Return(r)
  BY DEF T!Check, T!CheckWrite, T!CheckRead, T!CheckPatterns
<1>4. CASE T!Again
  BY <1>2, <1>4, AgainIsExact
<1>5. ASSUME NEW r, T!Return(r) PROVE CInv'
  <2>1. t_at' = "done" /\ UNCHANGED <<bit_chk, bad>>
    BY <1>5 DEF T!Return
  <2> QED
    BY <1>1, <1>2, <2>1 DEF CInv, T!CheckIsExact, T!Pins
<1> QED
  BY <1>3, <1>4, <1>5

----------------------------------------------------------------------------
(* The repetitions.                                                         *)

Repeats ==
  /\ try \in Nat
  /\ kind = "patterns" => phase = try - 1 /\ try <= PHASE_MAX + 1
  /\ t_at = "done" =>
       /\ kind = "read" /\ result => try + 1 >= TRIES
       /\ kind = "patterns" /\ ~result => try = PHASE_MAX + 1
  /\ kind \in T!Kinds

LEMMA CheckKeepsRepeats ==
  ASSUME Repeats, T!Check
  PROVE  Repeats'
<1>1. /\ TRIES \in Nat /\ PHASE_MAX \in Nat /\ try \in Nat
      /\ UNCHANGED <<kind, all_correct>> /\ kind \in T!Kinds
  BY InterfaceAssumption DEF T!Check, Repeats
<1>2. CASE T!CheckWrite
  <2>1. kind = "write" /\ try' = try
    BY <1>2 DEF T!CheckWrite, T!Return
  <2> QED
    BY <1>1, <2>1 DEF Repeats
<1>3. CASE T!CheckRead
  <2>1. kind = "read"
    BY <1>3 DEF T!CheckRead
  <2>2. CASE T!Again
    <3>1. try' = try + 1 /\ t_at' # "done"
      BY <2>2 DEF T!Again, T!FirstStep
    <3> QED
      BY <1>1, <2>1, <3>1 DEF Repeats
  <2>3. CASE ~(T!Verdict /\ try + 1 < TRIES) /\ T!Return(T!Verdict)
    <3>1. try' = try /\ (result' => T!Verdict)
      BY <2>3 DEF T!Return
    <3>2. result' => try + 1 >= TRIES
      <4>1. ~T!Verdict \/ try + 1 >= TRIES
        BY <1>1, <2>3
      <4> QED
        BY <3>1, <4>1
    <3> QED
      BY <1>1, <2>1, <3>1, <3>2 DEF Repeats
  <2> QED
    BY <1>3, <2>2, <2>3 DEF T!CheckRead
<1>4. CASE T!CheckPatterns
  <2>1. kind = "patterns" /\ phase = try - 1 /\ try <= PHASE_MAX + 1
    BY <1>4 DEF T!CheckPatterns, Repeats
  <2>2. CASE T!Verdict /\ T!Return(TRUE)
    <3>1. result' = TRUE /\ try' = try /\ phase' = phase
      BY <2>2 DEF T!Return
    <3> QED
      BY <1>1, <2>1, <3>1 DEF Repeats
  <2>3. CASE try <= PHASE_MAX /\ phase' = try /\ T!Again
    <3>1. try' = try + 1 /\ t_at' # "done"
      BY <2>3 DEF T!Again, T!FirstStep
    <3> QED
      BY <1>1, <2>1, <2>3, <3>1 DEF Repeats
  <2>4. CASE try > PHASE_MAX /\ T!Return(FALSE)
    <3>1. try' = try /\ phase' = phase /\ try = PHASE_MAX + 1
      BY <1>1, <2>1, <2>4 DEF T!Return
    <3> QED
      BY <1>1, <2>1, <3>1 DEF Repeats
  <2> QED
    BY <1>4, <2>2, <2>3, <2>4 DEF T!CheckPatterns
<1> QED
  BY <1>2, <1>3, <1>4 DEF T!Check

\* The check of every test of the run names exactly the pins that failed in no
\* rank that is not skipped, whatever the error words.
THEOREM CheckIsAlwaysExact == MCSpec => []CheckIsExact
<1>1. MCInit => CInv
  BY StartIsExact DEF MCInit, T!Init
<1>2. CInv /\ [MCNext]_all_vars => CInv'
  <2>1. CInv /\ UNCHANGED t_vars => CInv'
    BY DEF t_vars, CInv, T!CheckIsExact, Counted, Base, T!Pins
  <2>2. [MCNext]_all_vars => T!Turn \/ T!Check \/ UNCHANGED t_vars
    BY DEF MCNext, T!Next, all_vars
  <2> QED
    BY <2>1, <2>2, TurnIsExact, CheckKeepsExact
<1>3. CInv => CheckIsExact
  BY DEF CInv, CheckIsExact
<1> QED
  BY <1>1, <1>2, <1>3, PTL DEF MCSpec

\* A read of the run said to work worked in every test, a guaranteed read said
\* to fail failed with every DQS enable phase.
THEOREM NoTestIsEverSkipped == MCSpec => []NoTestIsSkipped
<1>1. MCInit => Repeats
  BY InterfaceAssumption DEF MCInit, T!Init, Repeats, T!Kinds, T!NoPhase, T!FirstStep
<1>2. Repeats /\ [MCNext]_all_vars => Repeats'
  <2>1. Repeats /\ UNCHANGED t_vars => Repeats'
    BY DEF t_vars, Repeats
  <2>2. Repeats /\ T!Turn => Repeats'
    <3>1. T!Turn => UNCHANGED <<kind, try, phase, result>> /\ t_at' # "done"
      BY DEF T!Turn
    <3> QED
      BY <3>1 DEF Repeats
  <2>3. [MCNext]_all_vars => T!Turn \/ T!Check \/ UNCHANGED t_vars
    BY DEF MCNext, T!Next, all_vars
  <2> QED
    BY <2>1, <2>2, <2>3, CheckKeepsRepeats
<1>3. Repeats => NoTestIsSkipped
  BY DEF Repeats, NoTestIsSkipped, T!NoTestIsSkipped
<1> QED
  BY <1>1, <1>2, <1>3, PTL DEF MCSpec

----------------------------------------------------------------------------
(* The waits of the initialisation.  Behind every command the memory has    *)
(* been given the time it needs whatever comes next, MRS1 excepted: that    *)
(* one is followed by a DLL reset without a wait or by the mode registers   *)
(* of the user with one.                                                    *)

\* delay_for_n_mem_clocks waits no less than it is asked to, whichever of its
\* three loops it needs.
THEOREM WaitsLongEnough ==
  ASSUME NEW clocks \in Nat
  PROVE  I!delay_for_n_mem_clocks(clocks) >= clocks
<1>1. CASE clocks <= I!BYTE
  BY <1>1 DEF I!delay_for_n_mem_clocks, I!Waits, I!Counters, I!BYTE
<1>2. CASE clocks > I!BYTE /\ clocks <= I!BYTE * I!BYTE
  <2>1. I!delay_for_n_mem_clocks(clocks) = I!BYTE * ((clocks - 1) \div I!BYTE + 1)
    BY <1>2 DEF I!delay_for_n_mem_clocks, I!Waits, I!Counters, I!BYTE
  <2> QED
    BY <2>1 DEF I!BYTE
<1>3. CASE clocks > I!BYTE * I!BYTE
  <2>1. I!delay_for_n_mem_clocks(clocks)
          = I!BYTE * I!BYTE * ((clocks - 1) \div (I!BYTE * I!BYTE) + 1)
    BY <1>3 DEF I!delay_for_n_mem_clocks, I!Waits, I!Counters, I!BYTE
  <2> QED
    BY <2>1 DEF I!BYTE
<1> QED
  BY <1>1, <1>2, <1>3 DEF I!BYTE

\* The clocks that pass when a wait is asked for.
Waited(clocks) == I!delay_for_n_mem_clocks(clocks)

LEMMA WaitsAsAsked == \A clocks \in Nat : Waited(clocks) \in Nat /\ Waited(clocks) >= clocks
<1>1. ASSUME NEW clocks \in Nat PROVE I!delay_for_n_mem_clocks(clocks) \in Nat
  <2> DEFINE c == I!Counters(clocks)
  <2>1. c.inner \in Nat /\ c.outer \in Nat /\ c.c_loop \in Nat
    BY DEF I!Counters, I!BYTE
  <2> HIDE DEF c
  <2>2. (c.inner + 1) * (c.outer + 1) \in Nat
    BY <2>1
  <2> QED
    BY <2>1, <2>2 DEF I!delay_for_n_mem_clocks, I!Waits, c
<1> QED
  BY <1>1, WaitsLongEnough DEF Waited

\* The commands of the programs, and what else is given.
Programmed == {"MRS1", "MRS2", "MRS3", "MRS0_DLL_RESET", "MRS0_USER", "ZQCL",
               "PRECHARGE_ALL", "ACTIVATE_0_AND_1"}
Names      == Programmed \cup {"RESET", "RESET_HIGH", "CKE"}

\* What a command needs behind it, MRS1 before one of MRS0 excepted.
Need(name) == I!Required(name, "MRS2", 0)

\* The command that is next is one whose wait is enough.
EnoughAt(program) ==
  /\ program[i_step].name \in Programmed /\ program[i_step].wait \in Nat
  /\ program[i_step].wait >= Need(program[i_step].name)

\* Give of the initialisation.
Gives(program, next) == I!Give(program, next)

Suffices(before, next, w, r) == w >= I!Required(before, next, r)

Steps == CASE i_at = "init"     -> 1 .. 5
           [] i_at = "activate" -> 1 .. 2
           [] i_at = "handoff"  -> 1 .. 5
           [] OTHER             -> {1}

Rested ==
  /\ i_at \in {"reset", "raise", "enable", "init", "config", "activate", "calibrate",
               "handoff", "done"}
  /\ i_step \in Steps
  /\ i_last \in Names
  /\ i_at \in {"reset", "raise"} => i_last = "RESET"
  /\ i_at # "reset" => i_waited >= Need(i_last)
  /\ i_last = "MRS1" => \/ i_at = "init" /\ i_step = 4 /\ (i_rank \in Mirrored => i_waited >= 4)
                        \/ i_at = "handoff" /\ i_waited >= 4

LEMMA Needs ==
  /\ Need("MRS2") = 4 /\ Need("MRS3") = 4
  /\ Need("MRS1") = 0 /\ Need("MRS0_DLL_RESET") = 0 /\ Need("MRS0_USER") = 0
  /\ Need("ZQCL") = 512 /\ Need("CKE") = 250
  /\ Need("PRECHARGE_ALL") = 0 /\ Need("ACTIVATE_0_AND_1") = 0
BY DEF I!Required, Need

\* What a command needs does not depend on the next, MRS1 excepted.
LEMMA NeedSuffices ==
  ASSUME NEW before, NEW next, before # "MRS1" \/ next \notin {"MRS0_USER", "MRS0_DLL_RESET"},
         NEW w, NEW r, w >= Need(before)
  PROVE  Suffices(before, next, w, r)
BY DEF I!Required, Need, Suffices

\* A command of a program that asks for a wait that is enough: what it leaves
\* and where the program goes on.
LEMMA GiveRests ==
  ASSUME NEW program, NEW next, Gives(program, next), i_step \in 1 .. Len(program),
         Len(program) \in Nat, EnoughAt(program)
  PROVE  /\ i_last' = program[i_step].name /\ i_last' \in Names
         /\ i_waited' \in Nat
         /\ i_waited' >= program[i_step].wait /\ i_waited' >= Need(i_last')
         /\ \/ /\ i_step < Len(program)
               /\ i_step' = i_step + 1 /\ i_at' = i_at /\ i_rank' = i_rank
            \/ i_step = Len(program) /\ i_step' = 1 /\ i_at' \in {i_at, next}
<1>1. i_last' = program[i_step].name /\ i_waited' = Waited(program[i_step].wait)
  BY DEF Gives, I!Give, Waited
<1>2. \/ i_step < Len(program) /\ i_step' = i_step + 1 /\ i_at' = i_at /\ i_rank' = i_rank
      \/ ~(i_step < Len(program)) /\ i_step' = 1 /\ i_at' \in {i_at, next}
  BY DEF Gives, I!Give, I!Enter
<1>3. Need(program[i_step].name) \in Int
  BY Needs DEF Programmed, EnoughAt
<1>4. /\ i_waited' \in Nat
      /\ i_waited' >= program[i_step].wait /\ i_waited' >= Need(i_last')
  BY <1>1, <1>3, WaitsAsAsked DEF EnoughAt
<1> QED
  BY <1>1, <1>2, <1>4 DEF Names, EnoughAt

LEMMA InitRankRests ==
  ASSUME Rested, I!InitRank
  PROVE  Rested' /\ Suffices(i_last, i_last', i_waited, i_rank)
<1>0. PICK p : p = I!init_program(i_rank)
  OBVIOUS
<1> DEFINE name == p[i_step].name
           wait == p[i_step].wait
<1>1. i_at = "init" /\ Gives(p, "config") /\ i_step \in 1 .. 5
  BY <1>0 DEF I!InitRank, Gives, Rested, Steps
<1>2. Len(p) = 5
  BY <1>0 DEF I!init_program
<1>3. i_step = 1 => name = "MRS2" /\ wait = 4
  BY <1>0 DEF I!init_program, I!Command
<1>4. i_step = 2 => name = "MRS3" /\ wait = 4
  BY <1>0 DEF I!init_program, I!Command
<1>5. i_step = 3 => name = "MRS1" /\ wait = IF i_rank \in Mirrored THEN 4 ELSE 0
  BY <1>0 DEF I!init_program, I!Command
<1>6. i_step = 4 => name = "MRS0_DLL_RESET" /\ wait = 0
  BY <1>0 DEF I!init_program, I!Command
<1>7. i_step = 5 => name = "ZQCL" /\ wait = 512
  BY <1>0 DEF I!init_program, I!Command
<1> HIDE DEF name, wait
<1>8. /\ name \in Programmed /\ wait \in Nat /\ wait >= Need(name)
      /\ name # "MRS0_USER" /\ (name = "MRS1" => i_step = 3)
      /\ name = "MRS0_DLL_RESET" => i_step = 4
  BY <1>1, <1>3, <1>4, <1>5, <1>6, <1>7, Needs DEF Programmed
<1>9. /\ i_last' = name /\ i_last' \in Names
      /\ i_waited' \in Nat /\ i_waited' >= wait /\ i_waited' >= Need(i_last')
      /\ \/ i_step < 5 /\ i_step' = i_step + 1 /\ i_at' = "init" /\ i_rank' = i_rank
         \/ i_step = 5 /\ i_step' = 1 /\ i_at' \in {"init", "config"}
  <2>1. EnoughAt(p)
    BY <1>8 DEF EnoughAt, name, wait
  <2>2. i_step \in 1 .. Len(p) /\ Len(p) \in Nat
    BY <1>1, <1>2
  <2>3. /\ i_last' = p[i_step].name /\ i_last' \in Names
        /\ i_waited' \in Nat
        /\ i_waited' >= p[i_step].wait /\ i_waited' >= Need(i_last')
        /\ \/ i_step < Len(p) /\ i_step' = i_step + 1 /\ i_at' = i_at /\ i_rank' = i_rank
           \/ i_step = Len(p) /\ i_step' = 1 /\ i_at' \in {i_at, "config"}
    BY <1>1, <2>1, <2>2, GiveRests
  <2> QED
    BY <1>1, <1>2, <2>3 DEF name, wait
<1>10. Suffices(i_last, i_last', i_waited, i_rank)
  <2>1. CASE i_last = "MRS1" /\ name = "MRS0_DLL_RESET"
    <3>1. i_rank \in Mirrored => i_waited >= 4
      BY <1>1, <2>1 DEF Rested
    <3>2. i_waited >= 0
      BY <1>1, <2>1, Needs DEF Rested
    <3> QED
      BY <1>9, <2>1, <3>1, <3>2 DEF Suffices, I!Required
  <2> QED
    BY <1>1, <1>8, <1>9, <2>1, NeedSuffices DEF Rested
<1>11. i_step' \in Steps' /\ i_at' \in {"init", "config"}
  BY <1>1, <1>9 DEF Steps
<1>12. i_last' = "MRS1" => i_at' = "init" /\ i_step' = 4 /\ (i_rank' \in Mirrored => i_waited' >= 4)
  BY <1>5, <1>8, <1>9
<1> QED
  BY <1>1, <1>8, <1>9, <1>10, <1>11, <1>12 DEF Rested

LEMMA ActivateRankRests ==
  ASSUME Rested, I!ActivateRank
  PROVE  Rested' /\ Suffices(i_last, i_last', i_waited, i_rank)
<1>0. PICK p : p = I!activate_program(i_rank)
  OBVIOUS
<1> DEFINE name == p[i_step].name
           wait == p[i_step].wait
<1>1. i_at = "activate" /\ Gives(p, "calibrate") /\ i_step \in 1 .. 2
  BY <1>0 DEF I!ActivateRank, Gives, Rested, Steps
<1>2. Len(p) = 2
  BY <1>0 DEF I!activate_program
<1>3. i_step = 1 => name = "PRECHARGE_ALL" /\ wait = 0
  BY <1>0 DEF I!activate_program, I!Command
<1>4. i_step = 2 => name = "ACTIVATE_0_AND_1" /\ wait = 16
  BY <1>0 DEF I!activate_program, I!Command
<1> HIDE DEF name, wait
<1>5. /\ name \in Programmed /\ wait \in Nat /\ wait >= Need(name)
      /\ name \notin {"MRS1", "MRS0_USER"}
  BY <1>1, <1>3, <1>4, Needs DEF Programmed
<1>6. /\ i_last' = name /\ i_last' \in Names
      /\ i_waited' \in Nat /\ i_waited' >= wait /\ i_waited' >= Need(i_last')
      /\ \/ i_step < 2 /\ i_step' = i_step + 1 /\ i_at' = "activate"
         \/ i_step = 2 /\ i_step' = 1 /\ i_at' \in {"activate", "calibrate"}
  <2>1. EnoughAt(p)
    BY <1>5 DEF EnoughAt, name, wait
  <2>2. i_step \in 1 .. Len(p) /\ Len(p) \in Nat
    BY <1>1, <1>2
  <2>3. /\ i_last' = p[i_step].name /\ i_last' \in Names
        /\ i_waited' \in Nat
        /\ i_waited' >= p[i_step].wait /\ i_waited' >= Need(i_last')
        /\ \/ i_step < Len(p) /\ i_step' = i_step + 1 /\ i_at' = i_at
           \/ i_step = Len(p) /\ i_step' = 1 /\ i_at' \in {i_at, "calibrate"}
    BY <1>1, <2>1, <2>2, GiveRests
  <2> QED
    BY <1>1, <1>2, <2>3 DEF name, wait
<1>7. Suffices(i_last, i_last', i_waited, i_rank)
  BY <1>1, <1>5, <1>6, NeedSuffices DEF Rested
<1>8. i_step' \in Steps' /\ i_at' \in {"activate", "calibrate"}
  BY <1>1, <1>6 DEF Steps
<1> QED
  BY <1>1, <1>5, <1>6, <1>7, <1>8 DEF Rested

LEMMA HandoffRankRests ==
  ASSUME Rested, I!HandoffRank
  PROVE  Rested' /\ Suffices(i_last, i_last', i_waited, i_rank)
<1>0. PICK p : p = I!handoff_program(i_rank)
  OBVIOUS
<1> DEFINE name == p[i_step].name
           wait == p[i_step].wait
<1>1. i_at = "handoff" /\ Gives(p, "done") /\ i_step \in 1 .. 5
  BY <1>0 DEF I!HandoffRank, Gives, Rested, Steps
<1>2. Len(p) = 5
  BY <1>0 DEF I!handoff_program
<1>3. i_step = 1 => name = "PRECHARGE_ALL" /\ wait = 0
  BY <1>0 DEF I!handoff_program, I!Command
<1>4. i_step = 2 => name = "MRS2" /\ wait = 4
  BY <1>0 DEF I!handoff_program, I!Command
<1>5. i_step = 3 => name = "MRS3" /\ wait = 4
  BY <1>0 DEF I!handoff_program, I!Command
<1>6. i_step = 4 => name = "MRS1" /\ wait = 4
  BY <1>0 DEF I!handoff_program, I!Command
<1>7. i_step = 5 => name = "MRS0_USER" /\ wait = 0
  BY <1>0 DEF I!handoff_program, I!Command
<1> HIDE DEF name, wait
<1>8. /\ name \in Programmed /\ wait \in Nat /\ wait >= Need(name)
      /\ (name = "MRS1" => wait = 4 /\ i_step = 4) /\ name # "MRS0_DLL_RESET"
  BY <1>1, <1>3, <1>4, <1>5, <1>6, <1>7, Needs DEF Programmed
<1>9. /\ i_last' = name /\ i_last' \in Names
      /\ i_waited' \in Nat /\ i_waited' >= wait /\ i_waited' >= Need(i_last')
      /\ \/ i_step < 5 /\ i_step' = i_step + 1 /\ i_at' = "handoff"
         \/ i_step = 5 /\ i_step' = 1 /\ i_at' \in {"handoff", "done"}
  <2>1. EnoughAt(p)
    BY <1>8 DEF EnoughAt, name, wait
  <2>2. i_step \in 1 .. Len(p) /\ Len(p) \in Nat
    BY <1>1, <1>2
  <2>3. /\ i_last' = p[i_step].name /\ i_last' \in Names
        /\ i_waited' \in Nat
        /\ i_waited' >= p[i_step].wait /\ i_waited' >= Need(i_last')
        /\ \/ i_step < Len(p) /\ i_step' = i_step + 1 /\ i_at' = i_at
           \/ i_step = Len(p) /\ i_step' = 1 /\ i_at' \in {i_at, "done"}
    BY <1>1, <2>1, <2>2, GiveRests
  <2> QED
    BY <1>1, <1>2, <2>3 DEF name, wait
<1>10. Suffices(i_last, i_last', i_waited, i_rank)
  <2>1. CASE i_last = "MRS1" /\ name = "MRS0_USER"
    <3>1. i_waited >= 4
      BY <1>1, <2>1 DEF Rested
    <3> QED
      BY <1>9, <2>1, <3>1 DEF Suffices, I!Required
  <2> QED
    BY <1>1, <1>8, <1>9, <2>1, NeedSuffices DEF Rested
<1>11. i_step' \in Steps' /\ i_at' \in {"handoff", "done"}
  BY <1>1, <1>9 DEF Steps
<1> QED
  BY <1>1, <1>8, <1>9, <1>10, <1>11 DEF Rested

LEMMA ResetRests == Rested /\ I!Reset => Rested' /\ i_last' = i_last
<1> SUFFICES ASSUME Rested, I!Reset PROVE Rested' /\ i_last' = i_last
  OBVIOUS
<1>1. /\ i_at = "reset" /\ i_at' = "raise" /\ i_step' = i_step /\ i_last' = i_last
      /\ i_waited' >= 200 * AFI_CLK_FREQ
  BY TimesAssumption DEF I!Reset
<1>2. i_waited' >= Need(i_last')
  BY <1>1 DEF Rested, Need, I!Required
<1> QED
  BY <1>1, <1>2 DEF Rested, Steps

LEMMA RaiseRests == Rested /\ I!Raise => Rested' /\ Suffices(i_last, i_last', i_waited, i_rank)
<1> SUFFICES ASSUME Rested, I!Raise PROVE Rested' /\ Suffices(i_last, i_last', i_waited, i_rank)
  OBVIOUS
<1>1. /\ i_at = "raise" /\ i_at' = "enable" /\ i_step' = i_step /\ i_last' = "RESET_HIGH"
      /\ i_waited' >= 500 * AFI_CLK_FREQ
  BY TimesAssumption DEF I!Raise
<1>2. i_waited' >= Need(i_last')
  BY <1>1 DEF Need, I!Required
<1>3. Suffices(i_last, i_last', i_waited, i_rank)
  BY <1>1, NeedSuffices DEF Rested
<1> QED
  BY <1>1, <1>2, <1>3 DEF Rested, Steps, Names

\* Behind CKE, and where a loop over the ranks begins or ends.
LEMMA LoopRests ==
  ASSUME NEW loop \in {"init", "activate", "handoff"},
         NEW next \in {"config", "calibrate", "done"}, I!Enter(loop, 0, next),
         i_last' \in Names \ {"MRS1"}, i_waited' >= Need(i_last')
  PROVE  Rested'
<1>1. i_step' = 1 /\ i_at' \in {loop, next}
  BY DEF I!Enter
<1> QED
  BY <1>1 DEF Rested, Steps

LEMMA EnableRests == Rested /\ I!Enable => Rested' /\ Suffices(i_last, i_last', i_waited, i_rank)
<1> SUFFICES ASSUME Rested, I!Enable PROVE Rested' /\ Suffices(i_last, i_last', i_waited, i_rank)
  OBVIOUS
<1>1. i_at = "enable" /\ i_last' = "CKE" /\ i_waited' = Waited(250)
  BY DEF I!Enable, Waited
<1>2. i_waited' >= Need(i_last')
  BY <1>1, Needs, WaitsAsAsked
<1>3. Suffices(i_last, i_last', i_waited, i_rank)
  BY <1>1, NeedSuffices DEF Rested
<1>4. Rested'
  BY <1>1, <1>2, LoopRests DEF I!Enable, Names, Programmed
<1> QED
  BY <1>3, <1>4

LEMMA LoopsRest == Rested /\ (I!Config \/ I!Calibrate) => Rested' /\ i_last' = i_last
<1> SUFFICES ASSUME Rested, I!Config \/ I!Calibrate PROVE Rested' /\ i_last' = i_last
  OBVIOUS
<1>1. /\ i_at \in {"config", "calibrate"} /\ i_last' = i_last /\ i_waited' = i_waited
      /\ I!Enter("activate", 0, "calibrate") \/ I!Enter("handoff", 0, "done")
  BY DEF I!Config, I!Calibrate
<1>2. i_last' \in Names \ {"MRS1"} /\ i_waited' >= Need(i_last')
  BY <1>1 DEF Rested
<1> QED
  BY <1>1, <1>2, LoopRests

\* The memory is given the time it needs before every command, for any ranks,
\* whichever of them are skipped or mirrored, and any counters that are long
\* enough for the reset.
THEOREM TimesAreAlwaysKept == MCSpec => TimesAreKept
<1>1. MCInit => Rested
  BY DEF MCInit, I!Init, Rested, Steps, Names
<1>2. Rested /\ [MCNext]_all_vars =>
        Rested' /\ (i_last' # i_last => Suffices(i_last, i_last', i_waited, i_rank))
  <2>1. CASE UNCHANGED i_vars
    BY <2>1 DEF i_vars, Rested, Steps
  <2>2. CASE I!Next
    BY <2>2, ResetRests, RaiseRests, EnableRests, InitRankRests, LoopsRest, ActivateRankRests,
       HandoffRankRests DEF I!Next
  <2> QED
    BY <2>1, <2>2 DEF MCNext, all_vars
<1>3. Rested /\ [MCNext]_all_vars =>
        [i_last' # i_last => i_waited >= I!Required(i_last, i_last', i_rank)]_i_vars
  BY <1>2 DEF Suffices
<1> QED
  BY <1>1, <1>2, <1>3, PTL DEF MCSpec, TimesAreKept

=============================================================================
