# A TLA+ verification of the RISC-V CPU and of its board's memory calibration

The repository holds a small RV32I processor (eleven instructions, two clock
cycles each) twice: in `verilog/rtl`, simulated with Verilator, and in
`altera-DE1-SoC`, on an FPGA beside an ARM processor system (HPS) that loads
its memories. The board's SDRAM is calibrated at power-up by the SDRAM
sequencer, the one large program of the repository
(`hps_isw_handoff/soc_system_hps_0/sequencer.c`). This directory models these,
checks the models with TLC, and proves the central results with TLAPS.

## 1. Inventory

| Part | Source | State | Operations | How it interacts |
| --- | --- | --- | --- | --- |
| Board CPU | `altera-DE1-SoC/main.sv`, `PC.sv`, `RegFile.sv` | `execute_cycle`, PC, 32 registers | clock edge in the fetch and in the execute cycle; asynchronous reset (KEY[1]) | addresses both block RAMs, shows a halt on LEDR[2] |
| On-chip memories | `soc_system_onchip_memory2_{0,1}.v`, `onchip_mem.mif` | ROM 4096 words, RAM 8192 words, one output register per port | read and write on port s1 (HPS) and s2 (CPU), one clock | registered addresses: an output shows what was addressed at the last edge |
| HPS / Linux | comments of `main.sv` 203 and 212, `todo.txt` 1-2 | none here | writes either memory through s1 | shares the memories with the CPU, without a handshake |
| Simulated CPU | `verilog/rtl/main.sv` | as the board CPU, and an `enable` input | the same, gated by `enable` | combinational memory inputs |
| CPU bench | `tb/tb_CPU.cpp`, `tb/tb_utils.h` | ROM and RAM arrays, the DUT's input latches | reset, `cpu_tick`, `rom_eval`, `RAM::tick` | drives the DUT's inputs after every tick |
| Control and data path units | `ControlUnit.sv`, `ImmGen.sv`, `RegFile.sv`, `PC.sv` | PC and registers | combinational decode, immediates, next PC | same files in both trees |
| ALUs | `rtl/ALU.sv`, `rtl/ALUControlUnit.sv`; the board's own pair | none | ten operations over one adder; five operations | operation codes differ between the two |
| Instruction table | `utils/r32i_base_instruction.yaml`, generated `opcode_defines.sv` | none | the operation of each mnemonic, the formats | the reference for all of the above |
| Generator | `utils/generator.py` and its template | none | YAML to SystemVerilog: enumerations, formats by opcode | its output configures decoding and immediates |
| Assertions | `assertions/*.sv` | one latch | PC + 4, load address, decoded signals | bound to PC and ControlUnit in simulation |
| Unit benches | `tb/tb_*.cpp` | the unit's | vectors for one unit each | |
| Sequencer: flow | `sequencer.c` 9149-9643, 10528-10638 | register file, group, retries, error record | claim the interface, calibrate group by group, latency, hand over, report | the memory controller and the tracking manager share the interface |
| Sequencer: DQS enable search | 4043-4616 | VFIFO place, phase and delay tap, picosecond counters | six steps, each a loop of read tests | sets registers, asks read tests |
| Sequencer: read and write deskew, data mask | 5094-5444, 7228-7944 | delays of the pins, edges of the bits | scan for edges, centre | as above; called with retries |
| Sequencer: scan chain manager | 1164-1977 | register file, marked chains, pins | setters, loads, update | every search sets delays through it |
| Sequencer: memory tests | 3440-3856, 6417-6458 | check of the pins | read, write, guaranteed read | every search decides by them |
| Sequencer: initialisation, handoff | 2000-2545, 3143-3245, 8516-8542 | which command, which rank | commands and waits | before and after the calibration |
| Generated system | `soc_system/synthesis` | Qsys interconnect, resets, SDRAM | | vendor code |
| Logisim prototype | `riscv.circ`, `truthtable.txt` | an earlier single-cycle drawing | | its program images are used here |

What is hard in the CPUs: an instruction is spread over two clock edges while
the memories answer one edge late; KEY[1] acts between any two edges; the HPS
writes memories the CPU is reading; the bench's memories answer at a different
moment than the board's; the arithmetic wraps. What is hard in the sequencer:
it searches with hardware in the loop, so that every branch depends on
answers nobody can put in a test; state is kept twice, in counters of the code
and in delay chains; failures are retried from whatever the failing step left;
and it shares the memory interface. What makes the parts correct:

- the CPUs: each instruction happens exactly once and as the table says,
  whatever interrupts it, and a program left alone gets to its end;
- the memories: the instruction executed is the one the ROM holds at PC; a
  load returns the word at its own address; a word handed over by Linux
  arrives whole;
- the units: decoding undoes encoding; the adder's flags compare; the two ALUs
  agree; the benches' vectors pass;
- a search: it ends, keeps its counts where the hardware samples, never sets
  what the hardware cannot take, finds the middle of a window that is there
  and fails only for cause;
- the flow: whatever fails, the interface is given back before the verdict,
  the verdict is right, and nothing of one search, group or call leaks into
  the next.

`PROJECT.json` lists every hazard at its line, with the properties that would
catch it, or why none does.

## 2. Modules

```
Words --- BitOps --- RtlALU, BoardALU --- ALUs
Words --- Datapath --- Decoder --- Programs
Datapath, BitOps --- ISA
Datapath, BoardALU --- Board (refines ISA) --- MCBoardPrograms
Board, Programs --- Mailbox --- MCBoardExamples
Mailbox, DatapathTheorems --- BoardTheorems
Datapath, RtlALU --- Bench (refines ISA) --- MCBenchRepo, MCBenchStall
Bench, Programs --- TbCPU --- MCBench
TbCPU, ALUs, DatapathTheorems --- BenchTheorems
Decoder, Generator --- Encoding --- MCUnits (with ALUs, UnitBenches)
Encoding, Programs, BitOps --- DatapathTheorems
MCUnits (with DatapathTheorems, BenchTheorems) --- UnitTheorems

Interface --- ScanChain, MemTest, MemInit (with IdleLoop) --- MCManagers --- ManagerTheorems

Calibration (refines Calibrator, and is its own instance) --- CalibrationTheorems
DqsEnable --- ReadEye --- MCDqsEye
ReadEye --- DqsEnableTheorems
Deskew --- ReadCenter, WriteCenter --- MCDeskew --- DeskewTheorems
```

| Module | Models |
| --- | --- |
| `Words` | a 32-bit vector, at a width `XLEN`; truncation and `$signed` |
| `BitOps` | `&`, `\|`, `^`, `~`, on sets of bit positions |
| `RtlALU`, `BoardALU` | the two ALUs, each with its control unit |
| `ALUTable` | what they are to compute, without adders or carries |
| `ALUs` | the two ALUs behind their control units, against each other and the table |
| `Datapath` | ControlUnit, ImmGen's selection, RegFile ports, next PC, the multiplexers of `main.sv` |
| `Decoder`, `Encoding` | part-selects and immediates of a 32-bit word; the assembler's formats |
| `Generator` | sorting, grouping, labels and opcode formats of `generator.py` |
| `UnitBenches` | the rows of the six unit benches and how `TestBench` drives them |
| `Programs` | the repository's program images, as machine words |
| `ISA` | the abstract machine: one action per mnemonic of the YAML table, plus Reset, Load, Release |
| `Board` | the board: CPU, both block RAMs, KEY[1], the HPS |
| `Mailbox` | the running board and a program on Linux that share two words of the RAM |
| `Bench` | the simulated CPU with the bench's memories |
| `TbCPU` | the test of `tb_CPU.cpp`: reset, counting ticks, and the rows it expects |
| `Calibrator` | abstract: what a call of the calibration promises its surroundings |
| `Calibration` | `sdram_calibration`, `run_mem_calibrate`, `mem_calibrate` and the stages it calls, with any outcome of each search |
| `DqsEnable` | the DQS enable search |
| `ReadEye` | a board whose reads pass in a window, and what the search makes of it |
| `Deskew`, `ReadCenter`, `WriteCenter` | edges and centring; read deskew; write deskew and the mask's window |
| `Interface` | ranks, groups, pins and taps of a build |
| `ScanChain`, `MemTest`, `MemInit`, `IdleLoop` | the managers the searches use: settings, tests, commands, waits |
| `*Theorems` | the proofs |
| `MC*` | instances for TLC |

### Correspondence: the CPUs

**Board.** The variables are the registers of the netlist: `areset` (KEY[1]
held down), `execute_cycle`, `pc`, `regs`, the two memory arrays, and the two
output registers `imem_data` and `dmem_rdata`. `Edge` is one rising edge of
CLOCK_50 and updates all of them at once from the old values, as nonblocking
assignments do. `Posedge` is an edge without a write by the HPS,
`PosedgeWithHostWrite` one on which port s1 writes one word of either memory
or of both. `Press` and `Release` move KEY[1]; `Press` acts at once. A word
both ports write on one edge, and the CPU's read of a word that s1 writes on
that edge, are unknown: the RAM is generated with mixed-port read-during-write
DONT_CARE. `enable` is the constant 1 on the board and is left out.

**Bench.** `Tick(enable)` is half of `cpu_tick`: a rising edge, `rom_eval` and
`RAM::tick`. `RAM::tick` reads the DUT's outputs before the new `imem_data` is
evaluated, so it pairs the new registers and cycle with the old instruction,
and a store is performed in the tick that begins the execute cycle.
`BeginReset` and `EndReset` are `TestBench::reset` and the `rom_eval` behind
it; the bench does this once, the model at any time.

**Unit benches.** A state of `UnitBenches` is a row of one bench; a clocked
unit is driven a half or a whole period per row, as `tick` in `tb_utils.h`
does, and each row's expected outputs are compared with the modelled unit.

**Instructions** are records of the fields the hardware extracts. `Decode`
makes them from the two halves of a machine word (TLC's integers are 32-bit
signed), and the MC modules write programs as machine words, with the assembly
in a comment.

**Width.** All arithmetic is modulo `2^XLEN`. The instances use 4 to 8 bits,
so that wrap-around happens within a run; the encoding uses 28 so that no
immediate is cut; the proofs are for every width. A register field is taken
modulo `NREG`, and instances with fewer registers use programs that name only
those.

### Correspondence: the sequencer

The sequencer is compiled for one board: DDR3, a hard PHY of Cyclone V, full
rate, one rank, dynamic settings off. Only what that build compiles is
modelled, with the numbers of ranks, groups, pins and taps as constants.

**Calibration.** An action is the code between two decisions of the hardware.
`Begin` is `sdram_calibration` up to `run_mem_calibrate`, `Claim` and `Take`
the beginning of that, `StartGroup` to `Reread` the stages of a group in
`mem_calibrate` (guaranteed read, DQS enable search, read deskew, write
deskew, second read deskew), `Latency` one test of the read latency, and
`Handoff`, `Restore`, `Report` the end of the call. `reg` is the register file
the HPS reads; `err` is `gbl->error_*`. What a search finds is any outcome it
can have; how it finds it is in the modules below.

**DqsEnable.** An action is one read test and all code to the next. `s` is
the setting in hardware, `tmp`, `work_bgn`, `work_end` the code's picosecond
counters. The memory answers from `Answers(eye, s)`, which `ReadEye` makes a
window of picoseconds on the ring of the FIFO.

**ReadCenter, WriteCenter.** An action is one test of a scan, or the centring
behind it. An edge is a delay, negative when DQS had to be moved for it, as in
the arrays `left_edge` and `right_edge`; `Illegal` is their mark for an edge
that was not seen.

**ScanChain.** Settings are `rfile`, the chains marked by `scc_mgr_load_*` are
`marked`, and what an update shifted is `pins`. Some functions set, load and
update; others leave the update to their caller, and
`scc_mgr_set_dqs_bus_in_delay` the load as well. So the callers are modelled
call by call: the searches, the turns and ends of the scans of both deskews,
the delay that is restored where a read bit has no window (5283-5288), the
write deskew's return that restores nothing, and the centring. `stage` is the
call the sequencer has come to; at `Tests` it is about to test the memory.
Which delay a call is given, and when a scan ends, is left open (`Deskew` and
`DqsEnable` decide it), and pins of one kind are set alike. **MemTest.** `Turn` is one virtual
group of one rank; `Check` compares and, in the `*_all_ranks` loops, repeats.
**MemInit.** An action is a command with the wait behind it, in clocks by
`IdleLoop`.

## 3. Runs

| Run | Checks | Bounds, and why they suffice |
| --- | --- | --- |
| `board_programs` | `TypeOK`, `FetchCoherent`, `ImplementsFairISA` | Every four-word program over nine instructions and the halt word (`AnyInstruction`; ADD runs in `board_examples`, AND and OR only in `units` and the proofs) in which loads are prepared (see 4) and the last word halts, jumps back or runs off the ROM's end; word 0 rewritten by the HPS during resets; 4 bits, 3 registers, 2 RAM words. Sums, addresses and the PC wrap. |
| `board_examples` | `DatumIntact`, `Completes`, `FlagSeen` | The two sum programs (tb_CPU.cpp's ROM, onchip_mem.mif) and a five-word polling program; 7 bits hold every sum and PC. KEY[1] at every edge; datum and flag are written once each; collisions return any of the 128 words. |
| `bench` | `InputsCurrent`, `MatchesExpectedRows`, `ImplementsISA` | The test of tb_CPU.cpp with its 39 rows, restarted by a reset at any tick, and every four-word program over nine instructions and the halt word, loads anywhere; 6 bits address exactly the ROM and the RAM. |
| `units` | `RoundTrip`, `RtlComputesRV32I`, `BoardAgrees`, `BenchesPass` | Every mnemonic, with immediates that put every pair of bits through the scramble and the formats `Generator` derives; all pairs of 4-bit operands, all control inputs, shifts by 0 to 3; every row of the six benches. |
| `dqs_enable` | `TypeOK`, `PhaseZeroNeverSet`, `CountsFollowSetting`, `NearMiddle`, `TracksOnePhase`, `Succeeds` | The constants of the build (16 places, 7 phases, 31 taps, 416 and 25 ps). Windows begin every 104 ps of a cycle, at the FIFO's last place so that they wrap; widths from below a phase tap to a cycle and more; 45 ps of jitter; a dead memory and one that always passes. |
| `deskew` | `TypesOK`, `FailureRestores`, `MarginsAreReal`, `Centred`, `FailsForCause`, `LongestRun` | Two bits, chains of 5 (read) and 3 (write) taps: every pair of windows in reach, across the ends and beyond; every set of delays at which the mask works; one board that answers anything. Two bits suffice for the smallest of the bits' middles to differ from the others. |
| `calibration` | `TypeOK`, `OutputsRestored`, `SearchesUpwards`, `LatencyHasSpare`, `FailureIsReported`, `TrackingStopped`, `KeepsPromise`, `Returns` | Two groups of two bits, output delays 0, 2, 4, taps 0 to 3, four latencies: every loop is run round more than once and every exit taken; any number of calls one after the other. |
| `managers` | `NothingLeftBehind`, `TerminationFollowsDqs`, `CheckIsExact`, `NoTestIsSkipped`, `NothingInherited`, `TestsReturn`, `TimesAreKept` | Delays 0 to 2 and two phases, so that every call can leave another setting than it found, on every path through the deskews and from one to the next; three ranks, the middle one skipped and the last mirrored, three virtual groups of two pins (a fold of a fold), three read tests; the counters of the build for the waits. |
| `board_load` | `LW_operation` **violated** | Programs whose loads stand behind any instruction. |
| `bench_jal` | `JAL_operation` **violated** | test_1.txt. |
| `bench_halt` | `Pc4_check` **violated** | The sum programs. |
| `bench_stall` | `ADDI_operation` **violated** | The sum programs, `enable` low at any tick. |

`units`, `deskew` and `managers` hold parts that do not interact; a variable
chooses the part and the others rest in one initial state.

What the properties say, beside the comments at their definitions:

- `ImplementsISA`, `ImplementsFairISA`: the refinement. On the board the
  abstract variables ARE the CPU's (`areset`, `rom`, `pc`, `regs`, `ram`); in
  the bench PC and registers are those the next edge will write once the
  execute cycle has begun, because the bench stores one tick early. The fair
  version adds that instructions go on being executed.
- `Completes`: if KEY[1] is released for good, the program in the ROM ends in
  its halt with the right sum in RAM and the LED lit, from whatever state
  earlier resets interrupted.
- `CountsFollowSetting`: the search never reads a setting back, so its
  counters must move as the hardware does: over the phase it skips, over the
  FIFO's end, back and forth. `NearMiddle` is what this is for.
- `Succeeds`: the search ends whatever the memory answers, and finds a window
  of four phases or more with steady edges. With edges that jitter it need
  not: a read that passes once at a phase and fails the next time makes a
  window of no width.
  Of narrower windows, down to one of a phase tap or less, it asks only that
  the search ends.
- `FailsForCause`, `MarginsAreReal`, `LongestRun` compare deskew with the
  windows the bits really have, which the code never sees. For a write that
  reports no bit, `FailsForCause` takes any bit at an end of its chain as the
  cause. `Centred` says nothing of a bit at an end of its chain, nor
  of the bit with the least middle, which stays at 0 and to which the
  others are moved.
- `NothingLeftBehind`: wherever the memory is tested, every setting that was
  written is in effect. It would break if a caller forgot a load or an update,
  for instance where it restores the DQS input delay.
- `KeepsPromise`: `Calibration` implements `Calibrator`, fairness included.
- `NothingInherited`: before a second calibration's first search, what the
  first one left in the chains is gone.

Each property is also run against a mutated definition (the slips in the
modules, such as a reset that leaves the cycle counter alone) that must break
it; `PROJECT.json` pairs them.

**Fairness.** On the board, `WF_vars(Posedge \/ PosedgeWithHostWrite)`:
CLOCK_50 is an oscillator and always ticks again. Nothing is assumed of KEY[1]
or the HPS; `FlagSeen` assumes that the clock ticks whether or not Linux
writes. In the bench, the same for the loop that calls `cpu_tick`. `ISA` is
fair in `Execute`, and the board is checked to implement that as well. The
sequencer is a sequential program on its own processor: weak fairness of its
next step says that this goes on, and nothing is assumed of the memory's
answers. `Calibration` is fair in the steps of a call but not in `Begin`:
nobody has to call.

### Disagreements the runs show

1. **Loads on the board** (`board_load`). `dmem_addr` is `ALUOut`
   (`altera-DE1-SoC/main.sv:174`), and the RAM captures it at the edge that
   ENDS the fetch cycle, when `imem_data` still shows the previous
   instruction. A load gets the word that instruction addressed, against
   `rd = M[ rs1 + imm ]` of the table. The shipped programs have a store to
   the same address right before their only load.
2. **JAL's return address** (`bench_jal`). `WriteData`
   (`verilog/rtl/main.sv:138`) has no PC + 4 input; a JAL with `rd # x0`
   writes the ALU's sum.
3. **PC assertion** (`bench_halt`). `Pc4_check` ignores `halt`, which holds
   the PC; the bench's expected rows agree with the code.
4. **enable** (`bench_stall`). A pause in an execute cycle repeats the
   register write (`verilog/rtl/main.sv:88`). No caller pauses today.

### What modelling the sequencer brought up

None of these breaks a promise of the sequencer; the models follow the code.

- A window that begins at phase 1 leaves the end's count one phase tap behind
  the setting (`sequencer.c` 4214-4217 and 4312), as does a window one phase
  wide, whose beginning is moved to the phase that failed (4349-4352).
  `CountsFollowSetting` says exactly this, and `NearMiddle` what it costs.
- `orig_start_dqs` is read back from the hardware (5849) at every output
  delay, and may be the tap an earlier search stopped at; the comment at 5938
  speaks of the original one. `SearchesUpwards` is what remains true.
- The delay that the retries add to the output side moves DQS and the
  termination only: DQ and DM have no second delay in this build (1888-1890).
- `gbl->error_stage` keeps the stage of a failure that a retry made good
  (596); only the verdict decides whether it is shown. A bit's number, and
  255 for the read latency, are recorded where a group is meant (5292).
- Without mirrored addresses there is no wait between MRS1 and the DLL reset
  (2533-2536); `Required` asks for tMRD there of a mirrored rank only. It asks
  for nothing behind ACTIVATE, for whose loops no comment gives a time.
- The write deskew that finds no window returns with DQS where its scan ended
  (7409-7410); the read deskew restores it.

## 4. Proofs

Proved for all values of the constants, from named assumptions:

| Theorem | States |
| --- | --- |
| `BoardTheorems!TypeCorrect` | `Spec => []TypeOK` |
| `BoardTheorems!FetchIsCoherent` | `Spec => []FetchCoherent`, if the HPS loads during resets only |
| `BoardTheorems!FetchIsCoherentWhileLoading` | the same if the HPS loads while the CPU runs, but never writes the word being fetched on the edge that fetches it |
| `BoardTheorems!BoardImplementsISA` | `Spec => ImplementsISA`, under `Conditions` |
| `BoardTheorems!DatumStaysIntact` | `ExamplesSpec => []DatumIntact`, under `MailboxSetting` |
| `BenchTheorems!TypeCorrect`, `InputsAreCurrent` | the invariants of the simulated CPU, `enable` low at any tick included |
| `BenchTheorems!BenchImplementsISA` | `Spec /\ []InRange => ImplementsISA`, under `Conditions` |
| `BenchTheorems!WholeMemoryImplementsISA` | `Spec => ImplementsISA`, under `Conditions`, where the RAM has every address |
| `BenchTheorems!SubtractsThroughAdder`, `CarryComparesUnsigned`, `OverflowComparesSigned` | SUB, SLTU and SLT computed by the one adder |
| `BenchTheorems!RtlALUIsRV32I`, `BoardALUIsRtlALU` | the rtl ALU computes the table, shifts included; the board's ALU computes the same where it has the operation |
| `BenchTheorems!TestMatchesExpectedRows` | `TestSpec => []MatchesExpectedRows`, under `TestSetting`: the test of `tb_CPU.cpp` passes at every width that holds its values |
| `DatapathTheorems!EveryInstructionRoundTrips` | `RoundTrip` of `Encoding`, for every register and every immediate that fits, given `PackageFormats` |
| `UnitTheorems!RunRoundTrips`, `RunComputesRV32I`, `RunALUsAgree` | the invariants `RoundTrip`, `RtlComputesRV32I` and `BoardAgrees` of the run `units`, at every width |
| `CalibrationTheorems!TypeCorrect`, `LatencyIsSpare`, `OutputsAreRestored`, `TapsAreSearchedUpwards`, `FailuresAreReported`, `TrackingIsStopped` | the invariants of the run `calibration` |
| `CalibrationTheorems!FlowImplementsPromise` | every step of the flow is one of `Calibrator` or a stutter |
| `DqsEnableTheorems!TypeCorrect`, `PhaseZeroIsNeverSet`, `TrackingAlwaysCounts`, `CountsAlwaysFollow` | whatever the memory answers: settings the hardware has, counts of natural numbers, never phase 0, positive taps for tracking, the counts where the hardware samples |
| `DqsEnableTheorems!KeepsNearMiddle`, `SpansOnePhase` | `NearMiddle` and `TracksOnePhase`, under `EyeSetting`: any window of four phase taps or more, wherever it begins |
| `DeskewTheorems!DelaysStayInChains`, `FailureAlwaysRestores` | whatever the memory answers, for any bits and chains |
| `DeskewTheorems!MarginsAreAlwaysReal`, `AlwaysCentred`, `AlwaysFailsForCause`, `LongestRunIsKept` | for any bits, chains, windows and sets of delays at which the mask works |
| `ManagerTheorems!NothingIsLeftBehind`, `TerminationAlwaysFollows`, `NothingIsInherited` | for any delays and ends of the scans in the searches and deskews, and any chains |
| `ManagerTheorems!CheckIsAlwaysExact`, `NoTestIsEverSkipped` | for any ranks, virtual groups, pins and repetitions |
| `ManagerTheorems!TimesAreAlwaysKept` | for any ranks, skipped and mirrored ones |
| `ManagerTheorems!WaitsLongEnough` | for any wait |

**Assumptions.** `Words` (the width and the weight of the sign bit are
positive), `BitOps` (`2^0 = 1`, `2^1 = 2`, powers of two are positive and
multiply), `Datapath`, `Board` and `Bench` (constants have their types, and
`Roms` is closed under what the HPS writes); the first two state facts about
powers of two that the provers have no theory of. That every bit pattern is
the pattern of a word follows from them (`EveryPattern`). `MCUnits` asks the
same of its widths, and that a vector holds the offset of a jump and the
RegFile the registers of the formats (`WidthsAssumption`). `TestSetting` of
`TbCPU` (the ROM of `tb_CPU.cpp` is at address 0 when a sum program is tested,
and words and memories are large enough for it) is evaluated in `MCBench`
(`InstanceMeetsConditions`). `Calibration`, `DqsEnable`, `Deskew`,
`ScanChain`, `Interface` assume the ranges of their constants, and `DqsEnable`
that the delay taps span a phase tap and that there are at least four phases
(`PHASE_MAX >= 3`), which the build fulfils and the code relies on.
`MCDeskew` says which answers a board with windows gives (`ReadAssumption`,
`WriteAssumption`; one more board answers anything), `ReadEye` in `EyeSetting`
which answers a read window gives and how wide it is (below), and `MCManagers`
that the
counters of the build last 200 and 500 us (`TimesAssumption`). TLC evaluates
all of them, `EyeSetting` as `EyeAssumption` of `MCDqsEye`.

**The board.** `TypeCorrect` rests on the types of the combinational signals
(`SignalTypes`), which rest on the lemmas of `DatapathTheorems`, one per unit.
`FetchCoherent` is not inductive: a reload could change the word under an
execute cycle. `FetchInv` adds that the execute cycle excludes the reset.
A host that loads while the CPU runs does no harm to coherence either, with one
exception: the edge that ends a fetch cycle must not also write the word the
ROM is reading (`SparesFetch`). `FetchIsCoherentWhileLoading` states it with
`CarefulNext` for the next-state relation; a write on any other edge, or of any
other word, is covered. What the program means while it is replaced is not its
subject.

**The refinement of the board.** `Conditions` are: the HPS loads during a
reset only, the programs use the listed mnemonics with JAL's `rd = x0`, and
loads are *prepared*: each stands behind an instruction that leaves its
address on the ALU's output, and no branch or jump leads to one. (Without the
last, finding 1 is a counterexample; the run `board_load` is it.) The
inductive invariant `RefinementInv` adds to `FetchInv` that the PC is 0 under
reset, that in a fetch cycle the ALU already computes the address of the load
to come (`FetchPrepared`), and that in a load's execute cycle the RAM's output
is the word at its address (`LoadDataCurrent`). The fetch edge turns the
second into the third (`FetchKeepsInv`, by `PreparedAddress`); the execute
edge re-establishes the second for the next PC (`ExecuteKeepsInv`). Then
`StepMaps` goes through the steps: edges under reset, fetch edges and halts
are invisible; an execute edge is the action of its mnemonic, one lemma per
class of instructions; branches rest on `ZeroDifference`. The instances of
`board_programs` and `board_examples` assume `Conditions`, so the theorem's
hypotheses are met by the repository's programs and by reloading.

**The mailbox.** `DatumIntact` speaks of the end of the program only.
`MailboxInv` follows the evidence that the datum is in the RAM: a flag in RAM
word 1, on the RAM's output in the first load's execute cycle, in x1, or in the
PC behind the branch each implies the datum (`PollData`), also when the read
fell on the edge that wrote the word and its value is unknown. That a load
reads its own address needs the instruction before it still to be on
`imem_data` in the fetch cycle (`PollControl`). The fields of the five words
are computed from their bits (`PollWords`). TLC evaluates `MailboxSetting` on
the run `board_examples`.

**The simulated CPU.** `BenchInv` is `InputsCurrent` and that a reset ends an
execute cycle: what `RAM::tick` and `rom_eval` leave on the inputs is the ROM
at the PC, and in a load's execute cycle the RAM at its address. The mapping
is an expression: an instruction counts as done from the tick that begins its
execute cycle, in which `RAM::tick` already stored, so `StepMaps` maps that
tick to the action of the mnemonic (again one lemma per class) and the one
that ends the execute cycle to a stutter; `enable` is high (`Conditions`;
finding 4 is the counterexample without). `InRange` is the bench's array
bound: an access beyond it answers 0 in `tb_CPU.cpp` and nothing of the table.
Loads need not be prepared: the bench evaluates the RAM after the edge.

**The ALUs.** Both take `a - b` through the adder as `a + ~b + 1`; the lemmas
bound the sum by the radix and split on the carry, so that the result, the
carry and the overflow come out as subtraction and as the two comparisons.
The bitwise operations are the same operators on both sides. A shift in the
code multiplies or divides by `2^n`, one in the table moves the set of 1 bits by
`n`; that they agree follows from powers that multiply, by way of what a
quotient by a power of two is (`QuotientIs`). A word is known by its bits, and
every set of positions is the set of a word (`EveryPattern`: there is no least
position up to which this fails).

**The encoding.** The run `units` tries patterns of immediates at 28 bits;
the theorem takes them all. `FormatI` to `FormatJ` cut the immediate into
pieces, whose bounds keep them apart in the two halves of the word, so the
part-selects give each of them back (`DecodedHalves`, `FieldsOfJump`). The
pieces of the immediate, put together as the hardware does, are the immediate
modulo the number of its bits (`ImmediateI`, `ImmediateB`, `ImmediateJ`), and
sign extension undoes the modulo where the immediate fits (`Extends12`,
`Extends13`, `Extends21`). `Selects` says which immediate ImmGen then puts
out. The hypothesis `PackageFormats`, which format the generated case
statement gives each opcode, is a closed formula; TLC evaluates it in
`PackageIsCurrent` of `MCUnits`.

**The units.** `UnitInv` says of the run `units` that its instruction fits its
format and its operands are words (the entries of the table one by one, the
patterns of immediates by their powers of two), and the theorems about the
encoding and the ALUs, taken at `BITS` and at `OPBITS` through `INSTANCE`, say
the rest (`SameRoundTrip`, `SameALUs`).

**The test of the simulated CPU.** `TestInv` relates the tick count to a row of
`Expected`: after an even number of ticks the CPU is in the row, after an odd
one the instruction in its execute cycle commits to the next (`AtRow`, which
also fixes x3 at 0); RAM word 0 is 0 or the sum of an earlier run, and the halt
at 52 lasts. The words of the program are decoded bit by bit
(`SumProgramsSum`), one lemma per instruction says what it commits
(`CommitsADDI` to `CommitsJAL`, from the refinement's), and `RowStep` goes from
one of the 39 rows to the next. Resets at any tick are included.

**The calibration flow.** Four invariants, each inductive with the ones
before it. `FlowInv` adds to `TypeOK` that a search is at a delay of the loop
and that the latencies which worked are those from the present one up.
`DelayInv` adds that the outputs of a group are zeroed or moved by the present
delay, so that `ReadDone`, which compares the delay AFTER the loop advanced
it, restores them in every case, and that `orig` is not above `tap`.
`RegisterInv` follows the interface, the tracking manager and the error record
through a call. `PassedInv` says which tests a group has behind it at each
stage, from which the steps map to `Calibrator`.

**The DQS enable search.** The invariant `IInv` adds to the types that no
setting is at phase 0; that each count is ahead of what the next loop takes
back from it (a phase at the backing off, two phases at the end, because
backing off over a FIFO place skips phase 0); and that the failing tap
(`edge`) lies behind the present one once a read has passed, which makes
`d - initial_failing_dtap` positive. `CentredType` bounds the centre's phase
and delay by two divisions (`DivBound`). `CountsFollowSetting` says where a
count is while its loop runs; that the next loop begins right takes `CountInv`:
how far the sweep of step 2 is round the FIFO, that backing off keeps the end's
count at the phase it came from, and that an end which lags does so from its
first read on. The lemmas of `Follows` (a count and a setting that agree modulo
the ring still do after a phase, a delay tap, a place of the FIFO up or down)
carry every step.

**The search in a read window.** `EyeSetting` says what `NearMiddle` and
`TracksOnePhase` are about: windows of at least four phase taps and, with three
phase taps more, less than two cycles; steady edges (`Wide`); a FIFO of two
places or more; delay taps no longer than a phase tap whose chain does not
reach two. Four phase taps are needed: the first read behind the beginning may
be three phase taps further on, and in a narrower window it can fail and move
the beginning (4349-4352). `EyeInv` reads `CountInv` against the window: with
`E` for how deep in it the count 0 samples, the count `w` samples at `w + E`
(`Deep`), and a read passes just when that depth is in the window
(`ReadsDeep`).

- The hunt ends on a read that failed, so the sweep starts ahead of the window
  (`HuntEye`) and meets it before it is round the FIFO (`FindBeginEye`).
- Backing off leaves the beginning less than a delay tap deep; at phase 1
  there is no backing off and it may be two phase taps deep, but then the end
  lags by one (`BeginNear`).
- The end is the first phase behind the window, and the edge lies between a
  delay tap that passed and one that failed, or, where the next phase is 0, at
  the end of the delay chain (`OnEdge`).
- Tracking starts either one phase back from the delay tap that failed, and then
  the taps to the edge are a phase's (`OnePhase`), or two phases back over phase
  0, from where no delay tap reaches the edge and it falls back to
  `DtapsPerPtap` (`OnTrack`).
- The middle of the two counts is within a phase tap and a half of the window's,
  whole cycles apart (`CentreNear`); only one place of the FIFO passes with
  these taps, because the window is less than two cycles wide
  (`PassesInPlace`).

**Deskew.** Whatever the memory answers, the edges of the scans are bounded
(`ReadStands`, `WriteStands`), and from the bounds the arithmetic of centring
stays in the chains. With windows, `ReadKnows` and `WriteBits` say at each
test of a scan which edges are exact by now: every left edge is the distance
to the window's end or still unseen, in the right scan also negative when DQS
had to be moved for it. From exact edges the settled delays and margins follow
by arithmetic (`ReadResults`, `WriteResults`), in which the least of the bits'
middles exists by well-founded induction (`LeastExists`). For the mask,
`Searched` says of the places visited so far that the current run ends at the
last one and the best run is the longest and first of them; so a search that
stops early misses none, and a run that crosses 0 is one run.

**The managers.** `NothingLeftBehind` speaks of the tests; between them
settings wait for their load or their update. The invariant says which: a
setting that differs from the pins is marked, except the DQS input delay
between the bare setter and the load (`Pending`); where no update is due,
nothing is marked (`Settled`); and DQS and its termination agree already in
the register file (`Together`). That a call keeps it is one lemma
(`CallKeeps`), from which those of the single setters follow; each caller then
has one step per call (`MoveKeeps`, `ReadKeeps`, `WriteKeeps`). The invariant
`CInv` says what the check means in the middle of a rank: a pin of a group
that was read counts by its bit of the fold, the others by the ranks before
(`FoldIsExact`). `Rested` is the invariant of the initialisation: whatever
command comes next, the last one was waited for, MRS1 excepted, which is
followed by a DLL reset, with a wait only for a mirrored rank, or by the
user's mode registers with one.

**Only model-checked**: everything with fairness (`ImplementsFairISA`,
`Completes`, `FlagSeen`, `Succeeds`, `Returns`, `TestsReturn`, and the
fairness of `KeepsPromise`; liveness is outside the prover); windows with jitter
or of fewer than four phase taps in the DQS enable search (of which `NearMiddle`
promises nothing); and the rows of the unit benches (`BenchesPass`), which are
numerals for one width and have no constant a proof could range over. What the
generator makes of the table (`PackageIsCurrent`) is a closed formula with
folds over the YAML's entries, and is left to TLC too.

## 5. Not modelled, and what is left

Not modelled:

- **In the sequencer**: code the build does not compile or never calls. Write
  levelling is called only outside `ARRIAV || CYCLONEV` (9258);
  `mem_skip_calibrate` needs a setting that is fixed otherwise; the protocols
  other than DDR3, LRDIMMs, shadow registers, the second output delays (no
  taps) are compiled out; the report interface (`tclrpt.c`) needs
  `ENABLE_TCL_DEBUG`; `recover_mem_device_after_ck_dqs_violation` is empty for
  DDR3. The figure of merit and the debug margins are results for display.
  What the read-write manager's microprograms do is hardware: the tests are
  modelled by their error words, so the counters and jumps loaded before a run
  (6256-6412, 3527-3578) and the choice of terminations
  (`set_rank_and_odt_mask`) are left out.
- **The sequencer's second copy** in the Qsys output
  (`synthesis/submodules/sequencer/*.pre.*`) is the same text, and with the
  reports makes up most of the repository's lines. A share of them counted as
  modelled can only be small, since each is modelled once.
- **In the models**: in `dqs_enable` the branches for a FIFO that is exhausted
  while the end is searched, and for an edge found before the beginning, are
  taken only by the memories that jitter or always pass; groups of different
  sizes; different delays of the pins of one kind (`ScanChain`); what a rank that is
  skipped would have answered (`MemTest` does not read it); more than one rank in the searches (a test's answer stands for all).
- **Around the CPU**: the interconnect, reset controllers and HPS internals
  (vendor code), the Logisim drawing (superseded, wires as coordinates), build
  files, waveforms and reports. A `reset_req` of the reset controller (KEY[0])
  stops the memories' clock enables while the CPU runs; the code handles this
  nowhere, so there is nothing to promise. Metastability at the release of
  KEY[1] is below a clocked model.

Left, in this order:

1. `set_rank_and_odt_mask`: the terminations of the tests, and that none is
   left on when the interface is handed over.
2. Loading while the CPU runs: what the program then means (that fetches stay
   coherent is proved).

## 6. Running

    tlc -workers 2 -config MCBoardExamples.cfg MCBoardExamples
    tlapm DqsEnableTheorems.tla

Each run's module and configuration are in `PROJECT.json`. The longest takes
about two minutes.
