------------------------------ MODULE Mailbox ------------------------------
(* The board running the sum programs of the repository, or one that polls  *)
(* a flag which Linux sets while the CPU runs (main.sv: "Linux writes, FPGA *)
(* reads/writes"): Linux stores a datum in word 0, then a flag in word 1;   *)
(* the CPU waits for the flag, reads the datum and halts.  Every load       *)
(* stands behind an instruction that puts its address on the ALU's output.  *)
(* The two sides share no handshake below this protocol, and a word read on *)
(* the edge that writes it is unknown.                                      *)
EXTENDS Board, Programs

Poll ==
  <<
     <<\h0040, \h0013>>,   \* 0  addi x0, x0, 4
     <<\h0040, \h2083>>,   \* 1  lw   x1, 4(x0)
     <<\hFE00, \h8CE3>>,   \* 2  beq  x1, x0, -8
     <<\h0000, \h0013>>,   \* 3  addi x0, x0, 0
     <<\h0000, \h2103>> >>   \* 4  lw   x2, 0(x0)

Datum == 9
Flag  == 1

Sums    == {Image(p, ROMWORDS) : p \in {TbCpuROM, OnchipMem}}
PollRom == Image(Poll, ROMWORDS)
Polling == Is(rom[1], {LoadType})    \* which of the programs it is

\* The words, registers and memories are large enough for the polling program
\* (the board's 32 bits, 32 registers and thousands of words are), and Linux
\* writes the two words of the protocol only.
MailboxSetting ==
  /\ 20 < Radix /\ NREG > 2 /\ ROMWORDS > 5 /\ RAMWORDS > 1
  /\ Roms \subseteq Sums \cup {PollRom}
  /\ HostRamWrites \subseteq {[a \in {0} |-> Datum], [a \in {1} |-> Flag]}

\* Linux writes each word once, the datum before the flag.
LinuxWrites ==
  /\ Polling
  /\ \E w \in HostRamWrites :
       /\ 0 \in DOMAIN w => ram[0] # Datum
       /\ 1 \in DOMAIN w => ram[0] = Datum /\ ram[1] # Flag
       /\ \E unknownWord \in IF dmem_addr \in DOMAIN w THEN Word ELSE {0} :
            Edge(None, w, HaltWord, unknownWord)

ExamplesNext == Posedge \/ LinuxWrites \/ Press \/ Release

\* The oscillator never stops, and Linux writes two words only.
ExamplesSpec == Init /\ [][ExamplesNext]_vars /\ WF_vars(Posedge)

----------------------------------------------------------------------------
\* The CPU is at the halt behind the polling program.
Received == Polling /\ pc = 4 * Len(Poll)

\* The CPU gets past the poll with the datum and nothing else, although the
\* flag it saw, or the datum word, may have been read on the edge that wrote
\* it, or captured for an earlier instruction.
DatumIntact == Received => regs[2] = Datum

\* A flag once set gets the CPU past the poll, if KEY[1] is left alone.
FlagSeen == (Polling /\ ram[1] = Flag) ~> (Received \/ areset)
=============================================================================
