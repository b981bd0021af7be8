-------------------------- MODULE MCBoardExamples --------------------------
(* The programs of the repository, and the polling program with Linux's two *)
(* writes, on small words and memories.                                     *)
EXTENDS Mailbox

MCHalt      == Decode(0, 0)
MCInstr     == InstructionsOf(TbCpuROM) \cup InstructionsOf(OnchipMem) \cup InstructionsOf(Poll)
MCRoms      == Sums \cup {PollRom}
MCRamWrites == {[a \in {0} |-> Datum], [a \in {1} |-> Flag]}

\* The repository's programs satisfy the conditions under which the board
\* implements the instruction set, and the instance those of the mailbox.
ASSUME ProgramsArePrepared == \A p \in Sums : LoadsArePrepared(p)
ASSUME MailboxAssumption   == MailboxSetting

----------------------------------------------------------------------------
\* 1 + ... + n, where word 1 of the program loads n.
SumOf(p) == LET n == p[1].Iimm IN Trunc((n * (n + 1)) \div 2)

\* Once KEY[1] is left alone, the program that is in the ROM runs to its end
\* from whatever state the earlier resets interrupted: the sum is in RAM word
\* 0, the sum plus 5 in x5, and the halt LED stays lit (LEDR[2] in main.sv,
\* the expected rows of tb_CPU.cpp).
Completes ==
  ~Polling /\ <>[]~areset =>
    <>[](LED /\ ram[0] = SumOf(rom) /\ regs[5] = Trunc(SumOf(rom) + 5))
=============================================================================
