------------------------------- MODULE TbCPU -------------------------------
(* The test of tb/tb_CPU.cpp: its main counts the clock ticks of one program *)
(* and compares the CPU with a row of an array before every instruction.     *)
EXTENDS Bench, Programs

VARIABLE ticks     \* clock ticks of the test's program since the last reset

Rows == 39         \* the loop of main runs 39 times

\* The program of the test is the one that starts by clearing x1.
Testing == rom[0].opcode = Itype /\ rom[0].rs1 = 0

TestInit == Init /\ ticks = 0

TestNext ==
  \/ /\ BeginReset \/ EndReset
     /\ ticks' = 0
  \/ /\ \E enable \in EnableInputs : Tick(enable)
     /\ ticks' = IF Testing /\ ticks < 2 * (Rows - 1) THEN ticks + 1 ELSE ticks

TestSpec == TestInit /\ [][TestNext]_<<vars, ticks>>

\* The columns pc, x1, x2, x5 and RAM[0] of the array c of tb_CPU.cpp.
Expected ==
  <<
     <<0, 0, 0, 0, 0>>, <<4, 0, 0, 0, 0>>, <<8, 0, 10, 0, 0>>, <<12, 10, 10, 0, 0>>,
     <<16, 10, 9, 0, 0>>, <<8, 10, 9, 0, 0>>, <<12, 19, 9, 0, 0>>, <<16, 19, 8, 0, 0>>,
     <<8, 19, 8, 0, 0>>, <<12, 27, 8, 0, 0>>, <<16, 27, 7, 0, 0>>, <<8, 27, 7, 0, 0>>,
     <<12, 34, 7, 0, 0>>, <<16, 34, 6, 0, 0>>, <<8, 34, 6, 0, 0>>, <<12, 40, 6, 0, 0>>,
     <<16, 40, 5, 0, 0>>, <<8, 40, 5, 0, 0>>, <<12, 45, 5, 0, 0>>, <<16, 45, 4, 0, 0>>,
     <<8, 45, 4, 0, 0>>, <<12, 49, 4, 0, 0>>, <<16, 49, 3, 0, 0>>, <<8, 49, 3, 0, 0>>,
     <<12, 52, 3, 0, 0>>, <<16, 52, 2, 0, 0>>, <<8, 52, 2, 0, 0>>, <<12, 54, 2, 0, 0>>,
     <<16, 54, 1, 0, 0>>, <<8, 54, 1, 0, 0>>, <<12, 55, 1, 0, 0>>, <<16, 55, 0, 0, 0>>,
     <<20, 55, 0, 0, 0>>, <<24, 55, 0, 0, 0>>, <<28, 55, 0, 0, 55>>, <<32, 55, 0, 55, 55>>,
     <<48, 55, 0, 55, 55>>, <<52, 55, 0, 60, 55>>, <<52, 55, 0, 60, 55>> >>

\* Before every cpu_tick the state is the row the test expects; RAM[0] may
\* also hold the result of a run that a reset cut short, and the last row lasts.
MatchesExpectedRows ==
  Testing /\ ~areset /\ ticks % 2 = 0 =>
    LET row == Expected[ticks \div 2 + 1]
    IN  /\ <<pc, regs[1], regs[2], regs[5]>> = <<row[1], row[2], row[3], row[4]>>
        /\ mem[0] = row[5] \/ mem[0] = 55

\* The words hold every value of the array, the registers and the ROM the
\* program, and no other program of the ROM starts the way it does.
TestSetting ==
  /\ Conditions
  /\ Radix > 60 /\ NREG > 5 /\ ROMWORDS > 13
  /\ \A p \in InitialRoms :
       p[0].opcode = Itype /\ p[0].rs1 = 0 => p = Image(TbCpuROM, ROMWORDS)
=============================================================================
