---------------------------- MODULE MCBenchRepo ----------------------------
(* The simulated CPU running the programs of the repository.                *)
EXTENDS Bench, Programs

SumInstr == InstructionsOf(TbCpuROM) \cup InstructionsOf(Sum1to10)
SumRoms  == {Image(p, ROMWORDS) : p \in {TbCpuROM, Sum1to10}}

Test1Instr == InstructionsOf(Test1)
Test1Roms  == {Image(Test1, ROMWORDS)}
=============================================================================
