------------------------------ MODULE MCBench ------------------------------
(* The simulated CPU, in 6-bit words, running the program of tb_CPU.cpp and *)
(* every four-word program over a small instruction set, loads behind any   *)
(* instruction included; a short program fills the ROM over and over, so    *)
(* that the PC always finds it.                                             *)
EXTENDS TbCPU

AnyInstruction ==
  {Decode(w[1], w[2]) : w \in
     { <<\h0010, \h8093>>,     \* addi x1, x1, 1
       <<\h4020, \h8133>>,     \* sub  x2, x1, x2
       <<\h0020, \hC0B3>>,     \* xor  x1, x1, x2
       <<\h0020, \hA023>>,     \* sw   x2, 0(x1)
       <<\h0041, \h2083>>,     \* lw   x1, 4(x2)
       <<\h0000, \hA083>>,     \* lw   x1, 0(x1)
       <<\hFE00, \h8EE3>>,     \* beq  x1, x0, -4
       <<\h0020, \h9463>>,     \* bne  x1, x2, 8
       <<\hFF9F, \hF06F>> }}   \* jal  x0, -8

LastWord == {Decode(\h0000, \hA083), Decode(0, 0)}

Short(p) == [a \in ROMIdx |-> p[a % 4]]
ShortRoms ==
  {Short(p) : p \in {q \in [0 .. 3 -> AnyInstruction \cup LastWord] :
                       q[3] \in LastWord /\ \A a \in 0 .. 2 : q[a] \in AnyInstruction}}

MCInstr == InstructionsOf(TbCpuROM) \cup AnyInstruction
MCRoms  == {Image(TbCpuROM, ROMWORDS)} \cup ShortRoms

\* 6 bits address exactly the RAM, so every access is in range.
ASSUME InstanceMeetsConditions == TestSetting /\ Radix <= 4 * RAMWORDS
=============================================================================
