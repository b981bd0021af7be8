------------------------------ MODULE Programs ------------------------------
(* The programs the repository ships, as the machine words of its files.    *)
EXTENDS Decoder

\* The ROM of tb_CPU.cpp: sum the numbers 10, 9, ..., 1 in x1, store the sum
\* at address 0, load it back into x5, jump over three nops, add 5.
SumWords(last, load) ==
  << <<\h0000, \h0093>>,   \*  0  addi x1, x0, 0
     last,                 \*  1  addi x2, x0, last
     <<\h0020, \h80B3>>,   \*  2  add  x1, x1, x2
     <<\hFFF1, \h0113>>,   \*  3  addi x2, x2, -1
     <<\hFE01, \h1CE3>>,   \*  4  bne  x2, x0, -8
     <<\h0000, \h0193>>,   \*  5  addi x3, x0, 0
     <<\h0011, \hA023>>,   \*  6  sw   x1, 0(x3)
     load,                 \*  7  lw   x5, 0(x3)
     <<\h0100, \h006F>>,   \*  8  jal  x0, 16
     <<\h0000, \h0013>>,   \*  9  nop
     <<\h0000, \h0013>>,   \* 10  nop
     <<\h0000, \h0013>>,   \* 11  nop
     <<\h0052, \h8293>> >> \* 12  addi x5, x5, 5

TbCpuROM == SumWords(<<\h00A0, \h0113>>, <<\h0001, \hA283>>)

\* onchip_mem.mif sums from 100, and the Logisim image loads through x2.
OnchipMem == SumWords(<<\h0640, \h0113>>, <<\h0001, \hA283>>)
Sum1to10  == SumWords(<<\h00A0, \h0113>>, <<\h0001, \h2283>>)

\* test_1.txt, the Logisim image that exercises JAL with a link register.
Test1 ==
  << <<\h0000, \h0093>>,   \*  0  addi x1, x0, 0
     <<\h0050, \h0113>>,   \*  1  addi x2, x0, 5
     <<\h00A0, \h0193>>,   \*  2  addi x3, x0, 10
     <<\h0031, \h2223>>,   \*  3  sw   x3, 4(x2)
     <<\h0041, \h2283>>,   \*  4  lw   x5, 4(x2)
     <<\h0020, \h8463>>,   \*  5  beq  x1, x2, 8
     <<\h0031, \h0313>>,   \*  6  addi x6, x2, 3
     <<\h0040, \h00EF>>,   \*  7  jal  x1, 4
     <<\h0000, \h0013>>,   \*  8  nop
     <<\h0011, \h9663>> >> \*  9  bne  x3, x1, 12

\* The instructions of a program, the halt word among them.
InstructionsOf(words) ==
  {Decode(words[n][1], words[n][2]) : n \in 1 .. Len(words)} \cup {Decode(0, 0)}
=============================================================================
