------------------------------ MODULE Decoder ------------------------------
(* From the 32 bits of an instruction to its fields: the part-selects of    *)
(* main.sv, ControlUnit.sv and ALUControlUnit's ports, and the ImmGen.  A   *)
(* 32-bit word is written as its two halves, hi and lo, because TLC's       *)
(* integers are 32-bit signed.                                              *)
EXTENDS Datapath, Sequences

\* word[msb:lsb] of a half word.
Bits(half, msb, lsb) == (half \div 2^lsb) % 2^(msb - lsb + 1)

\* {{n{v[size-1]}}, v}, cut to the width of the data path.
SignExtend(v, size) == Trunc(IF v >= 2^(size - 1) THEN v - 2^size ELSE v)

IimmField(hi, lo) == Bits(hi, 15, 4)

SimmField(hi, lo) == Bits(hi, 15, 9) * 32 + Bits(lo, 11, 7)

\* A slip: bits 12 and 11 of the offset exchanged.
BimmFieldSwapped(hi, lo) ==
  Bits(lo, 7, 7) * 4096 + Bits(hi, 15, 15) * 2048 + Bits(hi, 14, 9) * 32 + Bits(lo, 11, 8) * 2

BimmField(hi, lo) ==
  Bits(hi, 15, 15) * 4096 + Bits(lo, 7, 7) * 2048 + Bits(hi, 14, 9) * 32 + Bits(lo, 11, 8) * 2

JimmField(hi, lo) ==
  Bits(hi, 15, 15) * 1048576 + (Bits(hi, 3, 0) * 16 + Bits(lo, 15, 12)) * 4096
    + Bits(hi, 4, 4) * 2048 + Bits(hi, 14, 5) * 2

\* A register field is taken modulo NREG: a no-operation at the code's NREG,
\* 32.  An instance with fewer registers uses programs that name only those.
Decode(hi, lo) ==
  [zero   |-> hi = 0 /\ lo = 0,
   opcode |-> Bits(lo, 6, 0),
   rd     |-> Bits(lo, 11, 7) % NREG,
   funct3 |-> Bits(lo, 14, 12),
   rs1    |-> (Bits(hi, 3, 0) * 2 + Bits(lo, 15, 15)) % NREG,
   rs2    |-> Bits(hi, 8, 4) % NREG,
   funct7 |-> Bits(hi, 15, 9),
   Iimm   |-> SignExtend(IimmField(hi, lo), 12),
   Simm   |-> SignExtend(SimmField(hi, lo), 12),
   Bimm   |-> SignExtend(BimmField(hi, lo), 13),
   Jimm   |-> SignExtend(JimmField(hi, lo), 21)]

\* A memory image of n words: the decoded words, then zeros.
Image(words, n) ==
  [a \in 0 .. n - 1 |-> IF a < Len(words) THEN Decode(words[a + 1][1], words[a + 1][2])
                                          ELSE Decode(0, 0)]
=============================================================================
