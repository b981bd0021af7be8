------------------------------ MODULE Encoding ------------------------------
(* The instruction formats of utils/opcode_defines.sv, as the assembler     *)
(* that wrote the repository's programs applies them, against the decoding  *)
(* the hardware performs: the part-selects of main.sv, the ControlUnit and  *)
(* the ImmGen.                                                              *)
EXTENDS Decoder

\* The case statement of get_format, as the generator made it of the table.
CONSTANT FormatCases

\* imm[msb:lsb] of a signed immediate.
Slice(imm, msb, lsb) == (imm \div 2^lsb) % 2^(msb - lsb + 1)

\* Bits 31:25, 24:20, 19:15, 14:12, 11:7 and 6:0, as the two halves.
Halves(top, rs2, rs1, funct3, low, opcode) ==
  << top * 512 + rs2 * 16 + rs1 \div 2,
     (rs1 % 2) * 32768 + funct3 * 4096 + low * 128 + opcode >>

FormatR(f) == Halves(f.funct7, f.rs2, f.rs1, f.funct3, f.rd, f.opcode)

FormatI(f) == Halves(Slice(f.imm, 11, 5), Slice(f.imm, 4, 0), f.rs1, f.funct3, f.rd, f.opcode)

FormatS(f) == Halves(Slice(f.imm, 11, 5), f.rs2, f.rs1, f.funct3, Slice(f.imm, 4, 0), f.opcode)

FormatB(f) ==
  Halves(Slice(f.imm, 12, 12) * 64 + Slice(f.imm, 10, 5), f.rs2, f.rs1, f.funct3,
         Slice(f.imm, 4, 1) * 2 + Slice(f.imm, 11, 11), f.opcode)

\* Bits 31, 30:21, 20, 19:12, 11:7 and 6:0 of a jump.
JumpHalves(sign, low, middle, high, rd, opcode) ==
  LET upper == sign * 524288 + low * 512 + middle * 256 + high
  IN  << upper \div 16, (upper % 16) * 4096 + rd * 128 + opcode >>

FormatJ(f) ==
  JumpHalves(Slice(f.imm, 20, 20), Slice(f.imm, 10, 1), Slice(f.imm, 11, 11),
             Slice(f.imm, 19, 12), f.rd, f.opcode)

G == INSTANCE Generator

\* The format of the generated package decides how the operands are placed.
Encode(f) ==
  LET format == G!get_format(FormatCases, f.opcode) IN
    CASE format = "FORMAT_I" -> FormatI(f)
      [] format = "FORMAT_S" -> FormatS(f)
      [] format = "FORMAT_B" -> FormatB(f)
      [] format = "FORMAT_J" -> FormatJ(f)
      [] format = "FORMAT_R" -> FormatR(f)

----------------------------------------------------------------------------
\* The operands that fit their format; branches and jumps go to even addresses.
Fits(f) ==
  /\ f.opcode \in {Itype, LoadType, Stype} => -2048 <= f.imm /\ f.imm < 2048
  /\ f.opcode = Btype => -4096 <= f.imm /\ f.imm < 4096 /\ f.imm % 2 = 0
  /\ f.opcode = Jtype => -1048576 <= f.imm /\ f.imm < 1048576 /\ f.imm % 2 = 0

Registers == RegIdx \cap 0 .. 31

Assembled ==
  {f \in [opcode : {Rtype, Itype, LoadType, Stype, Btype, Jtype}, funct3 : 0 .. 7,
          funct7 : 0 .. 127, imm : Int, rd : Registers, rs1 : Registers, rs2 : Registers] :
     Fits(f)}

\* What the case statement has for the opcodes of the table.
PackageFormats ==
  /\ \A opcode \in {Itype, LoadType} : G!get_format(FormatCases, opcode) = "FORMAT_I"
  /\ G!get_format(FormatCases, Rtype) = "FORMAT_R"
  /\ G!get_format(FormatCases, Stype) = "FORMAT_S"
  /\ G!get_format(FormatCases, Btype) = "FORMAT_B"
  /\ G!get_format(FormatCases, Jtype) = "FORMAT_J"

\* The immediate that ImmGen puts on imm_out, selected by the ControlUnit's
\* Branch, Jump and MemWrite, is the one assembled, sign-extended; and no
\* scrambled bit of it leaks into the fields the other units read.
RoundTrip(f) ==
  LET i == Decode(Encode(f)[1], Encode(f)[2])
      u == ControlUnit(i)
  IN  /\ i.opcode = f.opcode /\ ~i.zero
      /\ f.opcode # Rtype => ImmOut(i) = Trunc(f.imm)
      /\ f.opcode # Jtype => i.rs1 = f.rs1 /\ i.funct3 = f.funct3
      /\ u.RegWrite => i.rd = f.rd
      /\ ~u.ALUSrc \/ u.MemWrite => i.rs2 = f.rs2
      /\ f.opcode = Rtype => i.funct7 = f.funct7
=============================================================================
