------------------------------ MODULE MCUnits ------------------------------
(* The units of the data path: every listed mnemonic assembled and decoded, *)
(* the ALUs on every pair of operands, and the unit benches.  An immediate  *)
(* is plus or minus the sum of two powers of two (or just one), which puts  *)
(* every pair of bits through the scramble of its format.                   *)
EXTENDS UnitBenches, Generator

CONSTANT OPBITS    \* the width at which the ALUs are compared: 32 in the code

VARIABLES
  f,         \* the operands of the instruction being assembled
  alu        \* the inputs of the ALUs

E    == INSTANCE Encoding WITH XLEN <- BITS
Alus == INSTANCE ALUs WITH XLEN <- OPBITS

\* The vectors hold a jump's offset and the registers of the formats; powers of
\* two are positive and multiply, which is arithmetic the proof system lacks.
ASSUME WidthsAssumption ==
  /\ BITS \in Nat /\ BITS >= 21 /\ NREG \in Nat /\ NREG >= 32
  /\ OPBITS \in 1 .. BITS
  /\ 2^0 = 1 /\ 2^1 = 2
  /\ \A k \in 0 .. BITS : 2^k \in Nat /\ 2^k > 0
  /\ \A j, k \in 0 .. BITS : j + k <= BITS => 2^(j + k) = 2^j * 2^k

\* The bits of the immediate of each format.
ImmediateBits(type) ==
  CASE type = "R_type" -> 0 [] type \in {"I_type", "S_type"} -> 12
    [] type = "B_type" -> 13 [] type = "J_type" -> 21

\* opcode, funct3, funct7 and the bits of the immediate of each mnemonic.
Value(field) == IF field = {} THEN 0 ELSE CHOOSE v \in field : TRUE
Mnemonics ==
  {LET i == InstructionTable[k]
   IN  <<i.opcode, Value(i.funct3), Value(i.funct7), ImmediateBits(i.type)>> :
     k \in DOMAIN InstructionTable}

\* What the generator makes of the table is what the package in the repository
\* says: the labels of opcode_t and funct3_t, their order and their comments.
ASSUME PackageIsCurrent ==
  /\ Instructions[1].name = "LW" /\ Instructions[4].name = "ADD" /\ Instructions[8].name = "XOR"
  /\ [k \in 1 .. 6 |-> build_opcode_enums(Instructions)[k].name] =
       <<"LOAD", "OP_IMM", "STORE", "OP", "BRANCH", "JAL">>
  /\ build_opcode_enums(Instructions)[4].instructions = <<"ADD", "SUB", "AND", "OR", "XOR">>
  /\ [k \in 1 .. 6 |-> build_funct3_enums(Instructions)[k].name] =
       << <<"ADDI", "ADD">>, <<"BNE">>, <<"LW", "SW">>, <<"XOR">>, <<"OR">>, <<"AND">> >>
  /\ build_funct3_enums(Instructions)[1].instructions = <<"ADDI", "ADD", "SUB", "BEQ">>
  /\ E!PackageFormats

\* The ends of the range, and the patterns; branches and jumps are even.
Immediates(m) ==
  LET low   == IF m[1] \in {E!Btype, E!Jtype} THEN 1 ELSE 0
      limit == 2^(m[4] - 1)
      some  == {2^a + 2^b : a \in low .. m[4] - 1, b \in low .. m[4] - 1}
                 \cup {2^a : a \in low .. m[4] - 1}
      all   == some \cup {-v : v \in some} \cup {0, limit - 2^low}
  IN  IF m[4] = 0 THEN {0} ELSE {v \in all : -limit <= v /\ v < limit}

Registers == {0, 1, 15, 16, 31}

Operands(m) ==
  {[opcode |-> m[1], funct3 |-> m[2], funct7 |-> m[3], imm |-> v, rd |-> a, rs1 |-> b, rs2 |-> c] :
     v \in Immediates(m), a \in {1, 16, 31}, b \in {0, 15, 16}, c \in {1, 16}}

Inputs ==
  [op : 0 .. 3, funct3 : 0 .. 7, funct7_bit5 : {0, 1}, x : Alus!Word, y : {0}]

SomeF   == CHOOSE g \in Operands(<<E!Rtype, 0, 0, 0>>) : TRUE
SomeALU == CHOOSE i \in Inputs : TRUE

MCInit ==
  /\ Init
  /\ \/ f = SomeF /\ alu = SomeALU
     \/ bench = "PC" /\ f \in UNION {Operands(m) : m \in Mnemonics} /\ alu = SomeALU
     \/ bench = "PC" /\ f = SomeF /\ alu \in Inputs

MCNext ==
  \/ Drive /\ f = SomeF /\ alu = SomeALU /\ UNCHANGED <<f, alu>>
  \/ row = 0 /\ alu = SomeALU /\ UNCHANGED <<vars, alu>>
     /\ \E r \in Registers : f' = [f EXCEPT !.rs1 = r]
  \/ row = 0 /\ f = SomeF /\ alu' = [alu EXCEPT !.y = Alus!Trunc(@ + 1)] /\ UNCHANGED <<vars, f>>

MCSpec == MCInit /\ [][MCNext]_<<vars, f, alu>>

\* Every instruction assembled from these operands decodes to them again: the
\* immediates through ImmGen's selection, the registers and the opcode's fields.
RoundTrip == E!RoundTrip(f)

\* rtl/ALU.sv computes the ten register operations from its one adder, its
\* carry and its overflow, for every operation its control unit can select.
RtlComputesRV32I == Alus!RtlComputesRV32I(alu.op, alu.funct3, alu.funct7_bit5, alu.x, alu.y)

\* The board's ALU behind the board's control unit gives the same word for
\* the five operations it has, whose codes differ from the simulated one's,
\* and for the address and branch arithmetic.
BoardAgrees == Alus!BoardAgrees(alu.op, alu.funct3, alu.funct7_bit5, alu.x, alu.y)
=============================================================================
