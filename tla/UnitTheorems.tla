---------------------------- MODULE UnitTheorems ----------------------------
(* The run of the units, at every width: what it tries are instructions and *)
(* operands the theorems about the units speak of.                          *)
EXTENDS MCUnits, TLAPS

\* The theorems about the decoding, at the width of the instructions.
Decoding == INSTANCE DatapathTheorems WITH XLEN <- BITS

\* The theorems about the ALUs, at the width of their operands; the bench
\* around them is one without a program.
Computing == INSTANCE BenchTheorems WITH
  XLEN <- OPBITS, Instr <- {}, ROMWORDS <- 1, RAMWORDS <- 1, InitialRoms <- {}, EnableInputs <- {},
  areset <- FALSE, execute_cycle <- FALSE, imem_data <- 0, dmem_rdata <- 0,
  rom <- <<>>, mem <- <<>>, ticks <- 0

----------------------------------------------------------------------------
(* The statements of the run are those of the theorems.                     *)

\* The two widths are widths of a word, and there are registers.
LEMMA WidthsOfWords ==
  /\ NREG \in Nat /\ NREG > 0
  /\ BITS \in Nat /\ BITS > 0 /\ Decoding!SignBit \in Nat /\ Decoding!SignBit > 0
  /\ OPBITS \in Nat /\ OPBITS > 0 /\ Computing!SignBit \in Nat /\ Computing!SignBit > 0
BY WidthsAssumption DEF Decoding!SignBit, Computing!SignBit

\* Powers of two are positive and multiply, up to either width.
LEMMA PowersOfTwo ==
  /\ 2^0 = 1 /\ 2^1 = 2
  /\ \A k \in Decoding!BitIdx : 2^k \in Nat /\ 2^k > 0
  /\ \A j, k \in Decoding!BitIdx : j + k \in Decoding!BitIdx => 2^(j + k) = 2^j * 2^k
  /\ \A k \in Computing!BitIdx : 2^k \in Nat /\ 2^k > 0
  /\ \A j, k \in Computing!BitIdx : j + k \in Computing!BitIdx => 2^(j + k) = 2^j * 2^k
<1>1. 2^0 = 1 /\ 2^1 = 2 /\ \A k \in 0 .. BITS : 2^k \in Nat /\ 2^k > 0
  BY WidthsAssumption
<1>2. \A j, k \in 0 .. BITS : j + k <= BITS => 2^(j + k) = 2^j * 2^k
  BY WidthsAssumption
<1>3. /\ \A k \in Decoding!BitIdx \cup Computing!BitIdx : k \in 0 .. BITS /\ k < BITS
  BY WidthsAssumption DEF Decoding!BitIdx, Computing!BitIdx
<1>4. ASSUME NEW j \in 0 .. BITS, NEW k \in 0 .. BITS, j + k \in 0 .. BITS
      PROVE  2^(j + k) = 2^j * 2^k
  BY <1>2, <1>4
<1> QED
  BY <1>1, <1>3, <1>4

\* What round trips in the theorem round trips in the run.
LEMMA SameRoundTrip ==
  ASSUME NEW g, Decoding!RoundTrip(g)
  PROVE  E!RoundTrip(g)
<1>1. \A v : Decoding!Trunc(v) = E!Trunc(v)
  BY DEF Decoding!Trunc, E!Trunc, Decoding!Radix, E!Radix, Decoding!SignBit, E!SignBit
<1> USE DEF Decoding!Rtype, E!Rtype, Decoding!Itype, E!Itype, Decoding!LoadType, E!LoadType,
            Decoding!Stype, E!Stype, Decoding!Btype, E!Btype, Decoding!Jtype, E!Jtype
<1>2. \A hi, lo : Decoding!Decode(hi, lo) = E!Decode(hi, lo)
  <2>1. \A v, size : Decoding!SignExtend(v, size) = E!SignExtend(v, size)
    BY <1>1 DEF Decoding!SignExtend, E!SignExtend
  <2>2. \A h, m, l : Decoding!Bits(h, m, l) = E!Bits(h, m, l)
    BY DEF Decoding!Bits, E!Bits
  <2>3. \A hi, lo : /\ Decoding!IimmField(hi, lo) = E!IimmField(hi, lo)
                    /\ Decoding!SimmField(hi, lo) = E!SimmField(hi, lo)
                    /\ Decoding!BimmField(hi, lo) = E!BimmField(hi, lo)
                    /\ Decoding!JimmField(hi, lo) = E!JimmField(hi, lo)
    BY <2>2 DEF Decoding!IimmField, E!IimmField, Decoding!SimmField, E!SimmField,
                Decoding!BimmField, E!BimmField, Decoding!JimmField, E!JimmField
  <2> QED
    BY <2>1, <2>2, <2>3 DEF Decoding!Decode, E!Decode
<1>3. Decoding!Encode(g) = E!Encode(g)
  <2>1. \A v, m, l : Decoding!Slice(v, m, l) = E!Slice(v, m, l)
    BY DEF Decoding!Slice, E!Slice
  <2>2. \A a, b, c, d, e, h : Decoding!Halves(a, b, c, d, e, h) = E!Halves(a, b, c, d, e, h)
    BY DEF Decoding!Halves, E!Halves
  <2>3. \A a, b, c, d, e, h : Decoding!JumpHalves(a, b, c, d, e, h) = E!JumpHalves(a, b, c, d, e, h)
    BY DEF Decoding!JumpHalves, E!JumpHalves
  <2>4. \A cases, opcode : Decoding!G!get_format(cases, opcode) = E!G!get_format(cases, opcode)
    BY DEF Decoding!G!get_format, E!G!get_format
  <2> QED
    BY <2>1, <2>2, <2>3, <2>4
       DEF Decoding!Encode, E!Encode, Decoding!FormatR, E!FormatR, Decoding!FormatI, E!FormatI,
           Decoding!FormatS, E!FormatS, Decoding!FormatB, E!FormatB, Decoding!FormatJ, E!FormatJ
<1>4. \A i : Decoding!ControlUnit(i) = E!ControlUnit(i)
  BY DEF Decoding!ControlUnit, E!ControlUnit, Decoding!Is, E!Is
<1>5. \A i : Decoding!ImmOut(i) = E!ImmOut(i)
  BY <1>4 DEF Decoding!ImmOut, E!ImmOut
<1> QED
  BY <1>1, <1>2, <1>3, <1>4, <1>5 DEF Decoding!RoundTrip, E!RoundTrip

\* The case statement the run checks is the one the theorem asks for.
LEMMA SameFormats == Decoding!PackageFormats
<1>1. \A cases, opcode : Decoding!G!get_format(cases, opcode) = E!G!get_format(cases, opcode)
  BY DEF Decoding!G!get_format, E!G!get_format
<1> QED
  BY <1>1, PackageIsCurrent
     DEF Decoding!PackageFormats, E!PackageFormats, Decoding!Rtype, E!Rtype,
         Decoding!Itype, E!Itype, Decoding!LoadType, E!LoadType, Decoding!Stype, E!Stype,
         Decoding!Btype, E!Btype, Decoding!Jtype, E!Jtype

\* The words of the ALUs are the same.
LEMMA SameWords ==
  /\ Computing!Word = Alus!Word
  /\ \A n : Alus!Trunc(n) = n % Alus!Radix
  /\ Alus!Radix \in Nat /\ Alus!Radix > 0 /\ Alus!Word = 0 .. Alus!Radix - 1
<1>1. Alus!Radix = Computing!Radix /\ Alus!Radix = 2 * Computing!SignBit
  BY DEF Alus!Radix, Computing!Radix, Alus!SignBit, Computing!SignBit
<1> QED
  BY <1>1, WidthsOfWords DEF Alus!Word, Computing!Word, Alus!Trunc

\* What the theorem says of the two ALUs the run asks of them.
LEMMA SameALUs ==
  ASSUME NEW op, NEW funct3, NEW bit5, NEW x, NEW y
  PROVE  /\ Computing!RtlComputesRV32I(op, funct3, bit5, x, y)
              => Alus!RtlComputesRV32I(op, funct3, bit5, x, y)
         /\ Computing!BoardAgrees(op, funct3, bit5, x, y)
              => Alus!BoardAgrees(op, funct3, bit5, x, y)
<1>1. \A v, w : /\ Computing!Trunc(v) = Alus!Trunc(v)
                /\ Computing!Signed(v) = Alus!Signed(v)
                /\ Computing!BitAnd(v, w) = Alus!BitAnd(v, w)
                /\ Computing!BitOr(v, w) = Alus!BitOr(v, w)
                /\ Computing!BitXor(v, w) = Alus!BitXor(v, w)
  <2> USE DEF Computing!Word, Alus!Word, Computing!Radix, Alus!Radix, Computing!SignBit,
              Alus!SignBit, Computing!BitIdx, Alus!BitIdx, Computing!BitSet,
              Alus!BitSet
  <2>1. \A S : Computing!WordOf(S) = Alus!WordOf(S)
    BY DEF Computing!WordOf, Alus!WordOf
  <2> QED
    BY <2>1 DEF Computing!Trunc, Alus!Trunc, Computing!Signed, Alus!Signed, Computing!BitAnd,
                Alus!BitAnd, Computing!BitOr, Alus!BitOr, Computing!BitXor,
                Alus!BitXor
<1>2. \A v, w : /\ Computing!Table!Trunc(v) = Alus!Table!Trunc(v)
                /\ Computing!Table!Signed(v) = Alus!Table!Signed(v)
                /\ Computing!Table!BitAnd(v, w) = Alus!Table!BitAnd(v, w)
                /\ Computing!Table!BitOr(v, w) = Alus!Table!BitOr(v, w)
                /\ Computing!Table!BitXor(v, w) = Alus!Table!BitXor(v, w)
  <2> USE DEF Computing!Table!Word, Alus!Table!Word, Computing!Table!Radix, Alus!Table!Radix,
              Computing!Table!SignBit, Alus!Table!SignBit, Computing!Table!BitIdx,
              Alus!Table!BitIdx, Computing!Table!BitSet, Alus!Table!BitSet
  <2>1. \A S : Computing!Table!WordOf(S) = Alus!Table!WordOf(S)
    BY DEF Computing!Table!WordOf, Alus!Table!WordOf
  <2> QED
    BY <2>1 DEF Computing!Table!Trunc, Alus!Table!Trunc, Computing!Table!Signed, Alus!Table!Signed,
                Computing!Table!BitAnd, Alus!Table!BitAnd, Computing!Table!BitOr,
                Alus!Table!BitOr, Computing!Table!BitXor, Alus!Table!BitXor
<1>3. \A v, w : /\ Computing!Board!Trunc(v) = Alus!Board!Trunc(v)
                /\ Computing!Board!BitAnd(v, w) = Alus!Board!BitAnd(v, w)
                /\ Computing!Board!BitOr(v, w) = Alus!Board!BitOr(v, w)
                /\ Computing!Board!BitXor(v, w) = Alus!Board!BitXor(v, w)
  <2> USE DEF Computing!Board!Word, Alus!Board!Word, Computing!Board!Radix, Alus!Board!Radix,
              Computing!Board!SignBit, Alus!Board!SignBit, Computing!Board!BitIdx,
              Alus!Board!BitIdx, Computing!Board!BitSet, Alus!Board!BitSet
  <2>1. \A S : Computing!Board!WordOf(S) = Alus!Board!WordOf(S)
    BY DEF Computing!Board!WordOf, Alus!Board!WordOf
  <2> QED
    BY <2>1 DEF Computing!Board!Trunc, Alus!Board!Trunc, Computing!Board!BitAnd, Alus!Board!BitAnd,
                Computing!Board!BitOr, Alus!Board!BitOr, Computing!Board!BitXor,
                Alus!Board!BitXor
<1> USE DEF Computing!ALU_ADD, Alus!ALU_ADD, Computing!ALU_SLL, Alus!ALU_SLL, Computing!ALU_SLT,
            Alus!ALU_SLT, Computing!ALU_SLTU, Alus!ALU_SLTU, Computing!ALU_XOR,
            Alus!ALU_XOR, Computing!ALU_SRL, Alus!ALU_SRL, Computing!ALU_OR,
            Alus!ALU_OR, Computing!ALU_AND, Alus!ALU_AND, Computing!ALU_SUB,
            Alus!ALU_SUB, Computing!ALU_SRA, Alus!ALU_SRA
<1>4. \A c, b, s : Computing!ALUControlUnit(c, b, s) = Alus!ALUControlUnit(c, b, s)
  BY DEF Computing!ALUControlUnit, Alus!ALUControlUnit
<1>5. \A c, b, s : Computing!Board!ALUControlUnit(c, b, s) = Alus!Board!ALUControlUnit(c, b, s)
  BY DEF Computing!Board!ALUControlUnit, Alus!Board!ALUControlUnit
<1>6. \A o, a, b : Computing!ALU(o, a, b) = Alus!ALU(o, a, b)
  <2>1. Computing!Radix = Alus!Radix /\ \A w : Computing!Negative(w) = Alus!Negative(w)
    BY DEF Computing!Radix, Alus!Radix, Computing!SignBit, Alus!SignBit, Computing!Negative,
           Alus!Negative
  <2>2. \A o : Computing!IsSub(o) = Alus!IsSub(o)
    BY DEF Computing!IsSub, Alus!IsSub
  <2>3. \A o, b : Computing!YPrime(o, b) = Alus!YPrime(o, b)
    BY <2>1, <2>2 DEF Computing!YPrime, Alus!YPrime, Computing!BitNot, Alus!BitNot
  <2>4. \A o, a, b : Computing!Sum(o, a, b) = Alus!Sum(o, a, b)
    BY <2>2, <2>3 DEF Computing!Sum, Alus!Sum
  <2>5. \A o, a, b : /\ Computing!Result(o, a, b) = Alus!Result(o, a, b)
                     /\ Computing!CarryOut(o, a, b) = Alus!CarryOut(o, a, b)
    BY <1>1, <2>1, <2>4 DEF Computing!Result, Alus!Result, Computing!CarryOut, Alus!CarryOut
  <2>6. \A o, a, b : Computing!Overflow(o, a, b) = Alus!Overflow(o, a, b)
    BY <2>1, <2>3, <2>5 DEF Computing!Overflow, Alus!Overflow
  <2>7. \A b : Computing!Flag(b) = Alus!Flag(b) /\ Computing!Shamt(b) = Alus!Shamt(b)
    BY DEF Computing!Flag, Alus!Flag, Computing!Shamt, Alus!Shamt
  <2> QED
    BY <1>1, <2>1, <2>5, <2>6, <2>7 DEF Computing!ALU, Alus!ALU
<1>7. \A o, a, b : Computing!Board!ALU(o, a, b) = Alus!Board!ALU(o, a, b)
  BY <1>3 DEF Computing!Board!ALU, Alus!Board!ALU
<1>8. \A c, b, s, v, w :
        Computing!Table!TableOut(c, b, s, v, w) = Alus!Table!TableOut(c, b, s, v, w)
  <2>1. \A S : Computing!Table!WordOf(S) = Alus!Table!WordOf(S)
    BY DEF Computing!Table!BitIdx, Alus!Table!BitIdx, Computing!Table!BitSet, Alus!Table!BitSet,
           Computing!Table!SignBit, Alus!Table!SignBit, Computing!Table!Radix, Alus!Table!Radix,
           Computing!Table!Word, Alus!Table!Word,
           Computing!Table!WordOf, Alus!Table!WordOf
  <2>2. \A v, n : Computing!Table!ShiftRight(Computing!Table!BitSet(v), n)
                   = Alus!Table!ShiftRight(Alus!Table!BitSet(v), n)
    BY DEF Computing!Table!BitIdx, Alus!Table!BitIdx, Computing!Table!BitSet, Alus!Table!BitSet,
           Computing!Table!SignBit, Alus!Table!SignBit, Computing!Table!Radix, Alus!Table!Radix,
           Computing!Table!Word, Alus!Table!Word,
           Computing!Table!ShiftRight, Alus!Table!ShiftRight
  <2>3. \A v, n : Computing!Table!SignFill(v, n) = Alus!Table!SignFill(v, n)
    BY DEF Computing!Table!BitIdx, Alus!Table!BitIdx, Computing!Table!BitSet, Alus!Table!BitSet,
           Computing!Table!SignBit, Alus!Table!SignBit, Computing!Table!Radix, Alus!Table!Radix,
           Computing!Table!Word, Alus!Table!Word,
           Computing!Table!SignFill, Alus!Table!SignFill
  <2>4. ASSUME NEW b, NEW s, NEW v, NEW w
        PROVE  Computing!Table!RType(b, s, v, w) = Alus!Table!RType(b, s, v, w)
    <3>1. CASE b = 1
      <4>1. {k \in Computing!Table!BitIdx : k - (w % OPBITS) \in Computing!Table!BitSet(v)}
              = {k \in Alus!Table!BitIdx : k - (w % OPBITS) \in Alus!Table!BitSet(v)}
        BY DEF Computing!Table!BitIdx, Alus!Table!BitIdx, Computing!Table!BitSet, Alus!Table!BitSet,
               Computing!Table!SignBit, Alus!Table!SignBit, Computing!Table!Radix, Alus!Table!Radix,
               Computing!Table!Word, Alus!Table!Word
      <4>2. Computing!Table!RType(b, s, v, w) = Computing!Table!WordOf(
              {k \in Computing!Table!BitIdx : k - (w % OPBITS) \in Computing!Table!BitSet(v)})
        BY <3>1 DEF Computing!Table!RType
      <4>3. Alus!Table!RType(b, s, v, w) = Alus!Table!WordOf(
              {k \in Alus!Table!BitIdx : k - (w % OPBITS) \in Alus!Table!BitSet(v)})
        BY <3>1 DEF Alus!Table!RType
      <4> QED
        BY <2>1, <4>1, <4>2, <4>3
    <3>2. CASE b = 5
      BY <1>2, <2>1, <2>2, <2>3, <3>2 DEF Computing!Table!RType, Alus!Table!RType
    <3>3. CASE b \notin {1, 5}
      BY <1>2, <3>3 DEF Computing!Table!RType, Alus!Table!RType
    <3> QED
      BY <3>1, <3>2, <3>3
  <2> QED
    BY <1>2, <2>4 DEF Computing!Table!TableOut, Alus!Table!TableOut
<1> QED
  BY <1>4, <1>5, <1>6, <1>7, <1>8
     DEF Computing!RtlComputesRV32I, Alus!RtlComputesRV32I, Computing!BoardAgrees, Alus!BoardAgrees,
         Computing!RtlOut, Alus!RtlOut, Computing!BoardOut, Alus!BoardOut,
         Computing!BoardHas, Alus!BoardHas

----------------------------------------------------------------------------
(* What the run tries.                                                      *)

\* What the assembler and the decoder have for an opcode's immediate: its bits.
BitsOf(opcode) ==
  CASE opcode = E!Rtype -> 0 [] opcode \in {E!Itype, E!LoadType, E!Stype} -> 12
    [] opcode = E!Btype -> 13 [] opcode = E!Jtype -> 21

ListedOpcodes == {E!Rtype, E!Itype, E!LoadType, E!Stype, E!Btype, E!Jtype}

\* The entries of the instruction table are fields of instructions.
LEMMA EntriesAreInstructions ==
  ASSUME NEW m \in Mnemonics
  PROVE  m[1] \in ListedOpcodes /\ m[2] \in 0 .. 7 /\ m[3] \in 0 .. 127 /\ m[4] = BitsOf(m[1])
<1>1. PICK k \in DOMAIN InstructionTable :
        m = <<InstructionTable[k].opcode, Value(InstructionTable[k].funct3),
              Value(InstructionTable[k].funct7), ImmediateBits(InstructionTable[k].type)>>
  BY DEF Mnemonics
<1>2. k \in 1 .. 11
  BY DEF InstructionTable
<1>3. Value({}) = 0 /\ \A c : Value({c}) = c
  <2>1. \A c : (CHOOSE v \in {c} : TRUE) = c
    OBVIOUS
  <2> QED
    BY <2>1 DEF Value
<1> DEFINE i == InstructionTable[k]
<1>4. /\ i.opcode \in ListedOpcodes /\ ImmediateBits(i.type) = BitsOf(i.opcode)
      /\ Value(i.funct3) \in 0 .. 7 /\ Value(i.funct7) \in 0 .. 127
  <2>1. /\ <<i.type, i.opcode>> \in {<<"R_type", 51>>, <<"I_type", 19>>, <<"I_type", 3>>,
                                   <<"S_type", 35>>, <<"B_type", 99>>, <<"J_type", 111>>}
        /\ i.funct3 \in {{}, {0}, {1}, {2}, {4}, {6}, {7}} /\ i.funct7 \in {{}, {0}, {32}}
    <3> USE DEF InstructionTable, Entry
    <3>1. CASE k = 1  BY <3>1
    <3>2. CASE k = 2  BY <3>2
    <3>3. CASE k = 3  BY <3>3
    <3>4. CASE k = 4  BY <3>4
    <3>5. CASE k = 5  BY <3>5
    <3>6. CASE k = 6  BY <3>6
    <3>7. CASE k = 7  BY <3>7
    <3>8. CASE k = 8  BY <3>8
    <3>9. CASE k = 9  BY <3>9
    <3>10. CASE k = 10  BY <3>10
    <3>11. CASE k = 11  BY <3>11
    <3> HIDE DEF InstructionTable, Entry, i
    <3> QED
      BY <1>2, <3>1, <3>2, <3>3, <3>4, <3>5, <3>6, <3>7, <3>8, <3>9, <3>10, <3>11
  <2> HIDE DEF i
  <2>2. i.opcode \in ListedOpcodes /\ ImmediateBits(i.type) = BitsOf(i.opcode)
    BY <2>1 DEF ListedOpcodes, BitsOf, ImmediateBits, E!Rtype, E!Itype, E!LoadType, E!Stype,
                E!Btype, E!Jtype
  <2>3. Value(i.funct3) \in 0 .. 7 /\ Value(i.funct7) \in 0 .. 127
    <3>1. ASSUME NEW F, NEW n \in Nat, F = {} \/ \E c \in 0 .. n : F = {c}
          PROVE  Value(F) \in 0 .. n
      <4>1. CASE F = {}
        BY <1>3, <4>1
      <4>2. ASSUME NEW c \in 0 .. n, F = {c} PROVE Value(F) \in 0 .. n
        BY <1>3, <4>2
      <4> QED
        BY <3>1, <4>1, <4>2
    <3>2. i.funct3 = {} \/ \E c \in 0 .. 7 : i.funct3 = {c}
      BY <2>1
    <3>3. i.funct7 = {} \/ \E c \in 0 .. 127 : i.funct7 = {c}
      BY <2>1
    <3>4. Value(i.funct3) \in 0 .. 7
      BY <3>1, <3>2
    <3>5. Value(i.funct7) \in 0 .. 127
      BY <3>1, <3>3
    <3> QED
      BY <3>4, <3>5
  <2> QED
    BY <2>2, <2>3
<1> QED
  BY <1>1, <1>4

\* The ranges of the immediates, in numerals.
LEMMA ImmediateRanges == 2^11 = 2048 /\ 2^12 = 4096 /\ 2^20 = 1048576
<1>1. \A j, k \in 0 .. 21 : j + k <= 21 => 2^(j + k) = 2^j * 2^k
  BY WidthsAssumption
<1>2. 2^1 = 2
  BY WidthsAssumption
<1>3. 2^2 = 4
  BY <1>1, <1>2, 2^(1 + 1) = 2^1 * 2^1
<1>4. 2^4 = 16
  BY <1>1, <1>3, 2^(2 + 2) = 2^2 * 2^2
<1>5. 2^8 = 256
  BY <1>1, <1>4, 2^(4 + 4) = 2^4 * 2^4
<1>6. 2^3 = 8
  BY <1>1, <1>2, <1>3, 2^(1 + 2) = 2^1 * 2^2
<1>7. 2^11 = 2048
  BY <1>1, <1>5, <1>6, 2^(3 + 8) = 2^3 * 2^8
<1>8. 2^12 = 4096
  BY <1>1, <1>2, <1>7, 2^(1 + 11) = 2^1 * 2^11
<1>9. 2^20 = 1048576
  BY <1>1, <1>5, <1>8, 2^(8 + 12) = 2^8 * 2^12
<1> QED
  BY <1>7, <1>8, <1>9

\* Powers of two from the second on are even.
LEMMA PowersAreEven ==
  ASSUME NEW a \in 1 .. 20
  PROVE  2^a \in Nat /\ 2^a % 2 = 0
<1>0. 1 \in 0 .. BITS /\ a - 1 \in 0 .. BITS /\ 1 + (a - 1) <= BITS
  BY WidthsAssumption
<1>1. 2^1 = 2 /\ 2^(a - 1) \in Nat /\ 2^(1 + (a - 1)) = 2^1 * 2^(a - 1)
  BY <1>0, WidthsAssumption
<1>2. 2^a = 2 * 2^(a - 1)
  BY <1>1, 1 + (a - 1) = a
<1> QED
  BY <1>1, <1>2

\* The powers of two below the widest immediate are natural numbers.
LEMMA SmallPowers == \A a \in 0 .. 20 : 2^a \in Nat
<1>1. \A a \in 0 .. 20 : a \in 0 .. BITS
  BY WidthsAssumption
<1> QED
  BY <1>1, WidthsAssumption

\* The immediates that the run tries for a mnemonic fit its format.
LEMMA ImmediatesFit ==
  ASSUME NEW m, m[1] \in ListedOpcodes, m[4] = BitsOf(m[1]), NEW v \in Immediates(m)
  PROVE  /\ v \in Int
         /\ m[1] \in {E!Itype, E!LoadType, E!Stype} => -2048 <= v /\ v < 2048
         /\ m[1] = E!Btype => -4096 <= v /\ v < 4096 /\ v % 2 = 0
         /\ m[1] = E!Jtype => -1048576 <= v /\ v < 1048576 /\ v % 2 = 0
<1> DEFINE low   == IF m[1] \in {E!Btype, E!Jtype} THEN 1 ELSE 0
           limit == 2^(m[4] - 1)
           some  == {2^a + 2^b : a \in low .. m[4] - 1, b \in low .. m[4] - 1}
                      \cup {2^a : a \in low .. m[4] - 1}
           all   == some \cup {-w : w \in some} \cup {0, limit - 2^low}
<1> USE DEF E!Rtype, E!Itype, E!LoadType, E!Stype, E!Btype, E!Jtype
<1>1. m[1] \in {51, 19, 3, 35, 99, 111}
  BY DEF ListedOpcodes
<1>2. CASE m[1] = 51
  BY <1>2 DEF Immediates, BitsOf
<1>3. CASE m[1] # 51
  <2>1. /\ m[1] \in {19, 3, 35} => m[4] = 12 /\ low = 0
        /\ m[1] = 99 => m[4] = 13 /\ low = 1
        /\ m[1] = 111 => m[4] = 21 /\ low = 1
    BY <1>1, <1>3 DEF BitsOf
  <2>2. v \in all /\ -limit <= v /\ v < limit
    BY <1>1, <1>3, <2>1 DEF Immediates
  <2>3. 2^0 = 1 /\ 2^1 = 2 /\ \A a \in 0 .. 20 : 2^a \in Nat
    BY WidthsAssumption
  <2>4. /\ limit \in Nat /\ (low = 1 => limit % 2 = 0)
        /\ m[1] \in {19, 3, 35} => limit = 2048
        /\ m[1] = 99 => limit = 4096
        /\ m[1] = 111 => limit = 1048576
    <3>1. /\ m[1] \in {19, 3, 35} => limit = 2048
          /\ m[1] = 99 => limit = 4096
          /\ m[1] = 111 => limit = 1048576
      <4>1. m[4] = 12 => limit = 2^11
        BY 12 - 1 = 11
      <4>2. m[4] = 13 => limit = 2^12
        BY 13 - 1 = 12
      <4>3. m[4] = 21 => limit = 2^20
        BY 21 - 1 = 20
      <4> HIDE DEF limit
      <4> QED
        BY <2>1, <4>1, <4>2, <4>3, ImmediateRanges
    <3>2. m[1] \in {19, 3, 35} \/ m[1] = 99 \/ m[1] = 111
      BY <1>1, <1>3
    <3> HIDE DEF limit
    <3> QED
      BY <2>1, <3>1, <3>2
  <2>5. m[4] - 1 \in 0 .. 20 /\ low \in {0, 1}
    BY <1>1, <1>3, <2>1
  <2>6. ASSUME NEW a \in low .. m[4] - 1 PROVE 2^a \in Nat /\ (low = 1 => 2^a % 2 = 0)
    <3> HIDE DEF low
    <3>1. a \in 0 .. 20 /\ (low = 1 => a \in 1 .. 20)
      BY <2>5
    <3>2. 2^a \in Nat
      BY <3>1, SmallPowers
    <3>3. CASE low = 1
      BY <3>1, <3>2, <3>3, PowersAreEven
    <3> QED
      BY <3>2, <3>3
  <2>7. ASSUME NEW w \in some PROVE w \in Nat /\ (low = 1 => w % 2 = 0)
    <3> HIDE DEF low
    <3>1. (\E a, b \in low .. m[4] - 1 : w = 2^a + 2^b) \/ \E a \in low .. m[4] - 1 : w = 2^a
      OBVIOUS
    <3>2. ASSUME NEW a \in low .. m[4] - 1, NEW b \in low .. m[4] - 1, w = 2^a + 2^b
          PROVE  w \in Nat /\ (low = 1 => w % 2 = 0)
      BY <2>6, <3>2
    <3> QED
      BY <2>6, <3>1, <3>2
  <2>8. v \in Int /\ (low = 1 => v % 2 = 0)
    <3> HIDE DEF some, low, limit
    <3>1. \/ v \in some \/ (\E w \in some : v = -w) \/ v = 0 \/ v = limit - 2^low
      BY <2>2
    <3>2. ASSUME NEW w \in some, v = -w PROVE v \in Int /\ (low = 1 => v % 2 = 0)
      BY <2>7, <3>2
    <3>3. CASE v = limit - 2^low
      <4>1. limit \in Nat /\ (low = 1 => limit % 2 = 0)
        BY <2>4
      <4>2. CASE low = 0
        BY <2>3, <3>3, <4>1, <4>2
      <4>3. CASE low = 1
        <5>1. v = limit - 2 /\ limit % 2 = 0
          BY <2>3, <3>3, <4>1, <4>3
        <5> QED
          BY <4>1, <5>1
      <4> QED
        BY <2>5, <4>2, <4>3
    <3> QED
      BY <2>7, <3>1, <3>2, <3>3
  <2> HIDE DEF low, limit, all
  <2> QED
    BY <1>1, <1>3, <2>1, <2>2, <2>4, <2>8
<1> QED
  BY <1>1, <1>2, <1>3

\* What a mnemonic's operands are: an instruction that fits its format.
LEMMA OperandsAreAssembled ==
  ASSUME NEW m, m[1] \in ListedOpcodes, m[2] \in 0 .. 7, m[3] \in 0 .. 127, m[4] = BitsOf(m[1]),
         NEW g \in Operands(m)
  PROVE  g \in Decoding!Assembled
<1>1. PICK v \in Immediates(m), a \in {1, 16, 31}, b \in {0, 15, 16}, c \in {1, 16} :
        g = [opcode |-> m[1], funct3 |-> m[2], funct7 |-> m[3], imm |-> v,
             rd |-> a, rs1 |-> b, rs2 |-> c]
  BY DEF Operands
<1>2. /\ v \in Int
      /\ m[1] \in {E!Itype, E!LoadType, E!Stype} => -2048 <= v /\ v < 2048
      /\ m[1] = E!Btype => -4096 <= v /\ v < 4096 /\ v % 2 = 0
      /\ m[1] = E!Jtype => -1048576 <= v /\ v < 1048576 /\ v % 2 = 0
  BY ImmediatesFit
<1> USE DEF E!Rtype, E!Itype, E!LoadType, E!Stype, E!Btype, E!Jtype, Decoding!Rtype, Decoding!Itype,
            Decoding!LoadType, Decoding!Stype, Decoding!Btype, Decoding!Jtype
<1>3. Decoding!Fits(g)
  BY <1>1, <1>2, SMT DEF Decoding!Fits
<1>4. {0, 1, 15, 16, 31} \subseteq Decoding!Registers
  BY WidthsAssumption DEF Decoding!Registers, Decoding!RegIdx
<1>5. g \in [opcode : {51, 19, 3, 35, 99, 111}, funct3 : 0 .. 7, funct7 : 0 .. 127, imm : Int,
             rd : Decoding!Registers, rs1 : Decoding!Registers, rs2 : Decoding!Registers]
  BY <1>1, <1>2, <1>4 DEF ListedOpcodes
<1> QED
  BY <1>3, <1>5 DEF Decoding!Assembled

----------------------------------------------------------------------------
(* The run.                                                                 *)

\* The instruction fits its format and the operands are words.
UnitInv ==
  /\ f \in Decoding!Assembled
  /\ alu \in [op : 0 .. 3, funct3 : 0 .. 7, funct7_bit5 : {0, 1}, x : Alus!Word, y : Alus!Word]

LEMMA UnitInvariant == MCSpec => []UnitInv
<1>1. MCInit => UnitInv
  <2>1. SomeF \in Decoding!Assembled
    <3> DEFINE m == <<E!Rtype, 0, 0, 0>>
    <3>1. Immediates(m) = {0}
      BY DEF Immediates
    <3>2. Operands(m) # {}
      <4>1. [opcode |-> m[1], funct3 |-> m[2], funct7 |-> m[3], imm |-> 0,
             rd |-> 1, rs1 |-> 0, rs2 |-> 1] \in Operands(m)
        BY <3>1 DEF Operands
      <4> QED
        BY <4>1
    <3>3. SomeF \in Operands(m)
      BY <3>2 DEF SomeF
    <3>4. m[1] \in ListedOpcodes /\ m[2] \in 0 .. 7 /\ m[3] \in 0 .. 127 /\ m[4] = BitsOf(m[1])
      BY DEF ListedOpcodes, BitsOf, E!Rtype, E!Itype, E!LoadType, E!Stype, E!Btype, E!Jtype
    <3> HIDE DEF m
    <3> QED
      BY <3>3, <3>4, OperandsAreAssembled
  <2>2. \A i \in Inputs :
          i \in [op : 0 .. 3, funct3 : 0 .. 7, funct7_bit5 : {0, 1}, x : Alus!Word, y : Alus!Word]
    BY SameWords DEF Inputs
  <2>3. SomeALU \in Inputs
    <3>1. [op |-> 0, funct3 |-> 0, funct7_bit5 |-> 0, x |-> 0, y |-> 0] \in Inputs
      BY SameWords DEF Inputs
    <3> QED
      BY <3>1 DEF SomeALU
  <2>4. ASSUME NEW m \in Mnemonics, f \in Operands(m) PROVE f \in Decoding!Assembled
    BY <2>4, EntriesAreInstructions, OperandsAreAssembled
  <2> QED
    BY <2>1, <2>2, <2>3, <2>4 DEF MCInit, UnitInv
<1>2. UnitInv /\ [MCNext]_<<vars, f, alu>> => UnitInv'
  <2> SUFFICES ASSUME UnitInv, [MCNext]_<<vars, f, alu>> PROVE UnitInv'
    OBVIOUS
  <2>1. CASE UNCHANGED <<f, alu>>
    BY <2>1 DEF UnitInv
  <2>2. ASSUME NEW r \in Registers, f' = [f EXCEPT !.rs1 = r], alu' = alu PROVE UnitInv'
    <3>1. r \in Decoding!Registers
      BY WidthsAssumption DEF Registers, Decoding!Registers, Decoding!RegIdx
    <3> QED
      BY <2>2, <3>1 DEF UnitInv, Decoding!Assembled, Decoding!Fits
  <2>3. CASE alu' = [alu EXCEPT !.y = Alus!Trunc(@ + 1)] /\ f' = f
    <3>1. alu.y \in 0 .. Alus!Radix - 1
      BY SameWords DEF UnitInv
    <3>2. Alus!Trunc(alu.y + 1) \in Alus!Word
      BY <3>1, SameWords
    <3> QED
      BY <2>3, <3>2 DEF UnitInv
  <2> QED
    BY <2>1, <2>2, <2>3 DEF MCNext
<1> QED
  BY <1>1, <1>2, PTL DEF MCSpec

\* Every instruction the run assembles decodes to what it was assembled from,
\* for every width that holds a jump and every number of registers that holds
\* the formats'.
THEOREM RunRoundTrips == MCSpec => []RoundTrip
<1>1. \A g \in Decoding!Assembled : Decoding!RoundTrip(g)
  BY Decoding!EveryInstructionRoundTrips, SameFormats, WidthsOfWords, PowersOfTwo
     DEF Decoding!EveryInstructionRoundTrips
<1>2. UnitInv => RoundTrip
  BY <1>1, SameRoundTrip DEF UnitInv, RoundTrip
<1> QED
  BY <1>2, UnitInvariant, PTL

\* The bench around the ALUs meets what its theorems ask of one.
LEMMA BenchIsOne ==
  /\ {} \subseteq Computing!Instruction
  /\ 1 \in Nat /\ 1 > 0
  /\ {} \subseteq [Computing!ROMIdx -> {}]
  /\ {} \subseteq BOOLEAN
OBVIOUS

\* The theorems about the ALUs, for the operands of the run.
LEMMA OperandsComputed ==
  ASSUME NEW op \in 0 .. 3, NEW funct3 \in 0 .. 7, NEW bit5 \in {0, 1},
         NEW x \in Alus!Word, NEW y \in Alus!Word
  PROVE  /\ Alus!RtlComputesRV32I(op, funct3, bit5, x, y)
         /\ Alus!BoardAgrees(op, funct3, bit5, x, y)
<1>1. x \in Computing!Word /\ y \in Computing!Word
  BY SameWords
<1>2. Computing!RtlComputesRV32I(op, funct3, bit5, x, y)
  BY <1>1, Computing!RtlALUIsRV32I, WidthsOfWords, PowersOfTwo, BenchIsOne
     DEF Computing!RtlALUIsRV32I
<1>3. Computing!BoardAgrees(op, funct3, bit5, x, y)
  BY <1>1, Computing!BoardALUIsRtlALU, WidthsOfWords, PowersOfTwo, BenchIsOne
     DEF Computing!BoardALUIsRtlALU
<1> QED
  BY <1>2, <1>3, SameALUs

\* What rtl/ALU.sv puts out for the operands of the run is what the table of
\* register operations says, at every width.
THEOREM RunComputesRV32I == MCSpec => []RtlComputesRV32I
<1>1. UnitInv => RtlComputesRV32I
  BY OperandsComputed DEF UnitInv, RtlComputesRV32I
<1> QED
  BY <1>1, UnitInvariant, PTL

\* The board's ALU behind the board's control unit gives the same word for the
\* operands of the run, at every width.
THEOREM RunALUsAgree == MCSpec => []BoardAgrees
<1>1. UnitInv => BoardAgrees
  BY OperandsComputed DEF UnitInv, BoardAgrees
<1> QED
  BY <1>1, UnitInvariant, PTL

=============================================================================
