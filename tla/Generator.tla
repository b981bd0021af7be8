------------------------------ MODULE Generator ------------------------------
(* utils/generator.py: the enumerations and the format of each opcode that  *)
(* opcode_defines.sv gets from an instruction table.  A table is a sequence *)
(* of [name, type, opcode, funct3, funct7]; a field that an instruction     *)
(* does not have is the empty set, one that it has a singleton.             *)
EXTENDS Naturals, Sequences
LOCAL INSTANCE SequencesExt

TYPE_TO_FORMAT ==
  [R_type |-> "FORMAT_R", I_type |-> "FORMAT_I", S_type |-> "FORMAT_S",
   B_type |-> "FORMAT_B", J_type |-> "FORMAT_J", U_type |-> "FORMAT_U"]

\* The opcodes the generator knows a name for.
OPCODE_TO_NAME ==
  << <<3, "LOAD">>, <<7, "LOAD_FP">>, <<15, "MISC_MEM">>, <<19, "OP_IMM">>, <<23, "AUIPC">>,
     <<27, "OP_IMM_32">>, <<35, "STORE">>, <<39, "STORE_FP">>, <<47, "AMO">>, <<51, "OP">>,
     <<55, "LUI">>, <<59, "OP_32">>, <<99, "BRANCH">>, <<103, "JALR">>, <<111, "JAL">>,
     <<115, "SYSTEM">> >>

OpcodeName(opcode) ==
  LET known == SelectSeq(OPCODE_TO_NAME, LAMBDA e : e[1] = opcode)
  IN  IF known = << >> THEN "OPCODE" ELSE known[1][2]

\* Codes have seven bits at most.
Ascending(S)     == SelectSeq([i \in 1 .. 128 |-> i - 1], LAMBDA c : c \in S)
Names(s)         == [k \in DOMAIN s |-> s[k].name]
WithOpcode(s, o) == SelectSeq(s, LAMBDA i : i.opcode = o)
WithFunct3(s, c) == SelectSeq(s, LAMBDA i : i.funct3 = {c})
Opcodes(s)       == {s[k].opcode : k \in DOMAIN s}
Funct3s(s)       == UNION {s[k].funct3 : k \in DOMAIN s}

\* The table sorted by opcode; instructions of one opcode stay in order.
parse_instructions(table) ==
  LET opcodes == Ascending(Opcodes(table))
  IN  FlattenSeq([k \in DOMAIN opcodes |-> WithOpcode(table, opcodes[k])])

build_opcode_enums(instructions) ==
  LET opcodes == Ascending(Opcodes(instructions))
  IN  [k \in DOMAIN opcodes |->
         [name |-> OpcodeName(opcodes[k]), value |-> opcodes[k],
          instructions |-> Names(WithOpcode(instructions, opcodes[k]))]]

\* A funct3 is labelled with the first two instructions that have it.
build_funct3_enums(instructions) ==
  LET codes == Ascending(Funct3s(instructions))
  IN  [k \in DOMAIN codes |->
         LET names == Names(WithFunct3(instructions, codes[k])) IN
           [name |-> SubSeq(names, 1, IF Len(names) < 2 THEN Len(names) ELSE 2),
            value |-> codes[k], instructions |-> names]]

\* An opcode that the table gives two formats keeps the last.
build_format_case_entries(instructions) ==
  [o \in Opcodes(instructions) |->
     LET users == WithOpcode(instructions, o) IN TYPE_TO_FORMAT[users[Len(users)].type]]

\* get_format of the generated package, with its default case.
get_format(cases, opcode) == IF opcode \in DOMAIN cases THEN cases[opcode] ELSE "FORMAT_I"

----------------------------------------------------------------------------
Entry(name, type, opcode, funct3, funct7) ==
  [name |-> name, type |-> type, opcode |-> opcode, funct3 |-> funct3, funct7 |-> funct7]

\* r32i_base_instruction.yaml.
InstructionTable ==
  << Entry("ADD", "R_type", 51, {0}, {0}),  Entry("SUB", "R_type", 51, {0}, {32}),
     Entry("AND", "R_type", 51, {7}, {0}),  Entry("OR", "R_type", 51, {6}, {0}),
     Entry("XOR", "R_type", 51, {4}, {0}),  Entry("ADDI", "I_type", 19, {0}, {}),
     Entry("LW", "I_type", 3, {2}, {}),     Entry("SW", "S_type", 35, {2}, {}),
     Entry("BEQ", "B_type", 99, {0}, {}),   Entry("BNE", "B_type", 99, {1}, {}),
     Entry("JAL", "J_type", 111, {}, {}) >>

\* main: what the package and its case statement are rendered from.
Instructions == parse_instructions(InstructionTable)
FormatCases  == build_format_case_entries(Instructions)

=============================================================================
