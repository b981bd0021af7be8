---------------------------- MODULE MCBenchStall ----------------------------
(* The simulated CPU when the bench may drive enable low at any tick.       *)
EXTENDS MCBenchRepo

VARIABLE operands   \* the registers when the instruction's execute cycle began

StallInit == Init /\ operands = regs

StallNext ==
  /\ Next
  /\ operands' = IF execute_cycle' /\ ~execute_cycle THEN regs' ELSE operands

StallSpec == StallInit /\ [][StallNext]_<<vars, operands>>

\* "rd = rs1 + imm", the ADDI operation of r32i_base_instruction.yaml: when
\* the PC leaves an addi, rd holds the sum of the operand it started with.
ADDI_operation ==
  [][ execute_cycle /\ ~areset' /\ pc' # pc /\ Is(imem_data, {Itype}) /\ imem_data.rd # 0
        => regs'[imem_data.rd] = Trunc(ReadReg(operands, imem_data.rs1) + imem_data.Iimm)
    ]_<<vars, operands>>
=============================================================================
