-------------------------- MODULE MCBoardPrograms --------------------------
(* The board running every four-word program over a small instruction set,  *)
(* with 4-bit words, three registers and two words of RAM.  The PC wraps    *)
(* around the ROM and every address is in the RAM.  While KEY[1] holds the  *)
(* CPU in reset the HPS may rewrite word 0, the very word being fetched.    *)
EXTENDS Board, Programs

AnyInstruction ==
  {Decode(w[1], w[2]) : w \in
     { <<\h0010, \h8093>>,     \* addi x1, x1, 1
       <<\h0041, \h0113>>,     \* addi x2, x2, 4
       <<\h4020, \h8133>>,     \* sub  x2, x1, x2
       <<\h0020, \hC0B3>>,     \* xor  x1, x1, x2
       <<\h0011, \h2223>>,     \* sw   x1, 4(x2)
       <<\h0041, \h2083>>,     \* lw   x1, 4(x2)
       <<\hFE00, \h8EE3>>,     \* beq  x1, x0, -4
       <<\h0020, \h9463>>,     \* bne  x1, x2, 8
       <<\hFF9F, \hF06F>> }}   \* jal  x0, -8

\* The last word branches back, runs off the end of the ROM, or halts.
LastWord == {Decode(\hFE00, \h8EE3), Decode(0, 0)}

MCHalt  == Decode(0, 0)
MCInstr == AnyInstruction \cup {MCHalt}
AnyRoms == {p \in [ROMIdx -> MCInstr] : p[ROMWORDS - 1] \in LastWord}

Word0       == Decode(\h0020, \h9463)     \* bne  x1, x2, 8
MCRomWrites == {[a \in {0} |-> Word0]}

\* Whatever the HPS wrote, loads stay prepared.
MCRoms ==
  {p \in AnyRoms : LoadsArePrepared(p) /\ LoadsArePrepared([p EXCEPT ![0] = Word0])}

ASSUME ListedOnly == \A i \in Instr : Listed(i)
=============================================================================
