------------------------------- MODULE MCCore -------------------------------
(***************************************************************************)
(* Small instances of the core for TLC: a cache of two lines of two words, *)
(* three registers, seven-bit words, and a table of instructions that has  *)
(* one instruction of every kind and every way to trap.                    *)
(***************************************************************************)
EXTENDS CoreIsa, FiniteSets

MCSpace == 128
MCLineWords == 2

I(op, rd, rs1, rs2, imm) ==
  [op |-> op, rd |-> rd, rs1 |-> rs1, rs2 |-> rs2, imm |-> imm,
   csr |-> "mvendorid", legal |-> TRUE]
C(op, rd, csr_, rs1) == [I(op, rd, rs1, 0, 0) EXCEPT !.csr = csr_]
Bad(i) == [i EXCEPT !.legal = FALSE]

\* The encoding: word n means the n-th instruction, other words are illegal.
Table == <<
  I("addi", 1, 0, 0, 32),      \*  1 li x1, 32 (the trap handler)
  C("csrrw", 0, "mtvec", 1),   \*  2 csrw mtvec, x1
  I("addi", 2, 1, 0, 4),       \*  3 addi x2, x1, 4
  I("add", 2, 1, 1, 0),        \*  4 add x2, x1, x1
  I("load", 1, 0, 0, 8),       \*  5 lw x1, 8(x0)
  I("store", 0, 0, 1, 12),     \*  6 sw x1, 12(x0): overwrites the program
  I("load", 2, 0, 0, 56),      \*  7 lw x2, 56(x0): access fault
  I("store", 0, 0, 1, 60),     \*  8 sw x1, 60(x0): access fault
  I("load", 1, 0, 0, 2),       \*  9 lw x1, 2(x0): misaligned
  I("branch", 0, 1, 2, 8),     \* 10 beq x1, x2, +8
  I("jal", 1, 0, 0, 8),        \* 11 jal x1, +8
  I("jal", 0, 0, 0, 6),        \* 12 jal x0, +6: misaligned target
  I("jalr", 2, 1, 0, 1),       \* 13 jalr x2, 1(x1)
  I("ecall", 0, 0, 0, 0),      \* 14
  I("ebreak", 0, 0, 0, 0),     \* 15
  I("mret", 0, 0, 0, 0),       \* 16
  I("fence_i", 0, 0, 0, 0),    \* 17
  Bad(I("jal", 1, 0, 0, 8)),   \* 18 jal x17, +8: not RV32E
  C("csrrs", 2, "mepc", 0),    \* 19 csrr x2, mepc
  C("csrrw", 1, "mepc", 2),    \* 20 csrrw x1, mepc, x2
  I("addi", 0, 1, 0, 4),       \* 21 addi x0, x1, 4
  I("load", 2, 0, 0, 48),      \* 22 lw x2, 48(x0): the CLINT
  I("jal", 0, 0, 0, 116),      \* 23 j -12
  I("store", 0, 0, 2, 2),      \* 24 sw x2, 2(x0): misaligned
  I("addi", 2, 2, 0, 4),       \* 25 addi x2, x2, 4
  C("csrrw", 0, "mepc", 2),    \* 26 csrw mepc, x2
  C("csrrs", 1, "mcause", 1),  \* 27 csrrs x1, mcause, x1
  I("store", 0, 0, 1, 48),     \* 28 sw x1, 48(x0): the CLINT
  I("jal", 0, 0, 0, 112),      \* 29 j -16
  I("jal", 0, 0, 0, 64),       \* 30 j +64
  I("addi", 1, 0, 0, 96)       \* 31 li x1, 96
  >>

MCDecode ==
  [w \in 0 .. MCSpace - 1 |->
     IF w \in DOMAIN Table THEN Table[w] ELSE Bad(I("none", 0, 0, 0, 0))]

Bit(a, k) == (a \div k) % 2
MCBitOr(a, b) ==
  LET B(k) == IF Bit(a, k) + Bit(b, k) > 0 THEN k ELSE 0
  IN B(1) + B(2) + B(4) + B(8) + B(16) + B(32) + B(64)

\* Six lines of memory; the CLINT at 48; the line at 56 answers with an error;
\* from 64 on every second line does, the ones of set 1.
MCBusOk == {a \in 0 .. 103 : a % 4 = 0 /\ (a < 48 \/ (a >= 64 /\ a % 16 < 8))}
MCClint == {48, 52}

\* Set up the handler or not, run three free words, and loop.  The handler
\* at 32 skips the trapping instruction; a jump to 64 or 68
\* comes back.
Skeleton == [a \in MCBusOk |->
  CASE a = 0 -> 1 [] a = 4 -> 2 [] a = 20 -> 23
    [] a = 32 -> 19 [] a = 36 -> 25 [] a = 40 -> 26 [] a = 44 -> 16
    [] a \in {64, 68} -> 30 [] OTHER -> 0]

With(setups, free) ==
  {[Skeleton EXCEPT ![4] = s, ![8] = x, ![12] = y, ![16] = z] :
     s \in setups, x \in free[1], y \in free[2], z \in free[3]}

\* No jump out of the memory.
All == DOMAIN Table \ {23, 29, 30, 31}
OkPrograms == With({2}, <<All, All, {3, 13, 17}>>)
StallPrograms == With({2, 21}, <<All \ {1, 2, 24}, {5, 6, 7, 14, 17, 10}, {3, 17}>>)

\* Programs that only use lines of set 0, with a trap vector at 96 or none:
\* running on from 68, 84 or 100 is a fetch fault, and a faulting refill never
\* evicts a valid line.
FaultPrograms(xs, ys, zs) ==
  {[a \in MCBusOk |->
      CASE a = 0 -> 30 [] a = 64 -> 31 [] a = 68 -> s [] a = 80 -> x
        [] a = 84 -> y [] a = 96 -> z [] a = 100 -> w [] OTHER -> 0] :
     s \in {2, 21}, x \in xs, y \in ys, z \in zs, w \in {25, 29}}

LocalPrograms ==
  OkPrograms \cup FaultPrograms({4, 7, 10, 11, 13, 14, 17}, {3, 7, 13, 16, 23},
                               {3, 8, 12, 17, 19, 29})
SocPrograms ==
  StallPrograms \cup FaultPrograms({7, 11, 13, 17}, {3, 16}, {8, 17, 19})

\* Jump to a line outside the memory.
JumpOutPrograms == With({2}, <<{23, 29}, {3}, {3}>>)
\* Jumps with a misaligned target.
MisalignedJumpPrograms == With({2}, <<{12}, {3}, {3}>>)

AllAtOnce == {Channels}
Stalling == {Channels, {}, {"AR", "AW"}, {"W"}}
=============================================================================
