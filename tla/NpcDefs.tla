------------------------------- MODULE NpcDefs -------------------------------
(***************************************************************************)
(* Words, addresses, instructions and control predicates shared by the     *)
(* models of the NPC core (npc/rtl) and by the architectural specification *)
(* it implements.                                                          *)
(*                                                                         *)
(* A 32-bit word of the design is a number below Space, and all address    *)
(* and data arithmetic wraps at Space.  Addresses count bytes, so that     *)
(* alignment is kept.  What a word means as an instruction is the table    *)
(* Decode: the bit layout of RV32E is abstracted, the control signals that *)
(* Idu.v derives from it are not.                                          *)
(***************************************************************************)
EXTENDS Integers

CONSTANTS
  Space,        \* number of byte addresses and of word values (2^32 in the code)
  LineWords,    \* words of an instruction-cache line (4 in the code)
  NReg,         \* general-purpose registers (16 in RV32E)
  Decode,       \* what each word means as an instruction
  BusOk,        \* word addresses the bus serves without an error response
  Clint,        \* word addresses decoded by the CLINT inside the core
  Mtime,        \* the CLINT address that reads the timer
  MtimePeriod,  \* the timer counts modulo this bound
  ResetPc,      \* the reset vector
  BitOr(_, _)   \* bitwise or of two words

LineBytes == 4 * LineWords

Word == 0 .. Space - 1
Reg == 0 .. NReg - 1
Beat == 0 .. LineWords - 1

Ops == {"addi", "add", "load", "store", "branch", "jal", "jalr", "csrrw",
        "csrrs", "ecall", "ebreak", "mret", "fence_i", "none"}
Csrs == {"mtvec", "mepc", "mcause", "mvendorid"}

(***************************************************************************)
(* A decoded instruction.  legal is Idu's is_legal together with the RV32E *)
(* register check of the D stage: an instruction with a good opcode and    *)
(* register x16 keeps its op and is not legal.                             *)
(***************************************************************************)
Instr == [op: Ops, rd: Reg, rs1: Reg, rs2: Reg, imm: Word, csr: Csrs,
          legal: BOOLEAN]

Plus(a, b) == (a + b) % Space
WordAddr(a) == a - (a % 4)

ASSUME SizesAssumption ==
  /\ LineWords \in Nat /\ LineWords > 1
  /\ Space \in Nat /\ Space > 8 * LineWords /\ Space % (8 * LineWords) = 0
  /\ NReg \in Nat /\ NReg > 0
  /\ MtimePeriod \in Nat /\ MtimePeriod > 0 /\ MtimePeriod <= Space

ASSUME MapAssumption ==
  /\ BusOk \subseteq {a \in Word : a % 4 = 0}
  /\ Clint \subseteq {a \in Word : a % 4 = 0}
  /\ BusOk \cap Clint = {}
  /\ Mtime \in Word
  /\ ResetPc \in Word /\ ResetPc % 4 = 0

\* Memory is served line by line: a cache line is accessible as a whole.
ASSUME LinesAssumption ==
  \A a, b \in Word :
    (a % 4 = 0 /\ b % 4 = 0 /\ a \div LineBytes = b \div LineBytes)
      => (a \in BusOk <=> b \in BusOk)

ASSUME DecodeAssumption == Decode \in [Word -> Instr]
ASSUME BitOrAssumption == \A a, b \in Word : BitOr(a, b) \in Word

(***************************************************************************)
(* Idu.v: which operands an instruction reads and writes, and its class.   *)
(***************************************************************************)
reads_rs1(i) ==
  i.op \in {"addi", "add", "load", "store", "branch", "jalr", "csrrw", "csrrs"}
reads_rs2(i) == i.op \in {"add", "store", "branch"}
writes_rd(i) ==
  i.op \in {"addi", "add", "load", "jal", "jalr", "csrrw", "csrrs"}
mem_ren(i) == i.op = "load"
mem_wen(i) == i.op = "store"
csr_cmd(i) == i.op \in {"csrrw", "csrrs"}

(***************************************************************************)
(* npc_defines.vh: the synchronous exception causes.                       *)
(***************************************************************************)
ExcInstMisaligned  == 0
ExcInstFault       == 1
ExcIllegal         == 2
ExcBreakpoint      == 3
ExcLoadMisaligned  == 4
ExcLoadFault       == 5
ExcStoreMisaligned == 6
ExcStoreFault      == 7
ExcEcall           == 11

Causes == {ExcInstMisaligned, ExcInstFault, ExcIllegal, ExcBreakpoint,
           ExcLoadMisaligned, ExcLoadFault, ExcStoreMisaligned,
           ExcStoreFault, ExcEcall}

(***************************************************************************)
(* Csr.v: the three writable registers.  mtvec and mepc keep 4-byte        *)
(* aligned addresses, mvendorid (like marchid) reads zero and ignores      *)
(* writes.                                                                 *)
(***************************************************************************)
CsrFile == [mtvec: Word, mepc: Word, mcause: Word]

CsrRead(c, r) == IF r = "mvendorid" THEN 0 ELSE c[r]

CsrWrite(c, r, v) ==
  CASE r = "mtvec"  -> [c EXCEPT !.mtvec = WordAddr(v)]
    [] r = "mepc"   -> [c EXCEPT !.mepc = WordAddr(v)]
    [] r = "mcause" -> [c EXCEPT !.mcause = v]
    [] OTHER        -> c

\* What csrrw / csrrs writes; csrrs with a zero operand writes nothing.
CsrNext(c, i, src) ==
  IF i.op = "csrrw" THEN CsrWrite(c, i.csr, src)
  ELSE IF src # 0 THEN CsrWrite(c, i.csr, BitOr(CsrRead(c, i.csr), src))
  ELSE c

CsrTrap(c, pc, cause) == [c EXCEPT !.mepc = WordAddr(pc), !.mcause = cause]

\* RegFile.v: x0 reads zero and ignores writes.
RegRead(rf, r) == IF r = 0 THEN 0 ELSE rf[r]
RegWrite(rf, r, v) == IF r = 0 THEN rf ELSE [rf EXCEPT ![r] = v]

\* Clint.v: what a load from the CLINT returns when the timer shows t.
ClintRead(a, t) == IF a = Mtime THEN t ELSE 0
=============================================================================
