--------------------------------- MODULE Isa ---------------------------------
(***************************************************************************)
(* What the core promises to software: one instruction at a time, in       *)
(* program order, each either complete or replaced by a precise trap.      *)
(* Without a trap vector (mtvec = 0) a trap stops the machine.             *)
(*                                                                         *)
(* Instruction fetch is only ordered with stores by fence.i: the word      *)
(* fetched at an address is any value the address has had since the last   *)
(* fence.i.  fetchable records those values.                               *)
(***************************************************************************)
EXTENDS NpcDefs

CONSTANT Programs

VARIABLES pc, regs, csrs, memory, fetchable, stopped

isaVars == <<pc, regs, csrs, memory, fetchable, stopped>>

Init ==
  /\ memory \in Programs
  /\ fetchable = [a \in BusOk |-> {memory[a]}]
  /\ pc = ResetPc
  /\ regs = [r \in Reg |-> 0]
  /\ csrs = [mtvec |-> 0, mepc |-> 0, mcause |-> 0]
  /\ stopped = FALSE

Src1(i) == RegRead(regs, i.rs1)
Src2(i) == RegRead(regs, i.rs2)
Link == Plus(pc, 4)
Effective(i) == Plus(Src1(i), i.imm)

\* Where a taken control transfer goes.
Target(i) ==
  CASE i.op = "mret" -> csrs.mepc
    [] i.op = "jalr" -> LET t == Effective(i) IN t - (t % 2)
    [] OTHER         -> Plus(pc, i.imm)

Taken(i) ==
  \/ i.op \in {"jal", "jalr", "mret"}
  \/ i.op = "branch" /\ Src1(i) = Src2(i)

Trap(cause) ==
  /\ UNCHANGED <<regs, memory, fetchable>>
  /\ IF csrs.mtvec = 0
     THEN stopped' = TRUE /\ UNCHANGED <<pc, csrs>>
     ELSE /\ pc' = csrs.mtvec
          /\ csrs' = CsrTrap(csrs, pc, cause)
          /\ UNCHANGED stopped

\* A completed instruction that leaves memory alone.
Complete(next_pc, regs_, csrs_) ==
  /\ pc' = next_pc /\ regs' = regs_ /\ csrs' = csrs_
  /\ UNCHANGED <<memory, fetchable, stopped>>

-----------------------------------------------------------------------------
FetchFault == pc \notin BusOk /\ Trap(ExcInstFault)

Illegal(i) == ~i.legal /\ Trap(ExcIllegal)

Compute(i) ==
  /\ i.legal /\ i.op \in {"addi", "add", "none"}
  /\ LET v == IF i.op = "add" THEN Plus(Src1(i), Src2(i)) ELSE Effective(i) IN
     Complete(Link, IF i.op = "none" THEN regs ELSE RegWrite(regs, i.rd, v), csrs)

Transfer(i) ==
  /\ i.legal /\ i.op \in {"branch", "jal", "jalr", "mret"}
  /\ IF Taken(i) /\ Target(i) % 4 # 0
     THEN Trap(ExcInstMisaligned)
     ELSE Complete(IF Taken(i) THEN Target(i) ELSE Link,
                   IF i.op \in {"jal", "jalr"} THEN RegWrite(regs, i.rd, Link) ELSE regs,
                   csrs)

Load(i) ==
  LET a == Effective(i) IN
  /\ i.legal /\ i.op = "load"
  /\ \/ a % 4 # 0 /\ Trap(ExcLoadMisaligned)
     \/ /\ a \in Clint
        /\ \E t \in 0 .. MtimePeriod - 1 :
             Complete(Link, RegWrite(regs, i.rd, ClintRead(a, t)), csrs)
     \/ /\ a % 4 = 0 /\ a \notin Clint /\ a \notin BusOk
        /\ Trap(ExcLoadFault)
     \/ /\ a \notin Clint /\ a \in BusOk
        /\ Complete(Link, RegWrite(regs, i.rd, memory[a]), csrs)

Store(i) ==
  LET a == Effective(i) IN
  /\ i.legal /\ i.op = "store"
  /\ \/ a % 4 # 0 /\ Trap(ExcStoreMisaligned)
     \/ a \in Clint /\ Complete(Link, regs, csrs)
     \/ /\ a % 4 = 0 /\ a \notin Clint /\ a \notin BusOk
        /\ Trap(ExcStoreFault)
     \/ /\ a \notin Clint /\ a \in BusOk
        /\ memory' = [memory EXCEPT ![a] = Src2(i)]
        /\ fetchable' = [fetchable EXCEPT ![a] = @ \cup {Src2(i)}]
        /\ pc' = Link
        /\ UNCHANGED <<regs, csrs, stopped>>

CsrAccess(i) ==
  /\ i.legal /\ i.op \in {"csrrw", "csrrs"}
  /\ Complete(Link, RegWrite(regs, i.rd, CsrRead(csrs, i.csr)),
              CsrNext(csrs, i, Src1(i)))

Environment(i) ==
  /\ i.legal
  /\ \/ i.op = "ecall" /\ Trap(ExcEcall)
     \/ i.op = "ebreak" /\ Trap(ExcBreakpoint)

FenceI(i) ==
  /\ i.legal /\ i.op = "fence_i"
  /\ fetchable' = [a \in BusOk |-> {memory[a]}]
  /\ pc' = Link
  /\ UNCHANGED <<regs, csrs, memory, stopped>>

Execute(i) ==
  \/ Illegal(i) \/ Compute(i) \/ Transfer(i) \/ Load(i) \/ Store(i)
  \/ CsrAccess(i) \/ Environment(i) \/ FenceI(i)

Next ==
  /\ ~stopped
  /\ \/ FetchFault
     \/ pc \in BusOk /\ \E w \in fetchable[pc] : Execute(Decode[w])

Spec == Init /\ [][Next]_isaVars
=============================================================================
