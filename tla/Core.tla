--------------------------------- MODULE Core ---------------------------------
(***************************************************************************)
(* npc/rtl/core/Core.v: the four-stage in-order pipeline F, D, X, W of the *)
(* NPC core, composed with its fetch unit (Ifu), its bus (AxiBus), its CSR *)
(* file, its register file and its CLINT.                                  *)
(*                                                                         *)
(* All units share one clock: Clock(go) is one rising edge, the conjunction *)
(* of the always blocks of all units, each reading the wires of the        *)
(* current cycle.  A stage boundary is a packet with its valid bit; the    *)
(* data registers behind a cleared valid bit are never read, so an empty   *)
(* boundary is Bubble.  Wires keep the names of the source.                *)
(***************************************************************************)
EXTENDS Ifu, AxiBus

CONSTANTS
  GoSets,   \* the sets of channels on which the slave may progress in a cycle
  Programs  \* the initial memories

VARIABLES
  halted, trap_status,                     \* stop state of the core
  f_pc, ifu_pending, drop_fetch_response,  \* F stage
  fd, dx, xw,                              \* F/D, D/X and X/W boundaries
  csr, rf, mtime                           \* Csr.v, RegFile.v, Clint.v

coreVars == <<halted, trap_status, f_pc, ifu_pending, drop_fetch_response,
              fd, dx, xw, csr, rf, mtime>>
vars == <<coreVars, ifuVars, busVars>>

ASSUME GoSetsAssumption == GoSets \subseteq SUBSET Channels /\ Channels \in GoSets
ASSUME ProgramsAssumption == Programs \subseteq [BusOk -> Word]

Bubble == [valid |-> FALSE]

FdPacket == [valid: {TRUE}, pc: Word, word: Word, err: BOOLEAN]
DxPacket == [valid: {TRUE}, pc: Word, inst: Instr, err: BOOLEAN,
             rs1_data: Word, rs2_data: Word]
XwPacket == [valid: {TRUE}, pc: Word, inst: Instr, err: BOOLEAN,
             rs1_data: Word, rs2_data: Word, csr_rdata: Word,
             alu_result: Word, pc_exception: BOOLEAN, mem_misaligned: BOOLEAN,
             redirect: BOOLEAN, redirect_pc: Word]

\* Every register of the core and of its units holds a value of its width.
TypeOK ==
  /\ IfuTypeOK /\ BusTypeOK
  /\ halted \in BOOLEAN /\ trap_status \in {"RUNNING", "BAD"}
  /\ f_pc \in Word /\ ifu_pending \in BOOLEAN /\ drop_fetch_response \in BOOLEAN
  /\ fd \in FdPacket \cup {Bubble}
  /\ dx \in DxPacket \cup {Bubble}
  /\ xw \in XwPacket \cup {Bubble}
  /\ csr \in CsrFile /\ rf \in [Reg -> Word] /\ mtime \in 0 .. MtimePeriod - 1

Init ==
  /\ IfuInit /\ BusInit /\ mem \in Programs
  /\ halted = FALSE /\ trap_status = "RUNNING"
  /\ f_pc = ResetPc /\ ifu_pending = FALSE /\ drop_fetch_response = FALSE
  /\ fd = Bubble /\ dx = Bubble /\ xw = Bubble
  /\ csr = [mtvec |-> 0, mepc |-> 0, mcause |-> 0]
  /\ rf = [r \in Reg |-> 0] /\ mtime = 0

-----------------------------------------------------------------------------
(***************************************************************************)
(* X stage: shared adder, branch resolution, alignment.  Only read when    *)
(* dx is valid.                                                            *)
(***************************************************************************)
\* Branch and jal add to the pc; jalr, loads, stores and addi add to rs1.
adder_result ==
  Plus(IF dx.inst.op \in {"branch", "jal"} THEN dx.pc ELSE dx.rs1_data,
       IF dx.inst.op = "add" THEN dx.rs2_data ELSE dx.inst.imm)

x_jalr_target == adder_result - (adder_result % 2)

x_branch_taken == dx.inst.op = "branch" /\ dx.rs1_data = dx.rs2_data

x_redirect ==
  dx.valid /\ (dx.inst.op \in {"mret", "jalr", "jal"} \/ x_branch_taken)

x_redirect_pc ==
  CASE dx.inst.op = "mret" -> csr.mepc
    [] dx.inst.op = "jalr" -> x_jalr_target
    [] OTHER               -> adder_result

x_mem_misaligned ==
  (mem_ren(dx.inst) \/ mem_wen(dx.inst)) /\ adder_result % 4 # 0

x_pc_exception ==
  /\ dx.inst.legal
  /\ \/ (x_branch_taken \/ dx.inst.op = "jal") /\ adder_result % 4 # 0
     \/ dx.inst.op = "jalr" /\ x_jalr_target % 4 # 0

(***************************************************************************)
(* W stage: traps, memory access, retirement.                              *)
(***************************************************************************)
w_base_trap_request ==
  /\ xw.valid
  /\ \/ xw.err \/ ~xw.inst.legal \/ xw.pc_exception \/ xw.mem_misaligned
     \/ xw.inst.op \in {"ecall", "ebreak"}

\* An ebreak without a trap vector counts as complete (it has no effect).
w_can_complete_no_mem_fault ==
  /\ xw.valid /\ ~xw.err /\ xw.inst.legal
  /\ ~xw.mem_misaligned /\ ~xw.pc_exception /\ xw.inst.op # "ecall"
  /\ ~(w_base_trap_request /\ csr.mtvec # 0)

w_mem_access ==
  w_can_complete_no_mem_fault /\ (mem_ren(xw.inst) \/ mem_wen(xw.inst))

\* Lsu.v: the request of the instruction in W, at the word it addresses.
lsu_raw_valid == ~halted /\ w_mem_access
lsu_raw_addr == WordAddr(xw.alu_result)
lsu_is_clint == lsu_raw_valid /\ lsu_raw_addr \in Clint
lsu_arb_valid == lsu_raw_valid /\ ~lsu_is_clint
lsu_req ==
  [valid |-> lsu_arb_valid,
   write |-> lsu_arb_valid /\ mem_wen(xw.inst),
   addr  |-> IF lsu_arb_valid THEN lsu_raw_addr ELSE 0,
   wdata |-> IF lsu_arb_valid THEN xw.rs2_data ELSE 0]

lsu_raw_ready == lsu_is_clint \/ LsuAnswer(lsu_arb_valid).ready
lsu_raw_error == ~lsu_is_clint /\ LsuAnswer(lsu_arb_valid).error
lsu_rdata == IF lsu_is_clint THEN ClintRead(lsu_raw_addr, mtime) ELSE req_rdata

w_mem_access_fault == w_mem_access /\ lsu_raw_ready /\ lsu_raw_error
w_trap_request == w_base_trap_request \/ w_mem_access_fault
w_precise_trap == w_trap_request /\ csr.mtvec # 0
w_bad_without_vector == w_trap_request /\ csr.mtvec = 0
w_complete_inst == w_can_complete_no_mem_fault /\ ~w_mem_access_fault
\* Mutant: a store retires without waiting for its response.
w_mem_ready_posted == (w_mem_access /\ mem_ren(xw.inst)) => lsu_raw_ready
w_mem_ready == w_mem_access => lsu_raw_ready
w_retire_ready == ~halted /\ xw.valid /\ w_mem_ready
w_wb_wen ==
  w_complete_inst /\ w_mem_ready /\ writes_rd(xw.inst) /\ xw.inst.rd # 0

\* The causes of an instruction that was fetched, decoded and has a good target.
w_access_cause ==
  CASE mem_ren(xw.inst) /\ xw.mem_misaligned  -> ExcLoadMisaligned
    [] mem_wen(xw.inst) /\ xw.mem_misaligned  -> ExcStoreMisaligned
    [] mem_ren(xw.inst) /\ ~xw.mem_misaligned -> ExcLoadFault
    [] mem_wen(xw.inst) /\ ~xw.mem_misaligned -> ExcStoreFault
    [] xw.inst.op = "ecall"                   -> ExcEcall
    [] OTHER                                  -> ExcBreakpoint

\* Mutant: an illegal encoding hides the fetch error.
w_exception_cause_illegal_first ==
  IF ~xw.inst.legal THEN ExcIllegal
  ELSE IF xw.err THEN ExcInstFault
  ELSE IF xw.pc_exception THEN ExcInstMisaligned
  ELSE w_access_cause
w_exception_cause ==
  IF xw.err THEN ExcInstFault
  ELSE IF ~xw.inst.legal THEN ExcIllegal
  ELSE IF xw.pc_exception THEN ExcInstMisaligned
  ELSE w_access_cause

w_next_pc ==
  IF w_precise_trap THEN csr.mtvec
  ELSE IF w_bad_without_vector THEN xw.pc
  ELSE Plus(xw.pc, 4)

wb_data ==
  CASE mem_ren(xw.inst)              -> lsu_rdata
    [] csr_cmd(xw.inst)              -> xw.csr_rdata
    [] xw.inst.op \in {"jal", "jalr"} -> Plus(xw.pc, 4)
    [] OTHER                         -> xw.alu_result

(***************************************************************************)
(* D stage: decode, register read and forwarding from W.                   *)
(***************************************************************************)
d_inst == Decode[fd.word]
w_rs1_match == xw.valid /\ reads_rs1(d_inst) /\ xw.inst.rd = d_inst.rs1
w_rs2_match == xw.valid /\ reads_rs2(d_inst) /\ xw.inst.rd = d_inst.rs2
\* Mutant: no forwarding from W.
d_rs1_data_no_forward == RegRead(rf, d_inst.rs1)
d_rs1_data ==
  IF w_wb_wen /\ w_rs1_match THEN wb_data ELSE RegRead(rf, d_inst.rs1)
d_rs2_data ==
  IF w_wb_wen /\ w_rs2_match THEN wb_data ELSE RegRead(rf, d_inst.rs2)

(***************************************************************************)
(* Stall and advance.                                                      *)
(***************************************************************************)
w_stage_stall == xw.valid /\ ~w_mem_ready
load_use_stall ==
  /\ w_stage_stall /\ mem_ren(xw.inst) /\ writes_rd(xw.inst)
  /\ fd.valid /\ (w_rs1_match \/ w_rs2_match)
x_can_advance == dx.valid /\ ~w_stage_stall /\ (~xw.valid \/ w_retire_ready)
d_can_advance ==
  fd.valid /\ ~w_stage_stall /\ ~load_use_stall /\ (~dx.valid \/ x_can_advance)
fd_can_accept == ~fd.valid \/ d_can_advance
ifu_invalidate == w_retire_ready /\ w_complete_inst /\ xw.inst.op = "fence_i"
\* Mutant: a halting trap does not flush the younger instructions.
w_redirect_not_on_halt == w_retire_ready /\ (w_precise_trap \/ ifu_invalidate)
w_redirect ==
  w_retire_ready /\ (w_precise_trap \/ w_bad_without_vector \/ ifu_invalidate)

\* The fetch of this cycle and the fetch unit's answer.
\* Mutant: fetches while F/D still holds an instruction.
ifu_fetch_valid_over_fd ==
  ~halted /\ ~drop_fetch_response /\ ~x_redirect /\ ~w_redirect
ifu_fetch_valid ==
  ~halted /\ ~fd.valid /\ ~drop_fetch_response /\ ~x_redirect /\ ~w_redirect
ifu_bus == IfuAnswer(lsu_arb_valid, ifu_bus_valid)
ifu_inst_ready == inst_ready(ifu_fetch_valid, f_pc, ifu_bus)

-----------------------------------------------------------------------------
(***************************************************************************)
(* The always block of Core.v, part by part.                               *)
(***************************************************************************)
\* Mutant: a new fetch wins over the response of this cycle.
PendingClock_fetch_first ==
  ifu_pending' = (ifu_fetch_valid \/ (ifu_pending /\ ~ifu_inst_ready))
PendingClock ==
  ifu_pending' = (~ifu_inst_ready /\ (ifu_fetch_valid \/ ifu_pending))

\* A response still outstanding at a redirect belongs to the old path.
\* Mutant: the outstanding response is not marked.
FetchRedirect_no_drop(target) ==
  /\ f_pc' = target
  /\ fd' = Bubble
  /\ UNCHANGED drop_fetch_response
FetchRedirect(target) ==
  /\ f_pc' = target
  /\ fd' = Bubble
  /\ drop_fetch_response' = (ifu_pending /\ ~ifu_inst_ready)

\* Mutant: the mark outlives the dropped response.
FetchDrop_sticky ==
  /\ ifu_inst_ready /\ drop_fetch_response
  /\ UNCHANGED <<f_pc, fd, drop_fetch_response>>

FetchDrop ==
  /\ ifu_inst_ready /\ drop_fetch_response
  /\ drop_fetch_response' = FALSE
  /\ UNCHANGED <<f_pc, fd>>

FetchAccept ==
  /\ ifu_inst_ready /\ ~drop_fetch_response /\ fd_can_accept
  /\ fd' = [valid |-> TRUE, pc |-> f_pc, word |-> inst(f_pc, ifu_bus),
            err |-> inst_error(ifu_bus)]
  /\ f_pc' = Plus(f_pc, 4)
  /\ UNCHANGED drop_fetch_response

FetchNone ==
  /\ ~(ifu_inst_ready /\ (drop_fetch_response \/ fd_can_accept))
  /\ fd' = IF d_can_advance THEN Bubble ELSE fd
  /\ UNCHANGED <<f_pc, drop_fetch_response>>

\* Traps and fence.i in W have priority over branches in X.
FetchClock ==
  \/ w_redirect /\ FetchRedirect(w_next_pc)
  \/ ~w_redirect /\ x_redirect /\ FetchRedirect(x_redirect_pc)
  \/ ~w_redirect /\ ~x_redirect /\ (FetchDrop \/ FetchAccept \/ FetchNone)

HaltClock ==
  LET bad == w_retire_ready /\ w_bad_without_vector IN
  /\ halted' = (halted \/ bad)
  /\ trap_status' = IF bad THEN "BAD" ELSE trap_status

DxClock ==
  dx' = IF w_redirect \/ x_redirect THEN Bubble
        ELSE IF w_stage_stall \/ load_use_stall THEN dx
        ELSE IF d_can_advance
        THEN [valid |-> TRUE, pc |-> fd.pc, inst |-> d_inst, err |-> fd.err,
              rs1_data |-> d_rs1_data, rs2_data |-> d_rs2_data]
        ELSE IF x_can_advance THEN Bubble
        ELSE dx

XwClock ==
  xw' = IF w_redirect THEN Bubble
        ELSE IF w_stage_stall THEN xw
        ELSE IF x_can_advance
        THEN [valid |-> TRUE, pc |-> dx.pc, inst |-> dx.inst, err |-> dx.err,
              rs1_data |-> dx.rs1_data, rs2_data |-> dx.rs2_data,
              csr_rdata |-> CsrRead(csr, dx.inst.csr),
              alu_result |-> adder_result,
              pc_exception |-> x_pc_exception,
              mem_misaligned |-> x_mem_misaligned,
              redirect |-> x_redirect, redirect_pc |-> x_redirect_pc]
        ELSE IF w_retire_ready THEN Bubble
        ELSE xw

(***************************************************************************)
(* Csr.v has one port, given to X when X is valid and to W otherwise; a    *)
(* trap wins over a CSR instruction.                                       *)
(***************************************************************************)
CsrPort == IF dx.valid THEN dx ELSE xw
CsrClock ==
  csr' = IF w_retire_ready /\ w_precise_trap
         THEN CsrTrap(csr, xw.pc, w_exception_cause)
         ELSE IF w_retire_ready /\ w_complete_inst /\ csr_cmd(xw.inst)
                 /\ csr_cmd(CsrPort.inst)
         THEN CsrNext(csr, CsrPort.inst, CsrPort.rs1_data)
         ELSE csr

RegFileClock ==
  rf' = IF ~halted /\ w_wb_wen THEN RegWrite(rf, xw.inst.rd, wb_data) ELSE rf

ClintClock == mtime' = (mtime + 1) % MtimePeriod

\* One rising clock edge of the whole core.
Clock(go) ==
  /\ PendingClock /\ FetchClock /\ HaltClock /\ DxClock /\ XwClock
  /\ CsrClock /\ RegFileClock /\ ClintClock
  /\ IfuClock(ifu_fetch_valid, f_pc, ifu_invalidate, ifu_bus)
  /\ MasterClock(Arbiter(lsu_req, ifu_bus_valid, ifu_bus_addr), go)
  /\ SlaveReadClock(go) /\ SlaveWriteClock(go)

Next == \E go \in GoSets : Clock(go)

Spec == Init /\ [][Next]_vars

\* The slave is not stalled on every channel for ever.
FairSpec == Spec /\ WF_vars(Clock(Channels))

(***************************************************************************)
(* Debug outputs of the core (NPC_DEBUG): the architectural pc, and the    *)
(* next pc reported with a commit.                                         *)
(***************************************************************************)
debug_pc ==
  IF xw.valid THEN xw.pc
  ELSE IF dx.valid THEN dx.pc
  ELSE IF fd.valid THEN fd.pc
  ELSE f_pc

\* Mutant: the redirect of a branch is not reported.
commit_next_pc_sequential == w_next_pc
commit_next_pc == IF xw.redirect THEN xw.redirect_pc ELSE w_next_pc

\* A store is reported also when the bus answered it with an error.
commit_mem_wen == w_retire_ready /\ w_can_complete_no_mem_fault /\ mem_wen(xw.inst)
commit_mem_ren == w_retire_ready /\ w_complete_inst /\ mem_ren(xw.inst)

-----------------------------------------------------------------------------
(***************************************************************************)
(* Adjacent boundaries are never valid together.  D has no forwarding from *)
(* X, the CSR port is shared by X and W, and a branch in X redirects       *)
(* without looking at a stall in W: all three rely on this.                *)
(***************************************************************************)
StagesApart == ~(fd.valid /\ dx.valid) /\ ~(dx.valid /\ xw.valid)

(***************************************************************************)
(* ifu_pending tracks the fetch unit's refill, nothing behind the fetch is *)
(* waiting in F/D or D/X meanwhile, and a response is only ever dropped    *)
(* when one is outstanding.                                                *)
(***************************************************************************)
PendingIsRefill ==
  /\ ifu_pending <=> ifu.state = "REFILL"
  /\ ifu_pending => ~fd.valid /\ ~dx.valid
  /\ drop_fetch_response => ifu_pending

(***************************************************************************)
(* The arbiter has no owner register (AxiArbiter.v lines 27-42): whoever   *)
(* is valid now gets the answer.  While the master serves a refill no load *)
(* or store may turn up, and the fetch unit and the master must agree on   *)
(* the address and on the number of beats passed.                          *)
(***************************************************************************)
RefillOwnsBus ==
  (axi.state \in {"READ_ADDR", "READ_DATA"} /\ axi.len # 0)
    => /\ ifu.state = "REFILL" /\ ~xw.valid
       /\ axi.addr = ifu_bus_addr /\ axi.beat = ifu.beat /\ axi.error = ifu.error

(***************************************************************************)
(* While the master serves a load or a store, that instruction is in W and *)
(* still asks for the same access.                                         *)
(***************************************************************************)
LsuOwnsBus ==
  (axi.state # "IDLE" /\ axi.len = 0)
    => /\ lsu_arb_valid /\ axi.addr = lsu_raw_addr
       /\ mem_wen(xw.inst) <=> axi.state \in {"WRITE_REQ", "WRITE_RESP"}

(***************************************************************************)
(* A halted core holds no instruction, and a fetch that was outstanding    *)
(* when it halted is going to be dropped (Core.v lines 705-732).           *)
(***************************************************************************)
HaltedIsEmpty ==
  halted => /\ ~fd.valid /\ ~dx.valid /\ ~xw.valid
            /\ ifu_pending => drop_fetch_response

(***************************************************************************)
(* The master counts the beats of a burst itself and also ends it with     *)
(* rlast (AxiMaster.v line 65): master and slave agree on the length and   *)
(* the beat, and the counters are back at zero for the next transaction.   *)
(***************************************************************************)
BurstInStep ==
  /\ axi.len \in {0, LineWords - 1}
  /\ axi.state \notin {"READ_ADDR", "READ_DATA"} => axi.len = 0
  /\ axi.state # "READ_DATA" => axi.beat = 0 /\ ~axi.error
  /\ axi.state = "READ_DATA" =>
       rch.busy /\ rch.len = axi.len /\ rch.beat = axi.beat /\ axi.beat <= axi.len

\* A refill that the bus has not taken up yet starts from the first beat.
RefillFresh ==
  (ifu.state = "REFILL" /\ axi.len = 0) => ifu.beat = 0 /\ ~ifu.error
=============================================================================
