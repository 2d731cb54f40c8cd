----------------------------- MODULE CoreProofs -----------------------------
(***************************************************************************)
(* Proofs about Core, and that it implements the architecture, for every   *)
(* word size, line length, register file, instruction table, memory map,   *)
(* program and slave timing.  The refinement holds as long as no failing   *)
(* refill finds a valid line in its set (the defect at Ifu.v line 186).    *)
(***************************************************************************)
EXTENDS CoreIsa, TLAPS

-----------------------------------------------------------------------------
(***************************************************************************)
(* Words and addresses.                                                    *)
(***************************************************************************)

\* Address arithmetic wraps within the word.
LEMMA PlusType ==
  ASSUME NEW a \in Word, NEW b \in Word PROVE Plus(a, b) \in Word
  BY SizesAssumption DEF Word, Plus

\* Clearing the two low bits of an address gives an address.
LEMMA WordAddrType ==
  ASSUME NEW a \in Word PROVE WordAddr(a) \in Word
  BY SizesAssumption DEF Word, WordAddr

\* Small constants (zero, four, the exception causes) are words.
LEMMA SmallWords == 0 .. 15 \subseteq Word
  BY SizesAssumption DEF Word

\* The index, offset and tag of a pc are in range.
LEMMA IndexType ==
  ASSUME NEW a \in Word PROVE Index(a) \in Sets
  BY SizesAssumption DEF Word, Index, LineBytes, Sets

\* The word a pc addresses within its line (Ifu.v line 53) is a beat of it.
LEMMA OffsetType ==
  ASSUME NEW a \in Word PROVE Offset(a) \in Beat
  BY SizesAssumption DEF Word, Offset, LineBytes, Beat

\* The tag of a pc (Ifu.v line 54) is a number.
LEMMA TagType ==
  ASSUME NEW a \in Word PROVE Tag(a) \in Nat
  BY SizesAssumption DEF Word, Tag, LineBytes

\* The start of the line of a pc (Ifu.v line 55) is an address.
LEMMA LineAddrType ==
  ASSUME NEW a \in Word PROVE LineAddr(a) \in Word
  BY SizesAssumption DEF Word, LineAddr, LineBytes

-----------------------------------------------------------------------------
(***************************************************************************)
(* The fetch unit.                                                         *)
(***************************************************************************)

\* The arbiter's answer to the fetch unit is well typed.
LEMMA IfuBusType == ASSUME TypeOK PROVE ifu_bus \in Answer
  BY DEF TypeOK, BusTypeOK, ifu_bus, IfuAnswer, Answer, req_rdata

\* Invalidating, filling and tagging a line keep it a line.
LEMMA InvalidatedType ==
  ASSUME NEW c \in [Sets -> Line], NEW inv
  PROVE  Invalidated(c, inv) \in [Sets -> Line]
  BY DEF Invalidated, Line

\* A beat written into a line (Ifu.v lines 166-182) leaves it a line.
LEMMA FilledType ==
  ASSUME IfuTypeOK, NEW line \in Line, NEW bus \in Answer
  PROVE  Filled(line, bus) \in Line
  BY DEF Filled, Line, Answer, IfuTypeOK

\* The valid bit and tag of the last beat (Ifu.v lines 186-194) leave a line.
LEMMA TaggedType ==
  ASSUME IfuTypeOK, NEW line \in Line, NEW inv \in BOOLEAN
  PROVE  Tagged(line, inv) \in Line
<1>1. Tag(ifu.miss) \in Nat /\ line.data \in [Beat -> Word] /\ (~inv) \in BOOLEAN
  BY TagType DEF Line, IfuTypeOK
<1> QED
  BY <1>1 DEF Tagged, Line

\* What the fetch unit delivers is a word.
LEMMA InstType ==
  ASSUME IfuTypeOK, NEW pc \in Word, NEW bus \in Answer
  PROVE  inst(pc, bus) \in Word
<1>1. ASSUME NEW a \in Word PROVE cache[Index(a)].data[Offset(a)] \in Word
  <2>1. cache[Index(a)] \in Line
    BY IndexType DEF IfuTypeOK
  <2> QED
    BY <2>1, OffsetType DEF Line
<1>2. ifu.miss \in Word /\ bus.rdata \in Word
  BY DEF IfuTypeOK, Answer
<1> QED
  BY <1>1, <1>2 DEF inst, refill_inst

\* A clock edge of Ifu.v keeps its registers well typed.
LEMMA IfuClockType ==
  ASSUME IfuTypeOK, NEW fetch_valid, NEW pc \in Word, NEW inv \in BOOLEAN,
         NEW bus \in Answer, IfuClock(fetch_valid, pc, inv, bus)
  PROVE  IfuTypeOK'
<1> DEFINE C == Invalidated(cache, inv)
           m == Index(ifu.miss)
<1>1. C \in [Sets -> Line] /\ m \in Sets /\ 0 \in Word /\ 0 \in Beat
  BY InvalidatedType, IndexType, SizesAssumption DEF IfuTypeOK, Beat, Word
<1>2. CASE IfuMiss(fetch_valid, pc, inv)
  BY <1>1, <1>2 DEF IfuMiss, IfuTypeOK
<1>3. CASE IfuBeat(inv, bus)
  <2>1. Filled(C[m], bus) \in Line
    BY <1>1, FilledType
  <2>2. cache' \in [Sets -> Line]
    BY <1>1, <1>3, <2>1 DEF IfuBeat
  <2>3. ifu.beat + 1 \in Beat
    BY <1>3, SizesAssumption DEF IfuBeat, refill_last, Beat, IfuTypeOK
  <2> QED
    BY <1>3, <2>2, <2>3 DEF IfuBeat, IfuTypeOK, refill_error, Answer
<1>4. CASE IfuLast(inv, bus)
  <2>1. Filled(C[m], bus) \in Line /\ Tagged(Filled(C[m], bus), inv) \in Line
    BY <1>1, FilledType, TaggedType
  <2>2. cache' \in [Sets -> Line]
    BY <1>1, <1>4, <2>1 DEF IfuLast
  <2> QED
    BY <1>1, <1>4, <2>2 DEF IfuLast, IfuTypeOK, IfuIdle
<1>5. CASE IfuHold(fetch_valid, pc, inv, bus)
  BY <1>1, <1>5 DEF IfuHold, IfuTypeOK
<1> QED
  BY <1>2, <1>3, <1>4, <1>5 DEF IfuClock

-----------------------------------------------------------------------------
(***************************************************************************)
(* The bus.                                                                *)
(***************************************************************************)

\* What the load and store unit asks for is a request of the bus.
LEMMA LsuReqType ==
  ASSUME TypeOK
  PROVE  lsu_req \in [valid: BOOLEAN, write: BOOLEAN, addr: Word, wdata: Word]
<1>1. lsu_arb_valid => xw \in XwPacket
  BY DEF TypeOK, Bubble, lsu_arb_valid, lsu_raw_valid, w_mem_access,
         w_can_complete_no_mem_fault
<1>2. lsu_arb_valid => lsu_raw_addr \in Word /\ xw.rs2_data \in Word
  BY <1>1, WordAddrType DEF lsu_raw_addr, XwPacket
<1>3. lsu_arb_valid \in BOOLEAN /\ mem_wen(xw.inst) \in BOOLEAN
  BY DEF lsu_arb_valid, mem_wen
<1> QED
  BY <1>2, <1>3, SmallWords DEF lsu_req

\* The arbiter forwards a request that the master can serve.
LEMMA ArbiterType ==
  ASSUME NEW lsu \in [valid: BOOLEAN, write: BOOLEAN, addr: Word, wdata: Word],
         NEW v \in BOOLEAN, NEW a \in Word
  PROVE  Arbiter(lsu, v, a) \in [valid: BOOLEAN, write: BOOLEAN, addr: Word,
                                 len: Beat, wdata: Word]
  BY SmallWords, SizesAssumption DEF Arbiter, Beat

\* A clock edge of AxiMaster.v keeps its registers well typed.
LEMMA MasterClockType ==
  ASSUME BusTypeOK, BurstInStep,
         NEW req \in [valid: BOOLEAN, write: BOOLEAN, addr: Word, len: Beat, wdata: Word],
         NEW go, MasterClock(req, go)
  PROVE  axi' \in [state: MasterStates, addr: Word, len: Beat, beat: Beat,
                   error: BOOLEAN, wdata: Word, aw_done: BOOLEAN, w_done: BOOLEAN]
<1>1. 0 \in Word /\ 0 \in Beat
  BY SmallWords, SizesAssumption DEF Beat
<1>2. CASE MasterStart(req)
  BY <1>1, <1>2 DEF MasterStart, MasterIdle, BusTypeOK, MasterStates
<1>3. CASE MasterReadAddr(go)
  BY <1>3 DEF MasterReadAddr, BusTypeOK, MasterStates
<1>4. CASE MasterReadData
  <2>1. (read_fire /\ ~read_last) => axi.beat + 1 \in Beat
    BY <1>4, SizesAssumption
    DEF MasterReadData, read_fire, read_last, BurstInStep, BusTypeOK, Beat
  <2> QED
    BY <1>1, <1>4, <2>1 DEF MasterReadData, MasterIdle, BusTypeOK, MasterStates
<1>5. CASE MasterWriteReq(go)
  BY <1>5 DEF MasterWriteReq, BusTypeOK, MasterStates
<1>6. CASE MasterWriteResp
  BY <1>1, <1>6 DEF MasterWriteResp, MasterIdle, BusTypeOK, MasterStates
<1> QED
  BY <1>2, <1>3, <1>4, <1>5, <1>6 DEF MasterClock

\* A beat that the slave puts on the R channel is well typed.
LEMMA ReadBeatType ==
  ASSUME BusTypeOK, NEW a \in Word, NEW b \in Beat, NEW l \in Beat, NEW go
  PROVE  ReadBeat(a, b, l, go) \in [busy: BOOLEAN, valid: BOOLEAN, addr: Word,
                                    beat: Beat, len: Beat, data: Word, error: BOOLEAN]
<1> DEFINE d == IF "R" \in go /\ a \in BusOk THEN mem[a] ELSE 0
<1>1. d \in Word
  BY SmallWords DEF BusTypeOK
<1> HIDE DEF d
<1>2. ("R" \in go) \in BOOLEAN /\ ("R" \in go /\ a \notin BusOk) \in BOOLEAN
  OBVIOUS
<1>3. ReadBeat(a, b, l, go) =
        [busy |-> TRUE, valid |-> "R" \in go, addr |-> a, beat |-> b, len |-> l,
         data |-> d, error |-> "R" \in go /\ a \notin BusOk]
  BY DEF ReadBeat, d
<1> QED
  BY <1>1, <1>2, <1>3

\* The slave's read side stays well typed.
LEMMA SlaveReadType ==
  ASSUME BusTypeOK, BurstInStep, NEW go, SlaveReadClock(go)
  PROVE  rch' \in [busy: BOOLEAN, valid: BOOLEAN, addr: Word, beat: Beat, len: Beat,
                   data: Word, error: BOOLEAN]
<1>1. 0 \in Word /\ 0 \in Beat /\ 4 \in Word
  BY SmallWords, SizesAssumption DEF Beat
<1>2. (read_fire /\ rch.beat # rch.len) => rch.beat + 1 \in Beat
  BY SizesAssumption DEF read_fire, BurstInStep, BusTypeOK, Beat
<1>3. axi.addr \in Word /\ axi.len \in Beat /\ rch.addr \in Word
        /\ rch.beat \in Beat /\ rch.len \in Beat /\ Plus(rch.addr, 4) \in Word
  BY <1>1, PlusType DEF BusTypeOK
<1>4. CASE ar_fire(go)
  BY <1>1, <1>3, <1>4, ReadBeatType DEF SlaveReadClock
<1>5. CASE ~ar_fire(go) /\ read_fire /\ rch.beat = rch.len
  BY <1>1, <1>5 DEF SlaveReadClock, ReadIdle
<1>6. CASE ~ar_fire(go) /\ read_fire /\ rch.beat # rch.len
  BY <1>2, <1>3, <1>6, ReadBeatType DEF SlaveReadClock
<1>7. CASE ~ar_fire(go) /\ ~read_fire
  BY <1>3, <1>7, ReadBeatType DEF SlaveReadClock, BusTypeOK
<1> QED
  BY <1>4, <1>5, <1>6, <1>7

\* The slave's write side and the memory stay well typed.
LEMMA SlaveWriteType ==
  ASSUME BusTypeOK, NEW go, SlaveWriteClock(go)
  PROVE  /\ wch' \in [aw: BOOLEAN, addr: Word, w: BOOLEAN, data: Word,
                      resp: {"none", "okay", "error"}, valid: BOOLEAN]
         /\ mem' \in [BusOk -> Word]
<1> DEFINE aw   == wch.aw \/ aw_fire(go)
           w    == wch.w \/ w_fire(go)
           addr == IF aw_fire(go) THEN axi.addr ELSE wch.addr
           data == IF w_fire(go) THEN axi.wdata ELSE wch.data
           now  == aw /\ w /\ wch.resp = "none"
<1>1. 0 \in Word /\ addr \in Word /\ data \in Word
  BY SmallWords DEF BusTypeOK
<1>2. aw \in BOOLEAN /\ w \in BOOLEAN
  OBVIOUS
<1>3. mem' = IF now /\ addr \in BusOk THEN [mem EXCEPT ![addr] = data] ELSE mem
  BY DEF SlaveWriteClock
<1>4. wch' = IF write_done THEN WriteIdle
             ELSE IF now
             THEN [WriteIdle EXCEPT !.resp = IF addr \in BusOk THEN "okay" ELSE "error",
                                    !.valid = "B" \in go]
             ELSE [aw |-> aw, addr |-> addr, w |-> w, data |-> data, resp |-> wch.resp,
                   valid |-> wch.valid \/ (wch.resp # "none" /\ "B" \in go)]
  BY DEF SlaveWriteClock
<1> HIDE DEF aw, w, addr, data, now
<1>5. mem' \in [BusOk -> Word]
  BY <1>1, <1>3 DEF BusTypeOK
<1> DEFINE v == wch.valid \/ (wch.resp # "none" /\ "B" \in go)
<1>6. v \in BOOLEAN /\ ("B" \in go) \in BOOLEAN
  OBVIOUS
<1>7. CASE write_done
  BY <1>1, <1>4, <1>5, <1>7 DEF WriteIdle
<1>8. CASE ~write_done /\ now
  BY <1>1, <1>4, <1>5, <1>6, <1>8 DEF WriteIdle
<1>9. CASE ~write_done /\ ~now
  <2>1. wch' = [aw |-> aw, addr |-> addr, w |-> w, data |-> data,
                resp |-> wch.resp, valid |-> v]
    BY <1>4, <1>9
  <2>2. wch.resp \in {"none", "okay", "error"}
    BY DEF BusTypeOK
  <2> HIDE DEF v
  <2> QED
    BY <1>1, <1>2, <1>5, <1>6, <2>1, <2>2
<1> QED
  BY <1>7, <1>8, <1>9

-----------------------------------------------------------------------------
(***************************************************************************)
(* The pipeline.                                                           *)
(***************************************************************************)

\* The operands D reads from the register file are words.
LEMMA RegReadType ==
  ASSUME TypeOK, NEW r \in Reg PROVE RegRead(rf, r) \in Word
  BY SmallWords DEF TypeOK, RegRead

\* A valid boundary holds a packet.
LEMMA PacketType ==
  ASSUME TypeOK
  PROVE  /\ fd.valid => fd \in FdPacket
         /\ dx.valid => dx \in DxPacket
         /\ xw.valid => xw \in XwPacket
  BY DEF TypeOK, Bubble

\* What W writes back and forwards is a word.
LEMMA WbDataType ==
  ASSUME TypeOK, xw.valid PROVE wb_data \in Word
<1>1. xw \in XwPacket
  BY PacketType
<1>2. xw.csr_rdata \in Word /\ xw.alu_result \in Word /\ xw.pc \in Word
  BY <1>1 DEF XwPacket
<1>3. Plus(xw.pc, 4) \in Word
  BY <1>2, PlusType, SmallWords
<1>4. mtime \in Word /\ 0 \in Word
  BY SizesAssumption DEF TypeOK, Word
<1>5. lsu_rdata \in Word
  BY <1>4 DEF lsu_rdata, ClintRead, req_rdata, TypeOK, BusTypeOK
<1> QED
  BY <1>2, <1>3, <1>5 DEF wb_data

\* The result of the shared adder, and the redirect target, are words.
LEMMA AdderType ==
  ASSUME TypeOK, dx.valid
  PROVE  adder_result \in Word /\ x_redirect_pc \in Word
<1>1. dx \in DxPacket
  BY PacketType
<1>2. dx.pc \in Word /\ dx.rs1_data \in Word /\ dx.rs2_data \in Word
        /\ dx.inst.imm \in Word
  BY <1>1 DEF DxPacket, Instr
<1>3. adder_result \in Word
  BY <1>2, PlusType DEF adder_result
<1>4. x_jalr_target \in Word
  BY <1>3, SizesAssumption DEF x_jalr_target, Word
<1>5. csr.mepc \in Word
  BY DEF TypeOK, CsrFile
<1> QED
  BY <1>3, <1>4, <1>5 DEF x_redirect_pc

\* F stage and F/D boundary.
LEMMA FetchType ==
  ASSUME TypeOK, FetchClock
  PROVE  f_pc' \in Word /\ drop_fetch_response' \in BOOLEAN
         /\ fd' \in FdPacket \cup {Bubble}
<1>1. f_pc \in Word /\ drop_fetch_response \in BOOLEAN /\ fd \in FdPacket \cup {Bubble}
  BY DEF TypeOK
<1>2. ASSUME NEW t \in Word, FetchRedirect(t)
      PROVE  f_pc' \in Word /\ drop_fetch_response' \in BOOLEAN
             /\ fd' \in FdPacket \cup {Bubble}
  BY <1>2 DEF FetchRedirect
<1>3. CASE w_redirect /\ FetchRedirect(w_next_pc)
  <2>1. xw \in XwPacket
    BY <1>3, PacketType DEF w_redirect, w_retire_ready
  <2>2. csr.mtvec \in Word /\ xw.pc \in Word /\ Plus(xw.pc, 4) \in Word
    BY <2>1, PlusType, SmallWords DEF TypeOK, CsrFile, XwPacket
  <2>3. w_next_pc \in Word
    BY <2>2 DEF w_next_pc
  <2> QED
    BY <1>2, <1>3, <2>3
<1>4. CASE ~w_redirect /\ x_redirect /\ FetchRedirect(x_redirect_pc)
  BY <1>2, <1>4, AdderType DEF x_redirect
<1>5. CASE FetchDrop
  BY <1>1, <1>5 DEF FetchDrop
<1>6. CASE FetchAccept
  <2> DEFINE word == inst(f_pc, ifu_bus)
             err == inst_error(ifu_bus)
  <2>1. word \in Word /\ err \in BOOLEAN /\ Plus(f_pc, 4) \in Word
    BY <1>1, InstType, IfuBusType, PlusType, SmallWords DEF TypeOK, inst_error
  <2>2. fd' = [valid |-> TRUE, pc |-> f_pc, word |-> word, err |-> err]
          /\ f_pc' = Plus(f_pc, 4) /\ drop_fetch_response' = drop_fetch_response
    BY <1>6 DEF FetchAccept
  <2> HIDE DEF word, err
  <2> QED
    BY <1>1, <2>1, <2>2 DEF FdPacket
<1>7. CASE FetchNone
  BY <1>1, <1>7 DEF FetchNone
<1> QED
  BY <1>3, <1>4, <1>5, <1>6, <1>7 DEF FetchClock

\* D/X boundary.
LEMMA DxType == ASSUME TypeOK, DxClock PROVE dx' \in DxPacket \cup {Bubble}
<1>1. CASE fd.valid
  <2>1. fd.pc \in Word /\ fd.word \in Word /\ fd.err \in BOOLEAN
    BY <1>1, PacketType DEF FdPacket
  <2>2. d_inst \in Instr
    BY <2>1, DecodeAssumption DEF d_inst
  <2>3. RegRead(rf, d_inst.rs1) \in Word /\ RegRead(rf, d_inst.rs2) \in Word
    BY <2>2, RegReadType DEF Instr
  <2>4. w_wb_wen => wb_data \in Word
    BY WbDataType DEF w_wb_wen, w_complete_inst, w_can_complete_no_mem_fault
  <2>5. d_rs1_data \in Word /\ d_rs2_data \in Word
    BY <2>3, <2>4 DEF d_rs1_data, d_rs2_data
  <2>6. [valid |-> TRUE, pc |-> fd.pc, inst |-> d_inst, err |-> fd.err,
         rs1_data |-> d_rs1_data, rs2_data |-> d_rs2_data] \in DxPacket
    BY <2>1, <2>2, <2>5 DEF DxPacket
  <2> QED
    BY <2>6 DEF DxClock, TypeOK
<1>2. CASE ~fd.valid
  BY <1>2 DEF DxClock, TypeOK, d_can_advance
<1> QED
  BY <1>1, <1>2

\* X/W boundary.
LEMMA XwType == ASSUME TypeOK, XwClock PROVE xw' \in XwPacket \cup {Bubble}
<1>1. CASE dx.valid
  <2>1. dx \in DxPacket
    BY <1>1, PacketType
  <2>2. dx.pc \in Word /\ dx.inst \in Instr /\ dx.err \in BOOLEAN
          /\ dx.rs1_data \in Word /\ dx.rs2_data \in Word
    BY <2>1 DEF DxPacket
  <2>3. CsrRead(csr, dx.inst.csr) \in Word
    BY <2>2, SmallWords DEF CsrRead, TypeOK, CsrFile, Instr, Csrs
  <2>4. adder_result \in Word /\ x_redirect_pc \in Word
    BY <1>1, AdderType
  <2>5. x_pc_exception \in BOOLEAN /\ x_mem_misaligned \in BOOLEAN /\ x_redirect \in BOOLEAN
    BY DEF x_pc_exception, x_mem_misaligned, x_redirect
  <2>6. [valid |-> TRUE, pc |-> dx.pc, inst |-> dx.inst, err |-> dx.err,
         rs1_data |-> dx.rs1_data, rs2_data |-> dx.rs2_data,
         csr_rdata |-> CsrRead(csr, dx.inst.csr), alu_result |-> adder_result,
         pc_exception |-> x_pc_exception, mem_misaligned |-> x_mem_misaligned,
         redirect |-> x_redirect, redirect_pc |-> x_redirect_pc] \in XwPacket
    BY <2>2, <2>3, <2>4, <2>5 DEF XwPacket
  <2> QED
    BY <2>6 DEF XwClock, TypeOK
<1>2. CASE ~dx.valid
  BY <1>2 DEF XwClock, TypeOK, x_can_advance
<1> QED
  BY <1>1, <1>2

\* A CSR instruction or a trap leaves words in the CSR file.
LEMMA CsrWriteType ==
  ASSUME NEW c \in CsrFile, NEW r, NEW v \in Word PROVE CsrWrite(c, r, v) \in CsrFile
  BY WordAddrType DEF CsrWrite, CsrFile

\* A trap entry or a CSR instruction (Csr.v lines 52-61) keeps the CSRs words.
LEMMA CsrType == ASSUME TypeOK, CsrClock PROVE csr' \in CsrFile
<1>1. csr \in CsrFile
  BY DEF TypeOK
<1>2. CASE w_retire_ready /\ w_precise_trap
  <2>1. xw.pc \in Word
    BY <1>2, PacketType DEF w_retire_ready, XwPacket
  <2>2. w_exception_cause \in Word
    BY SmallWords DEF w_exception_cause, w_access_cause, ExcInstFault, ExcIllegal,
       ExcInstMisaligned, ExcLoadMisaligned, ExcStoreMisaligned, ExcLoadFault,
       ExcStoreFault, ExcEcall, ExcBreakpoint
  <2>3. csr' = CsrTrap(csr, xw.pc, w_exception_cause)
    BY <1>2 DEF CsrClock
  <2>4. CsrTrap(csr, xw.pc, w_exception_cause) \in CsrFile
    BY <1>1, <2>1, <2>2, WordAddrType DEF CsrTrap, CsrFile
  <2> QED
    BY <2>3, <2>4
<1>3. CASE /\ ~(w_retire_ready /\ w_precise_trap)
           /\ w_retire_ready /\ w_complete_inst /\ csr_cmd(xw.inst)
           /\ csr_cmd(CsrPort.inst)
  <2> DEFINE i == CsrPort.inst
             src == CsrPort.rs1_data
  <2>1. xw \in XwPacket
    BY <1>3, PacketType DEF w_retire_ready
  <2>2. src \in Word /\ i \in Instr
    BY <2>1, PacketType DEF CsrPort, XwPacket, DxPacket
  <2>3. CsrRead(csr, i.csr) \in Word
    BY <1>1, <2>2, SmallWords DEF CsrRead, CsrFile, Instr, Csrs
  <2>4. BitOr(CsrRead(csr, i.csr), src) \in Word
    BY <2>2, <2>3, BitOrAssumption
  <2>5. csr' = CsrNext(csr, i, src)
    BY <1>3 DEF CsrClock
  <2> HIDE DEF i, src
  <2> QED
    BY <1>1, <2>2, <2>4, <2>5, CsrWriteType DEF CsrNext
<1>4. CASE /\ ~(w_retire_ready /\ w_precise_trap)
           /\ ~(w_retire_ready /\ w_complete_inst /\ csr_cmd(xw.inst)
                  /\ csr_cmd(CsrPort.inst))
  BY <1>1, <1>4 DEF CsrClock
<1> QED
  BY <1>2, <1>3, <1>4

\* The write port of the register file (RegFile.v lines 36-44) stores words.
LEMMA RegFileType == ASSUME TypeOK, RegFileClock PROVE rf' \in [Reg -> Word]
<1>1. w_wb_wen => wb_data \in Word
  BY WbDataType DEF w_wb_wen, w_complete_inst, w_can_complete_no_mem_fault
<1> QED
  BY <1>1 DEF RegFileClock, RegWrite, TypeOK

-----------------------------------------------------------------------------
(***************************************************************************)
(* The inductive invariant.  Each conjunct needs some of the others: types *)
(* need the beat counters in step, the stages stay apart because a fetch   *)
(* response only arrives while the boundaries before X are empty, and the  *)
(* bus keeps its owner because the owner's instruction cannot leave W.     *)
(***************************************************************************)
IInv ==
  /\ TypeOK
  /\ StagesApart /\ PendingIsRefill /\ HaltedIsEmpty
  /\ BurstInStep /\ RefillFresh /\ RefillOwnsBus /\ LsuOwnsBus

\* A clock edge of the whole core (Core.v lines 686-812) keeps TypeOK.
LEMMA TypeStep ==
  ASSUME IInv, NEW go \in GoSets, Clock(go) PROVE TypeOK'
<1>1. IfuTypeOK'
  <2>1. ifu_bus \in Answer /\ f_pc \in Word /\ ifu_invalidate \in BOOLEAN /\ IfuTypeOK
    BY IfuBusType DEF IInv, TypeOK, ifu_invalidate
  <2> QED
    BY <2>1, IfuClockType DEF Clock
<1>2. BusTypeOK'
  <2> DEFINE req == Arbiter(lsu_req, ifu_bus_valid, ifu_bus_addr)
  <2>1. ifu_bus_valid \in BOOLEAN /\ ifu_bus_addr \in Word
    BY LineAddrType DEF IInv, TypeOK, IfuTypeOK, ifu_bus_valid, ifu_bus_addr
  <2>2. req \in [valid: BOOLEAN, write: BOOLEAN, addr: Word, len: Beat, wdata: Word]
    BY <2>1, LsuReqType, ArbiterType DEF IInv
  <2>3. BusTypeOK /\ BurstInStep /\ MasterClock(req, go) /\ SlaveReadClock(go)
          /\ SlaveWriteClock(go)
    BY DEF IInv, TypeOK, Clock
  <2> HIDE DEF req
  <2> QED
    BY <2>2, <2>3, MasterClockType, SlaveReadType, SlaveWriteType DEF BusTypeOK
<1>3. halted' \in BOOLEAN /\ trap_status' \in {"RUNNING", "BAD"}
  BY DEF IInv, TypeOK, Clock, HaltClock
<1>4. ifu_pending' \in BOOLEAN
  BY DEF Clock, PendingClock
<1>5. f_pc' \in Word /\ drop_fetch_response' \in BOOLEAN /\ fd' \in FdPacket \cup {Bubble}
  BY FetchType DEF IInv, Clock
<1>6. dx' \in DxPacket \cup {Bubble} /\ xw' \in XwPacket \cup {Bubble}
  BY DxType, XwType DEF IInv, Clock
<1>7. csr' \in CsrFile /\ rf' \in [Reg -> Word]
  BY CsrType, RegFileType DEF IInv, Clock
<1>8. mtime' \in 0 .. MtimePeriod - 1
  BY SizesAssumption DEF IInv, TypeOK, Clock, ClintClock
<1> QED
  BY <1>1, <1>2, <1>3, <1>4, <1>5, <1>6, <1>7, <1>8 DEF TypeOK

(***************************************************************************)
(* What the stages do in one cycle, in terms of the valid bits alone.      *)
(***************************************************************************)

\* An instruction that waits in W stays there; nothing else does.
LEMMA WStage ==
  ASSUME IInv, NEW go \in GoSets, Clock(go)
  PROVE  /\ w_stage_stall => xw' = xw /\ dx' = dx /\ ~w_redirect /\ ~w_retire_ready
         /\ (xw.valid /\ ~w_stage_stall) => w_retire_ready
         /\ (~w_stage_stall /\ ~dx.valid) => ~xw'.valid
<1>1. w_stage_stall => ~w_redirect /\ ~w_retire_ready /\ ~dx.valid /\ ~x_redirect
  BY DEF IInv, StagesApart, w_stage_stall, w_redirect, w_retire_ready, x_redirect
<1>2. (xw.valid /\ ~w_stage_stall) => w_retire_ready
  BY DEF IInv, HaltedIsEmpty, w_stage_stall, w_retire_ready
<1>3. w_stage_stall => xw' = xw /\ dx' = dx
  BY <1>1 DEF Clock, XwClock, DxClock
<1>4. (~w_stage_stall /\ ~dx.valid) => ~xw'.valid
  BY <1>2 DEF Clock, XwClock, x_can_advance, Bubble
<1> QED
  BY <1>1, <1>2, <1>3, <1>4

\* An instruction in X leaves X.
LEMMA XStage ==
  ASSUME IInv, NEW go \in GoSets, Clock(go), dx.valid
  PROVE  ~dx'.valid /\ ~fd.valid /\ ~xw.valid
<1>1. ~fd.valid /\ ~xw.valid
  BY DEF IInv, StagesApart
<1>2. x_can_advance /\ ~d_can_advance /\ ~w_stage_stall /\ ~load_use_stall
  BY <1>1 DEF x_can_advance, d_can_advance, w_stage_stall, load_use_stall
<1> QED
  BY <1>1, <1>2 DEF Clock, DxClock, Bubble

\* A response is delivered only when F/D is empty, and after a refill D/X too.
LEMMA Response ==
  ASSUME IInv, ifu_inst_ready
  PROVE  /\ ~fd.valid
         /\ ifu.state = "IDLE" => ifu_fetch_valid
         /\ ifu.state = "REFILL" => ~dx.valid /\ ifu_pending
  BY DEF IInv, PendingIsRefill, ifu_inst_ready, inst_ready, ifu_fetch_valid,
         refill_last, refill_fire

\* A clock edge never fills two adjacent stages: F only fetches into an
\* empty F/D (Core.v line 413) and D only advances as X empties (line 394).
LEMMA StagesApartStep ==
  ASSUME IInv, NEW go \in GoSets, Clock(go) PROVE StagesApart'
<1>1. ~(fd'.valid /\ dx'.valid)
  <2>1. CASE dx.valid
    BY <2>1, XStage
  <2>2. CASE ~dx.valid /\ fd'.valid
    <3>1. ~w_redirect /\ ~x_redirect /\ (FetchDrop \/ FetchAccept \/ FetchNone)
      BY <2>2 DEF Clock, FetchClock, FetchRedirect, Bubble
    <3>2. CASE FetchDrop
      BY <2>2, <3>2, Response DEF FetchDrop
    <3>3. CASE FetchAccept
      BY <2>2, <3>3, Response DEF FetchAccept, Clock, DxClock, d_can_advance, Bubble
    <3>4. CASE FetchNone
      <4>1. ~d_can_advance
        BY <2>2, <3>4 DEF FetchNone, Bubble
      <4> QED
        BY <2>2, <4>1 DEF Clock, DxClock, Bubble
    <3> QED
      BY <3>1, <3>2, <3>3, <3>4
  <2> QED
    BY <2>1, <2>2
<1>2. ~(dx'.valid /\ xw'.valid)
  BY XStage, WStage DEF IInv, StagesApart, w_stage_stall
<1> QED
  BY <1>1, <1>2 DEF StagesApart

\* A clock edge moves ifu_pending and the fetch unit's state together
\* (Core.v lines 697-702, Ifu.v lines 135-195).
LEMMA PendingStep ==
  ASSUME IInv, NEW go \in GoSets, Clock(go) PROVE PendingIsRefill'
<1>1. CASE IfuMiss(ifu_fetch_valid, f_pc, ifu_invalidate)
  <2>1. ~ifu_inst_ready /\ ifu_fetch_valid
    BY <1>1 DEF IfuMiss, ifu_inst_ready, inst_ready, refill_last, refill_fire
  <2>2. ifu_pending' = TRUE /\ ifu'.state = "REFILL"
    BY <1>1, <2>1 DEF IfuMiss, Clock, PendingClock
  <2>3. ~fd.valid /\ FetchNone
    BY <2>1 DEF Clock, FetchClock, ifu_fetch_valid, FetchDrop, FetchAccept
  <2>4. ~fd'.valid
    BY <2>3 DEF FetchNone, Bubble
  <2>5. ~dx'.valid
    BY <2>3, XStage DEF Clock, DxClock, d_can_advance, Bubble
  <2> QED
    BY <2>2, <2>4, <2>5 DEF PendingIsRefill
<1>2. CASE IfuBeat(ifu_invalidate, ifu_bus) \/ (IfuHold(ifu_fetch_valid, f_pc, ifu_invalidate, ifu_bus) /\ ifu.state = "REFILL")
  <2>1. ifu.state = "REFILL" /\ ifu'.state = "REFILL" /\ ~ifu_inst_ready
    BY <1>2 DEF IfuBeat, IfuHold, IInv, TypeOK, IfuTypeOK, ifu_inst_ready, inst_ready,
                refill_last, refill_fire
  <2>2. ifu_pending /\ ~fd.valid /\ ~dx.valid
    BY <2>1 DEF IInv, PendingIsRefill
  <2>3. ifu_pending' = TRUE
    BY <2>1, <2>2 DEF Clock, PendingClock
  <2>4. ~fd'.valid
    BY <2>1, <2>2 DEF Clock, FetchClock, FetchRedirect, FetchDrop, FetchAccept, FetchNone, Bubble
  <2>5. ~dx'.valid
    BY <2>2 DEF Clock, DxClock, d_can_advance, Bubble
  <2> QED
    BY <2>1, <2>3, <2>4, <2>5 DEF PendingIsRefill
<1>3. CASE IfuLast(ifu_invalidate, ifu_bus)
  <2>1. ifu_inst_ready /\ ifu'.state = "IDLE"
    BY <1>3 DEF IfuLast, ifu_inst_ready, inst_ready, IfuIdle
  <2>2. ifu_pending' = FALSE
    BY <2>1 DEF Clock, PendingClock
  <2>3. ~drop_fetch_response'
    BY <2>1 DEF Clock, FetchClock, FetchRedirect, FetchDrop, FetchAccept, FetchNone, fd_can_accept
  <2> QED
    BY <2>1, <2>2, <2>3 DEF PendingIsRefill
<1>4. CASE IfuHold(ifu_fetch_valid, f_pc, ifu_invalidate, ifu_bus) /\ ifu.state = "IDLE"
  <2>1. ifu'.state = "IDLE" /\ ~ifu_pending /\ ~drop_fetch_response
    BY <1>4 DEF IfuHold, IInv, PendingIsRefill
  <2>2. ifu_fetch_valid => ifu_inst_ready
    BY <1>4 DEF IfuHold, ifu_inst_ready, inst_ready
  <2>3. ifu_pending' = FALSE
    BY <2>1, <2>2 DEF Clock, PendingClock
  <2>4. ~drop_fetch_response'
    BY <2>1 DEF Clock, FetchClock, FetchRedirect, FetchDrop, FetchAccept, FetchNone
  <2> QED
    BY <2>1, <2>3, <2>4 DEF PendingIsRefill
<1>5. ifu.state \in {"IDLE", "REFILL"}
  BY DEF IInv, TypeOK, IfuTypeOK
<1> QED
  BY <1>1, <1>2, <1>3, <1>4, <1>5 DEF Clock, IfuClock

\* A clock edge that halts the core flushes it (Core.v lines 705-732), and
\* nothing enters a halted core.
LEMMA HaltedStep ==
  ASSUME IInv, NEW go \in GoSets, Clock(go) PROVE HaltedIsEmpty'
<1>1. CASE halted
  <2>1. ~fd.valid /\ ~dx.valid /\ ~xw.valid /\ ~ifu_fetch_valid
    BY <1>1 DEF IInv, HaltedIsEmpty, ifu_fetch_valid
  <2>2. ~w_redirect /\ ~x_redirect
    BY <2>1 DEF w_redirect, w_retire_ready, x_redirect
  <2>3. ifu_inst_ready => drop_fetch_response
    BY <1>1, <2>1, Response DEF IInv, HaltedIsEmpty, TypeOK, IfuTypeOK
  <2>4. FetchDrop \/ FetchNone
    BY <2>2, <2>3 DEF Clock, FetchClock, FetchAccept
  <2>5. ~fd'.valid
    BY <2>1, <2>4 DEF FetchDrop, FetchNone, Bubble
  <2>6. ifu_pending' => ifu_pending /\ ~ifu_inst_ready
    BY <2>1 DEF Clock, PendingClock
  <2>7. ifu_pending' => drop_fetch_response'
    BY <1>1, <2>4, <2>6 DEF FetchDrop, FetchNone, IInv, HaltedIsEmpty
  <2>8. ~dx'.valid /\ ~xw'.valid
    BY <2>1 DEF Clock, DxClock, XwClock, d_can_advance, x_can_advance, Bubble
  <2> QED
    BY <2>5, <2>7, <2>8 DEF HaltedIsEmpty
<1>2. CASE ~halted /\ halted'
  <2>1. w_redirect /\ ~ifu_fetch_valid
    BY <1>2 DEF Clock, HaltClock, w_redirect, ifu_fetch_valid
  <2>2. FetchRedirect(w_next_pc)
    BY <2>1 DEF Clock, FetchClock
  <2>3. ~fd'.valid /\ (ifu_pending' => drop_fetch_response')
    BY <2>1, <2>2 DEF FetchRedirect, Clock, PendingClock, Bubble
  <2>4. ~dx'.valid /\ ~xw'.valid
    BY <2>1 DEF Clock, DxClock, XwClock, Bubble
  <2> QED
    BY <2>3, <2>4 DEF HaltedIsEmpty
<1> QED
  BY <1>1, <1>2 DEF HaltedIsEmpty

-----------------------------------------------------------------------------
(***************************************************************************)
(* The bus and its owner.                                                  *)
(***************************************************************************)

\* The load or store that owns the bus keeps asking until it is answered.
LEMMA LsuWaits ==
  ASSUME IInv, NEW go \in GoSets, Clock(go), lsu_arb_valid, ~req_ready
  PROVE  lsu_arb_valid' /\ lsu_raw_addr' = lsu_raw_addr /\ xw' = xw
<1>1. w_stage_stall
  BY DEF lsu_arb_valid, lsu_raw_valid, w_stage_stall, w_mem_ready, lsu_raw_ready, LsuAnswer,
         w_mem_access, w_can_complete_no_mem_fault
<1>2. xw' = xw /\ ~w_retire_ready
  BY <1>1, WStage
<1>3. csr' = csr /\ halted' = halted
  BY <1>2 DEF Clock, CsrClock, HaltClock, IInv, TypeOK
<1> QED
  BY <1>2, <1>3 DEF lsu_arb_valid, lsu_raw_valid, lsu_raw_addr, lsu_is_clint, w_mem_access,
     w_can_complete_no_mem_fault, w_base_trap_request

\* If the load and store unit does not ask for the bus while a refill is
\* pending, W is empty in the next cycle.
LEMMA WDrains ==
  ASSUME IInv, NEW go \in GoSets, Clock(go), ifu.state = "REFILL", ~lsu_arb_valid
  PROVE  ~xw'.valid
<1>1. ~dx.valid
  BY DEF IInv, PendingIsRefill
<1>2. ~w_stage_stall
  BY DEF IInv, HaltedIsEmpty, lsu_arb_valid, lsu_raw_valid, lsu_is_clint, w_stage_stall,
         w_mem_ready, lsu_raw_ready
<1> QED
  BY <1>1, <1>2, WStage

\* While a refill owns the bus, its answers reach the fetch unit only.
LEMMA RefillAnswer ==
  ASSUME IInv, axi.len # 0
  PROVE  /\ ifu.state = "REFILL" /\ ~xw.valid /\ ~lsu_arb_valid
         /\ ifu_bus.ready <=> req_ready
         /\ ifu_bus.error <=> (req_ready /\ req_error)
<1>1. axi.state \in {"READ_ADDR", "READ_DATA"}
  BY DEF IInv, BurstInStep
<1>2. ifu.state = "REFILL" /\ ~xw.valid
  BY <1>1 DEF IInv, RefillOwnsBus
<1>3. ~lsu_arb_valid
  BY <1>2 DEF lsu_arb_valid, lsu_raw_valid, w_mem_access, w_can_complete_no_mem_fault
<1> QED
  BY <1>2, <1>3 DEF ifu_bus, IfuAnswer, ifu_bus_valid

\* While the load and store unit owns the bus, the fetch unit hears nothing.
LEMMA LsuAnswerOnly ==
  ASSUME IInv, axi.len = 0
  PROVE  ~ifu_bus.ready
<1>1. req_ready => axi.state # "IDLE"
  BY DEF req_ready, read_fire, write_done
<1> QED
  BY <1>1 DEF IInv, LsuOwnsBus, ifu_bus, IfuAnswer

\* The last beat of a burst is the last for the master, the slave and the IFU.
LEMMA LastBeat ==
  ASSUME IInv, axi.len # 0
  PROVE  read_last <=> refill_last(ifu_bus)
<1>1. req_ready <=> read_fire
  BY DEF IInv, BurstInStep, req_ready, write_done
<1>2. axi.len = LineWords - 1 /\ axi.state \in {"READ_ADDR", "READ_DATA"} /\ axi.beat = ifu.beat
  BY DEF IInv, BurstInStep, RefillOwnsBus
<1>3. refill_fire(ifu_bus) <=> read_fire
  BY <1>1, RefillAnswer DEF refill_fire
<1>4. read_fire => (read_last <=> axi.beat = axi.len)
  BY DEF read_last, read_fire, IInv, BurstInStep
<1> QED
  BY <1>2, <1>3, <1>4 DEF refill_last, read_last

\* What the master does with a request, by cases of its state.
LEMMA BurstStep ==
  ASSUME IInv, NEW go \in GoSets, Clock(go) PROVE BurstInStep'
<1> DEFINE req == Arbiter(lsu_req, ifu_bus_valid, ifu_bus_addr)
<1>1. MasterClock(req, go) /\ SlaveReadClock(go) /\ BurstInStep /\ BusTypeOK
  BY DEF Clock, IInv, TypeOK
<1>2. req.len \in {0, LineWords - 1}
  BY DEF Arbiter
<1> HIDE DEF req
<1>3. CASE MasterStart(req)
  BY <1>1, <1>2, <1>3 DEF MasterStart, MasterIdle, BurstInStep
<1>4. CASE MasterReadAddr(go)
  <2>1. CASE ar_fire(go)
    <3>1. axi' = [axi EXCEPT !.state = "READ_DATA"] /\ rch' = ReadBeat(axi.addr, 0, axi.len, go)
      BY <1>1, <1>4, <2>1 DEF MasterReadAddr, SlaveReadClock
    <3>2. axi'.state = "READ_DATA" /\ axi'.len = axi.len /\ axi'.beat = axi.beat /\ axi.beat = 0
      BY <1>1, <1>4, <3>1 DEF MasterReadAddr, BusTypeOK, BurstInStep
    <3>3. rch'.busy /\ rch'.len = axi.len /\ rch'.beat = 0
      BY <3>1 DEF ReadBeat
    <3>4. axi.len \in Nat
      BY <1>1, SizesAssumption DEF BurstInStep
    <3> QED
      BY <1>1, <3>2, <3>3, <3>4 DEF BurstInStep
  <2>2. CASE ~ar_fire(go)
    BY <1>1, <1>4, <2>2 DEF MasterReadAddr, BurstInStep
  <2> QED
    BY <2>1, <2>2
<1>5. CASE MasterReadData
  <2>1. ~ar_fire(go) /\ axi.state = "READ_DATA"
    BY <1>5 DEF MasterReadData, ar_fire
  <2>2. CASE read_last
    BY <1>1, <1>5, <2>2 DEF MasterReadData, MasterIdle, BurstInStep
  <2>3. CASE read_fire /\ ~read_last
    <3>1. rch' = ReadBeat(Plus(rch.addr, 4), rch.beat + 1, rch.len, go)
      BY <1>1, <2>1, <2>3 DEF SlaveReadClock, read_last
    <3>2. axi'.state = "READ_DATA" /\ axi'.len = axi.len /\ axi'.beat = axi.beat + 1
      BY <1>1, <1>5, <2>1, <2>3 DEF MasterReadData, BusTypeOK
    <3>3. rch'.busy /\ rch'.len = rch.len /\ rch'.beat = rch.beat + 1
      BY <3>1 DEF ReadBeat
    <3>4. axi.beat # axi.len /\ axi.beat \in Nat /\ axi.len \in Nat
      BY <1>1, <2>3, SizesAssumption DEF read_last, BusTypeOK, Beat
    <3> QED
      BY <1>1, <2>1, <3>2, <3>3, <3>4 DEF BurstInStep
  <2>4. CASE ~read_fire
    <3>1. axi' = axi
      BY <1>5, <2>4 DEF MasterReadData, read_last
    <3>2. rch' = rch \/ rch' = ReadBeat(rch.addr, rch.beat, rch.len, go)
      BY <1>1, <2>1, <2>4 DEF SlaveReadClock
    <3>3. rch'.busy /\ rch'.len = rch.len /\ rch'.beat = rch.beat
      BY <1>1, <2>1, <3>2 DEF ReadBeat, BurstInStep
    <3> QED
      BY <1>1, <2>1, <3>1, <3>3 DEF BurstInStep
  <2> QED
    BY <2>2, <2>3, <2>4 DEF read_last
<1>6. CASE MasterWriteReq(go)
  <2>1. axi'.len = axi.len /\ axi'.beat = axi.beat /\ axi'.error = axi.error
          /\ axi'.state \in {"WRITE_REQ", "WRITE_RESP"} /\ axi.state = "WRITE_REQ"
    BY <1>1, <1>6 DEF MasterWriteReq, BusTypeOK
  <2> QED
    BY <1>1, <2>1 DEF BurstInStep
<1>7. CASE MasterWriteResp
  BY <1>1, <1>7 DEF MasterWriteResp, MasterIdle, BurstInStep
<1> QED
  BY <1>1, <1>3, <1>4, <1>5, <1>6, <1>7 DEF MasterClock

\* Without an answer the fetch unit keeps its refill, or starts a fresh one.
LEMMA IfuWaits ==
  ASSUME IInv, NEW go \in GoSets, Clock(go), ~ifu_bus.ready
  PROVE  /\ ifu.state = "REFILL" => ifu' = ifu
         /\ (ifu.state = "IDLE" /\ ifu'.state = "REFILL") => ifu'.beat = 0 /\ ~ifu'.error
  BY DEF Clock, IfuClock, IfuMiss, IfuBeat, IfuLast, IfuHold, refill_fire, refill_last

\* A refill counts no beat before the master has taken it up.
LEMMA FreshStep ==
  ASSUME IInv, NEW go \in GoSets, Clock(go), axi.len = 0 PROVE RefillFresh'
<1>1. ~ifu_bus.ready
  BY LsuAnswerOnly
<1>2. ifu.state \in {"IDLE", "REFILL"}
  BY DEF IInv, TypeOK, IfuTypeOK
<1> QED
  BY <1>1, <1>2, IfuWaits DEF IInv, RefillFresh

\* The master is idle and takes up a request, a load or store before a refill.
LEMMA StartStep ==
  ASSUME IInv, NEW go \in GoSets, Clock(go), axi.state = "IDLE"
  PROVE  RefillOwnsBus' /\ LsuOwnsBus' /\ RefillFresh'
<1> DEFINE req == Arbiter(lsu_req, ifu_bus_valid, ifu_bus_addr)
<1>1. axi.len = 0 /\ ~req_ready
  BY DEF IInv, BurstInStep, req_ready, read_fire, write_done
<1>2. RefillFresh'
  BY <1>1, FreshStep
<1>3. axi' = IF req.valid
             THEN [MasterIdle EXCEPT
                     !.state = IF req.write THEN "WRITE_REQ" ELSE "READ_ADDR",
                     !.addr = req.addr,
                     !.len = IF req.write THEN 0 ELSE req.len,
                     !.wdata = req.wdata]
             ELSE axi
  BY DEF Clock, MasterClock, MasterStart, MasterReadAddr, MasterReadData, MasterWriteReq,
         MasterWriteResp
<1>4. CASE lsu_arb_valid
  <2>1. lsu_arb_valid' /\ lsu_raw_addr' = lsu_raw_addr /\ xw' = xw
    BY <1>1, <1>4, LsuWaits
  <2>2. req.valid /\ (req.write <=> mem_wen(xw.inst)) /\ req.addr = lsu_raw_addr /\ req.len = 0
    BY <1>4 DEF Arbiter, lsu_req
  <2> HIDE DEF req
  <2>3. axi'.len = 0 /\ axi'.addr = lsu_raw_addr
          /\ axi'.state = IF req.write THEN "WRITE_REQ" ELSE "READ_ADDR"
    BY <1>3, <2>2 DEF MasterIdle
  <2>4. mem_wen(xw.inst)' <=> mem_wen(xw.inst)
    BY <2>1 DEF mem_wen
  <2> QED
    BY <1>2, <2>1, <2>2, <2>3, <2>4 DEF RefillOwnsBus, LsuOwnsBus
<1>5. CASE ~lsu_arb_valid /\ ifu.state = "REFILL"
  <2>1. req.valid /\ ~req.write /\ req.addr = ifu_bus_addr /\ req.len = LineWords - 1
    BY <1>5 DEF Arbiter, lsu_req, ifu_bus_valid
  <2> HIDE DEF req
  <2>2. axi'.len = LineWords - 1 /\ axi'.addr = ifu_bus_addr /\ axi'.state = "READ_ADDR"
          /\ axi'.beat = 0 /\ axi'.error = FALSE
    BY <1>3, <2>1 DEF MasterIdle
  <2>3. LineWords - 1 # 0
    BY SizesAssumption
  <2>4. ifu' = ifu /\ ifu.beat = 0 /\ ~ifu.error
    BY <1>1, <1>5, LsuAnswerOnly, IfuWaits DEF IInv, RefillFresh
  <2>5. ~xw'.valid
    BY <1>5, WDrains
  <2>6. ifu.error = FALSE /\ ifu_bus_addr' = ifu_bus_addr
    BY <2>4 DEF IInv, TypeOK, IfuTypeOK, ifu_bus_addr
  <2> QED
    BY <1>2, <1>5, <2>2, <2>3, <2>4, <2>5, <2>6 DEF RefillOwnsBus, LsuOwnsBus
<1>6. CASE ~lsu_arb_valid /\ ifu.state # "REFILL"
  <2>1. ~req.valid
    BY <1>6 DEF Arbiter, lsu_req, ifu_bus_valid
  <2>2. axi' = axi
    BY <1>3, <2>1
  <2> QED
    BY <1>2, <2>2 DEF RefillOwnsBus, LsuOwnsBus
<1> QED
  BY <1>4, <1>5, <1>6

\* The master serves a load or a store.
LEMMA LsuStep ==
  ASSUME IInv, NEW go \in GoSets, Clock(go), axi.state # "IDLE", axi.len = 0
  PROVE  RefillOwnsBus' /\ LsuOwnsBus' /\ RefillFresh'
<1>1. RefillFresh'
  BY FreshStep
<1>2. lsu_arb_valid /\ axi.addr = lsu_raw_addr
        /\ (mem_wen(xw.inst) <=> axi.state \in {"WRITE_REQ", "WRITE_RESP"})
  BY DEF IInv, LsuOwnsBus
<1>3. axi.state \in {"READ_ADDR", "READ_DATA", "WRITE_REQ", "WRITE_RESP"}
  BY DEF IInv, TypeOK, BusTypeOK, MasterStates
<1>4. CASE req_ready
  <2>1. read_fire => read_last
    BY SizesAssumption DEF read_last, read_fire, IInv, TypeOK, BusTypeOK, Beat, BurstInStep
  <2>2. axi' = MasterIdle
    BY <1>4, <2>1 DEF req_ready, read_fire, write_done, Clock, MasterClock, MasterStart,
       MasterReadAddr, MasterReadData, MasterWriteReq, MasterWriteResp
  <2> QED
    BY <1>1, <2>2 DEF MasterIdle, RefillOwnsBus, LsuOwnsBus
<1>5. CASE ~req_ready
  <2>1. lsu_arb_valid' /\ lsu_raw_addr' = lsu_raw_addr /\ xw' = xw
    BY <1>2, <1>5, LsuWaits
  <2>2. axi'.len = axi.len /\ axi'.addr = axi.addr /\ axi'.state # "IDLE"
          /\ (axi'.state \in {"WRITE_REQ", "WRITE_RESP"}
                <=> axi.state \in {"WRITE_REQ", "WRITE_RESP"})
    <3>1. axi \in [state: MasterStates, addr: Word, len: Beat, beat: Beat,
                   error: BOOLEAN, wdata: Word, aw_done: BOOLEAN, w_done: BOOLEAN]
      BY DEF IInv, TypeOK, BusTypeOK
    <3>2. CASE axi.state = "READ_ADDR"
      BY <3>1, <3>2 DEF Clock, MasterClock, MasterStart, MasterReadAddr, MasterReadData,
         MasterWriteReq, MasterWriteResp
    <3>3. CASE axi.state = "READ_DATA"
      BY <1>5, <3>1, <3>3 DEF Clock, MasterClock, MasterStart, MasterReadAddr, MasterReadData,
         MasterWriteReq, MasterWriteResp, req_ready, read_last
    <3>4. CASE axi.state = "WRITE_REQ"
      BY <3>1, <3>4 DEF Clock, MasterClock, MasterStart, MasterReadAddr, MasterReadData,
         MasterWriteReq, MasterWriteResp
    <3>5. CASE axi.state = "WRITE_RESP"
      BY <1>5, <3>1, <3>5 DEF Clock, MasterClock, MasterStart, MasterReadAddr, MasterReadData,
         MasterWriteReq, MasterWriteResp, req_ready
    <3> QED
      BY <1>3, <3>2, <3>3, <3>4, <3>5
  <2>3. mem_wen(xw.inst)' <=> mem_wen(xw.inst)
    BY <2>1 DEF mem_wen
  <2> QED
    BY <1>1, <1>2, <2>1, <2>2, <2>3 DEF RefillOwnsBus, LsuOwnsBus
<1> QED
  BY <1>4, <1>5

\* The master serves a refill: every beat it takes is a beat of the IFU.
LEMMA RefillStep ==
  ASSUME IInv, NEW go \in GoSets, Clock(go), axi.len # 0
  PROVE  RefillOwnsBus' /\ LsuOwnsBus' /\ RefillFresh'
<1>1. axi.state \in {"READ_ADDR", "READ_DATA"} /\ ifu.state = "REFILL"
        /\ axi.addr = ifu_bus_addr /\ axi.beat = ifu.beat /\ axi.error = ifu.error
  BY DEF IInv, BurstInStep, RefillOwnsBus
<1>2. ~xw.valid /\ ~lsu_arb_valid /\ ~xw'.valid
  BY <1>1, RefillAnswer, WDrains
<1>3. axi \in [state: MasterStates, addr: Word, len: Beat, beat: Beat,
               error: BOOLEAN, wdata: Word, aw_done: BOOLEAN, w_done: BOOLEAN]
        /\ ifu \in [state: {"IDLE", "REFILL"}, miss: Word, beat: Beat, error: BOOLEAN]
  BY DEF IInv, TypeOK, BusTypeOK, IfuTypeOK
<1>4. CASE read_last
  <2>1. axi' = MasterIdle
    BY <1>4 DEF read_last, read_fire, Clock, MasterClock, MasterStart,
       MasterReadAddr, MasterReadData, MasterWriteReq, MasterWriteResp
  <2>2. refill_last(ifu_bus)
    BY <1>4, LastBeat
  <2>3. ifu' = IfuIdle
    BY <1>1, <2>2 DEF Clock, IfuClock, IfuMiss, IfuBeat, IfuLast, IfuHold, refill_last, refill_fire
  <2> QED
    BY <2>1, <2>3 DEF MasterIdle, IfuIdle, RefillOwnsBus, LsuOwnsBus, RefillFresh
<1>5. CASE read_fire /\ ~read_last
  <2>1. axi' = [axi EXCEPT !.beat = @ + 1, !.error = @ \/ rch.error]
    BY <1>5 DEF read_fire, Clock, MasterClock, MasterStart,
       MasterReadAddr, MasterReadData, MasterWriteReq, MasterWriteResp
  <2>2. ~refill_last(ifu_bus) /\ ifu_bus.ready
    BY <1>5, LastBeat, RefillAnswer DEF req_ready
  <2>3. ifu' = [ifu EXCEPT !.beat = @ + 1, !.error = refill_error(ifu_bus)]
    BY <1>1, <2>2 DEF Clock, IfuClock, IfuMiss, IfuBeat, IfuLast, IfuHold, refill_last, refill_fire
  <2>4. ifu_bus.error <=> (axi.error \/ rch.error)
    BY <1>1, <1>5, RefillAnswer DEF req_ready, req_error, write_done, read_fire
  <2>5. refill_error(ifu_bus) <=> (axi.error \/ rch.error)
    BY <1>1, <2>4 DEF refill_error
  <2>6. axi'.state = axi.state /\ axi'.len = axi.len /\ axi'.addr = axi.addr
          /\ axi'.beat = axi.beat + 1 /\ axi'.error = (axi.error \/ rch.error)
    BY <1>3, <2>1
  <2>7. ifu'.state = "REFILL" /\ ifu'.miss = ifu.miss /\ ifu'.beat = ifu.beat + 1
          /\ ifu'.error = refill_error(ifu_bus)
    BY <1>1, <1>3, <2>3
  <2>8. ifu'.error = axi'.error
    BY <2>5, <2>6, <2>7 DEF refill_error
  <2>9. ifu_bus_addr' = ifu_bus_addr
    BY <2>7 DEF ifu_bus_addr
  <2> QED
    BY <1>1, <1>2, <2>6, <2>7, <2>8, <2>9 DEF RefillOwnsBus, LsuOwnsBus, RefillFresh
<1>6. CASE ~read_fire
  <2>1. ~req_ready
    BY <1>1, <1>6 DEF req_ready, write_done
  <2>2. ifu' = ifu
    BY <1>1, <2>1, RefillAnswer, IfuWaits
  <2>3. axi'.state \in {"READ_ADDR", "READ_DATA"} /\ axi'.len = axi.len /\ axi'.addr = axi.addr
          /\ axi'.beat = axi.beat /\ axi'.error = axi.error
    BY <1>1, <1>3, <1>6 DEF Clock, MasterClock, MasterStart, read_last,
       MasterReadAddr, MasterReadData, MasterWriteReq, MasterWriteResp
  <2>4. ifu_bus_addr' = ifu_bus_addr
    BY <2>2 DEF ifu_bus_addr
  <2> QED
    BY <1>1, <1>2, <2>2, <2>3, <2>4 DEF RefillOwnsBus, LsuOwnsBus, RefillFresh
<1> QED
  BY <1>4, <1>5, <1>6

-----------------------------------------------------------------------------
(***************************************************************************)
(* The results.                                                            *)
(***************************************************************************)

\* Reset establishes the inductive invariant.
LEMMA InitIInv == Init => IInv
<1> SUFFICES ASSUME Init PROVE IInv
  OBVIOUS
<1>1. 0 \in Word /\ 0 \in Beat
  BY SmallWords, SizesAssumption DEF Beat
<1>2. IfuTypeOK
  BY <1>1 DEF Init, IfuInit, IfuTypeOK, IfuIdle, Line
<1>3. BusTypeOK
  BY <1>1, ProgramsAssumption
  DEF Init, BusInit, BusTypeOK, MasterIdle, ReadIdle, WriteIdle, MasterStates
<1>4. TypeOK
  <2>1. mtime \in 0 .. MtimePeriod - 1 /\ f_pc \in Word
    BY SizesAssumption, MapAssumption DEF Init
  <2>2. csr \in CsrFile /\ rf \in [Reg -> Word]
    BY <1>1 DEF Init, CsrFile
  <2> QED
    BY <1>2, <1>3, <2>1, <2>2 DEF Init, TypeOK
<1>5. StagesApart /\ PendingIsRefill /\ HaltedIsEmpty
  BY DEF Init, IfuInit, IfuIdle, Bubble, StagesApart, PendingIsRefill, HaltedIsEmpty
<1>6. BurstInStep /\ RefillFresh /\ RefillOwnsBus /\ LsuOwnsBus
  BY DEF Init, IfuInit, BusInit, IfuIdle, MasterIdle, BurstInStep, RefillFresh,
         RefillOwnsBus, LsuOwnsBus
<1> QED
  BY <1>4, <1>5, <1>6 DEF IInv

\* Every clock edge keeps the inductive invariant, whatever the slave stalls.
LEMMA NextIInv == IInv /\ [Next]_vars => IInv'
<1> SUFFICES ASSUME IInv, [Next]_vars PROVE IInv'
  OBVIOUS
<1>1. ASSUME NEW go \in GoSets, Clock(go) PROVE IInv'
  <2>1. RefillOwnsBus' /\ LsuOwnsBus' /\ RefillFresh'
    BY <1>1, StartStep, LsuStep, RefillStep
  <2> QED
    BY <1>1, <2>1, TypeStep, StagesApartStep, PendingStep, HaltedStep, BurstStep DEF IInv
<1>2. CASE UNCHANGED vars
  BY <1>2 DEF vars, coreVars, ifuVars, busVars, IInv, TypeOK, IfuTypeOK, BusTypeOK,
     StagesApart, PendingIsRefill, HaltedIsEmpty, BurstInStep, RefillFresh, RefillOwnsBus,
     LsuOwnsBus, ifu_bus_addr, lsu_arb_valid, lsu_raw_valid, lsu_is_clint, lsu_raw_addr,
     w_mem_access, w_can_complete_no_mem_fault, w_base_trap_request
<1> QED
  BY <1>1, <1>2 DEF Next

(***************************************************************************)
(* The invariant holds in every cycle of every core.                       *)
(***************************************************************************)
THEOREM Invariance == Spec => []IInv
  BY InitIInv, NextIInv, PTL DEF Spec

(***************************************************************************)
(* All registers of the core, the fetch unit, the bus and the memory keep  *)
(* their types: no counter leaves its range and no address its width.      *)
(***************************************************************************)
THEOREM TypeCorrect == Spec => []TypeOK
<1>1. IInv => TypeOK
  BY DEF IInv
<1> QED
  BY <1>1, Invariance, PTL

(***************************************************************************)
(* F/D and D/X, and D/X and X/W, are never occupied together (Core.v lines *)
(* 390-413).                                                               *)
(***************************************************************************)
THEOREM NoAdjacentStages == Spec => []StagesApart
<1>1. IInv => StagesApart
  BY DEF IInv
<1> QED
  BY <1>1, Invariance, PTL

(***************************************************************************)
(* ifu_pending is exactly a refill in progress, and a response is marked   *)
(* for dropping only while one is outstanding (Core.v lines 698-718).      *)
(***************************************************************************)
THEOREM PendingTracksRefill == Spec => []PendingIsRefill
<1>1. IInv => PendingIsRefill
  BY DEF IInv
<1> QED
  BY <1>1, Invariance, PTL

(***************************************************************************)
(* A halted core is empty and stays so (Core.v lines 705-732).             *)
(***************************************************************************)
THEOREM HaltIsClean == Spec => []HaltedIsEmpty
<1>1. IInv => HaltedIsEmpty
  BY DEF IInv
<1> QED
  BY <1>1, Invariance, PTL

(***************************************************************************)
(* A refill owns the bus from its first to its last beat although the      *)
(* arbiter keeps no state (AxiArbiter.v lines 27-42), for every slave      *)
(* timing.                                                                 *)
(***************************************************************************)
THEOREM OneOwner == Spec => []RefillOwnsBus
<1>1. IInv => RefillOwnsBus
  BY DEF IInv
<1> QED
  BY <1>1, Invariance, PTL

(***************************************************************************)
(* A load or store that the bus has taken up stays in W, asking for the    *)
(* same access, until it is answered (AxiArbiter.v lines 27-42).           *)
(***************************************************************************)
THEOREM AccessKeepsBus == Spec => []LsuOwnsBus
<1>1. IInv => LsuOwnsBus
  BY DEF IInv
<1> QED
  BY <1>1, Invariance, PTL

(***************************************************************************)
(* Master and slave count the beats of every burst alike, and the master's *)
(* counters are clear between transactions (AxiMaster.v line 65).          *)
(***************************************************************************)
THEOREM BurstsCounted == Spec => []BurstInStep
<1>1. IInv => BurstInStep
  BY DEF IInv
<1> QED
  BY <1>1, Invariance, PTL

-----------------------------------------------------------------------------
(***************************************************************************)
(* Arithmetic of addresses and cache lines.                                *)
(***************************************************************************)

\* Quotient and remainder.
LEMMA Division ==
  ASSUME NEW a \in Nat, NEW b \in Nat, b > 0
  PROVE  /\ a = b * (a \div b) + (a % b)
         /\ a \div b \in Nat /\ a % b \in Nat /\ a % b < b
  OBVIOUS

\* Quotient and remainder are unique.
LEMMA DivisionUnique ==
  ASSUME NEW b \in Nat, NEW q \in Nat, NEW r \in Nat, r < b
  PROVE  (b * q + r) \div b = q /\ (b * q + r) % b = r
<1> DEFINE a == b * q + r
           p == a \div b
           s == a % b
<1>1. a \in Nat /\ b > 0
  OBVIOUS
<1>2. a = b * p + s /\ p \in Nat /\ s \in Nat /\ s < b
  BY <1>1, Division
<1>3. b * q + r = b * p + s
  BY <1>2
<1> HIDE DEF a, p, s
<1>4. ASSUME NEW x \in Nat, NEW y \in Nat, x < y PROVE b * y >= b * x + b
  <2>1. y >= x + 1
    BY <1>4
  <2>2. b * y >= b * (x + 1)
    BY <2>1
  <2> QED
    BY <2>2
<1>5. p = q
  BY <1>2, <1>3, <1>4
<1> QED
  BY <1>2, <1>3, <1>5 DEF a, p, s

\* The address space is a whole number of cache lines, and so of words.
LEMMA SpaceLines ==
  /\ \E k \in Nat : Space = LineBytes * k
  /\ Space % 4 = 0
  /\ LineBytes \in Nat /\ LineBytes >= 8
<1> DEFINE m == Space \div (8 * LineWords)
           k == 2 * m
<1>1. Space = (8 * LineWords) * m /\ m \in Nat
  BY SizesAssumption, Division
<1> HIDE DEF m
<1>2. Space = LineBytes * k /\ k \in Nat
  BY <1>1, SizesAssumption DEF LineBytes
<1>3. LineBytes \in Nat /\ LineBytes >= 8
  BY SizesAssumption DEF LineBytes
<1>4. Space = 4 * (LineWords * k) + 0 /\ LineWords * k \in Nat
  BY <1>1, <1>2, SizesAssumption DEF LineBytes
<1> HIDE DEF k
<1>5. Space % 4 = 0
  BY <1>4, DivisionUnique
<1> QED
  BY <1>2, <1>3, <1>5

\* Adding a word keeps an address aligned, also where it wraps.
LEMMA PlusAligned ==
  ASSUME NEW a \in Word, a % 4 = 0 PROVE Plus(a, 4) % 4 = 0
<1>1. Plus(a, 4) = IF a + 4 < Space THEN a + 4 ELSE a + 4 - Space
  BY SizesAssumption DEF Plus, Word
<1> QED
  BY <1>1, SpaceLines, SizesAssumption DEF Word

\* The word address of an address is aligned, and is the address if that is.
LEMMA WordAddrAligned ==
  ASSUME NEW a \in Word
  PROVE  WordAddr(a) % 4 = 0 /\ (a % 4 = 0 => WordAddr(a) = a)
  BY DEF WordAddr, Word

\* A line is the words from its line address on, all in the address space
\* (Ifu.v lines 52-55).
LEMMA LineFacts ==
  ASSUME NEW a \in Word
  PROVE  /\ LineBase(Index(a), Tag(a)) = LineAddr(a)
         /\ LineAddr(a) = LineBytes * (a \div LineBytes)
         /\ a \div LineBytes \in Nat
         /\ LineAddr(a) + LineBytes <= Space
<1> DEFINE q == a \div LineBytes
           t == q \div 2
           s == q % 2
           r == a % LineBytes
<1>0. a \in Nat /\ a < Space
  BY SizesAssumption DEF Word
<1>1. a = LineBytes * q + r /\ q \in Nat /\ r \in Nat /\ r < LineBytes
  BY <1>0, Division, SpaceLines
<1>2. q = 2 * t + s /\ t \in Nat /\ s \in {0, 1}
  BY <1>1
<1>3. LineAddr(a) = LineBytes * q
  BY <1>1, SpaceLines DEF LineAddr
<1>4. Index(a) = s
  BY DEF Index
<1> HIDE DEF q, t, s, r
<1>5. Tag(a) = t
  <2>1. LineBytes * (2 * t + s) = (2 * LineBytes) * t + LineBytes * s
    BY <1>2, SpaceLines
  <2>2. a = (2 * LineBytes) * t + (LineBytes * s + r)
    BY <1>1, <1>2, <2>1, SpaceLines
  <2>3. LineBytes * s + r \in Nat /\ LineBytes * s + r < 2 * LineBytes
    BY <1>1, <1>2, SpaceLines
  <2> QED
    BY <1>2, <2>2, <2>3, DivisionUnique, SpaceLines DEF Tag
<1>6. LineBytes * q + LineBytes <= Space
  <2>1. PICK k \in Nat : Space = LineBytes * k
    BY SpaceLines
  <2>2. q < k
    <3>1. SUFFICES ASSUME q >= k PROVE FALSE
      BY <1>1
    <3>2. LineBytes * q >= LineBytes * k
      BY <1>1, <3>1, SpaceLines
    <3> QED
      BY <1>0, <1>1, <2>1, <3>2, SpaceLines
  <2>3. q + 1 <= k
    BY <1>1, <2>2
  <2>4. LineBytes * (q + 1) <= LineBytes * k
    BY <1>1, <2>3, SpaceLines
  <2> QED
    BY <1>1, <2>1, <2>4, SpaceLines
<1>7. LineBase(s, t) = LineBytes * q
  BY <1>1, <1>2, SpaceLines DEF LineBase
<1> QED
  BY <1>1, <1>3, <1>4, <1>5, <1>6, <1>7 DEF q

\* The words of the line of an address.
LEMMA BeatFacts ==
  ASSUME NEW a \in Word, NEW b \in Beat
  PROVE  /\ LineAddr(a) + 4 * b \in Word
         /\ (LineAddr(a) + 4 * b) % 4 = 0
         /\ (LineAddr(a) + 4 * b) \div LineBytes = a \div LineBytes
<1> DEFINE q == a \div LineBytes
<1>1. LineAddr(a) = LineBytes * q /\ q \in Nat /\ LineAddr(a) + LineBytes <= Space
  BY LineFacts
<1> HIDE DEF q
<1>2. b \in Nat /\ 4 * b \in Nat /\ 4 * b < LineBytes
  BY SizesAssumption DEF Beat, LineBytes
<1>3. LineBytes * q \in Nat
  BY <1>1, SpaceLines
<1>4. LineAddr(a) + 4 * b \in Word
  BY <1>1, <1>2, <1>3, SpaceLines, SizesAssumption DEF Word
<1>5. (LineBytes * q + 4 * b) \div LineBytes = q
  BY <1>1, <1>2, DivisionUnique, SpaceLines
<1>6. LineBytes * q + 4 * b = 4 * (LineWords * q + b) + 0 /\ LineWords * q + b \in Nat
  BY <1>1, <1>2, SizesAssumption DEF LineBytes
<1>7. (LineBytes * q + 4 * b) % 4 = 0
  BY <1>6, DivisionUnique
<1> QED
  BY <1>1, <1>4, <1>5, <1>7 DEF q

\* An aligned address is the word of its line that its offset names.
LEMMA OffsetFacts ==
  ASSUME NEW a \in Word, a % 4 = 0
  PROVE  LineAddr(a) + 4 * Offset(a) = a
<1> DEFINE n == a \div 4
           q == n \div LineWords
           o == n % LineWords
<1>1. a = 4 * n /\ n \in Nat
  BY SizesAssumption DEF Word
<1>2. n = LineWords * q + o /\ q \in Nat /\ o \in Nat /\ o < LineWords
  BY <1>1, Division, SizesAssumption
<1>3. Offset(a) = o
  BY DEF Offset
<1> HIDE DEF n, q, o
<1>4. a = LineBytes * q + 4 * o /\ 4 * o \in Nat /\ 4 * o < LineBytes
  BY <1>1, <1>2, SizesAssumption DEF LineBytes
<1>5. a % LineBytes = 4 * o
  BY <1>2, <1>4, DivisionUnique, SpaceLines
<1> QED
  BY <1>1, <1>2, <1>3, <1>5 DEF LineAddr

-----------------------------------------------------------------------------
(***************************************************************************)
(* The inductive invariant: what every boundary, the bus and the cache     *)
(* hold, related to the architectural state.                               *)
(***************************************************************************)

\* Memory is always among the fetchable values.
FetchableOK ==
  /\ fetchable \in [BusOk -> SUBSET Word]
  /\ \A a \in BusOk : mem[a] \in fetchable[a]

XwTraps == xw.err \/ ~xw.inst.legal \/ xw.pc_exception

(***************************************************************************)
(* Program counters are aligned, except the one in F behind a jump to a    *)
(* misaligned target, which traps in the next cycle.                       *)
(***************************************************************************)
Aligned ==
  /\ csr.mtvec % 4 = 0 /\ csr.mepc % 4 = 0
  /\ fd.valid => fd.pc % 4 = 0
  /\ dx.valid => dx.pc % 4 = 0
  /\ xw.valid => xw.pc % 4 = 0
  /\ f_pc % 4 = 0 \/ (xw.valid /\ XwTraps)
  /\ ifu.state = "REFILL" => ifu.miss % 4 = 0

\* A refill that will be delivered is the one of the pc in F.
MissIsPc ==
  (ifu.state = "REFILL" /\ ~drop_fetch_response) => ifu.miss = f_pc

\* The instructions in the pipeline follow each other in program order.
InOrder ==
  /\ fd.valid => f_pc = Plus(fd.pc, 4)
  /\ dx.valid => f_pc = Plus(dx.pc, 4)
  /\ xw.valid => (IF fd.valid THEN fd.pc ELSE f_pc)
                   = IF xw.redirect THEN xw.redirect_pc ELSE Plus(xw.pc, 4)

\* A packet is a fetch fault or an instruction that may be fetched at its pc.
Decoded(p) ==
  IF p.err THEN p.pc \notin BusOk
  ELSE p.pc \in BusOk /\ \E w \in fetchable[p.pc] : p.inst = Decode[w]

\* It has read the operands that the older instructions have left.
Operands(p) ==
  /\ reads_rs1(p.inst) => p.rs1_data = RegRead(rf, p.inst.rs1)
  /\ reads_rs2(p.inst) => p.rs2_data = RegRead(rf, p.inst.rs2)

\* What X computes from a packet.
Sum(p) ==
  Plus(IF p.inst.op \in {"branch", "jal"} THEN p.pc ELSE p.rs1_data,
       IF p.inst.op = "add" THEN p.rs2_data ELSE p.inst.imm)
Goes(p) ==
  \/ p.inst.op \in {"mret", "jalr", "jal"}
  \/ p.inst.op = "branch" /\ p.rs1_data = p.rs2_data
Goal(p) ==
  IF p.inst.op = "mret" THEN csr.mepc
  ELSE IF p.inst.op = "jalr" THEN Sum(p) - (Sum(p) % 2)
  ELSE Sum(p)

Executed(p) ==
  /\ p.csr_rdata = CsrRead(csr, p.inst.csr)
  /\ p.alu_result = Sum(p)
  /\ p.redirect <=> Goes(p)
  /\ p.redirect_pc = Goal(p)
  /\ p.mem_misaligned <=> (mem_ren(p.inst) \/ mem_wen(p.inst)) /\ Sum(p) % 4 # 0
  /\ p.pc_exception <=> p.inst.legal /\ Goes(p) /\ Goal(p) % 4 # 0

FdOK ==
  fd.valid => IF fd.err THEN fd.pc \notin BusOk
              ELSE fd.pc \in BusOk /\ fd.word \in fetchable[fd.pc]
DxOK == dx.valid => Decoded(dx) /\ Operands(dx)
XwOK == xw.valid => Decoded(xw) /\ Operands(xw) /\ Executed(xw)

\* The beat on the R channel is the word the master asked for, as it is in memory.
ReadTracks ==
  axi.state = "READ_DATA" =>
    /\ rch.addr = axi.addr + 4 * axi.beat
    /\ axi.len = 0 => ~axi.error
    /\ rch.valid => IF rch.addr \in BusOk
                    THEN ~rch.error /\ rch.data = mem[rch.addr]
                    ELSE rch.error

\* The words a refill has stored so far may be fetched, or the line is outside.
RefillData ==
  ifu.state = "REFILL" =>
    IF ifu.error THEN ifu.miss \notin BusOk
    ELSE \A b \in Beat : b < ifu.beat =>
           /\ LineAddr(ifu.miss) + 4 * b \in BusOk
           /\ cache[Index(ifu.miss)].data[b] \in fetchable[LineAddr(ifu.miss) + 4 * b]

\* The write of a store: accepted parts, then performed and answered once.
WriteTracks ==
  /\ axi.state \notin {"WRITE_REQ", "WRITE_RESP"} => wch = WriteIdle
  /\ axi.state = "WRITE_REQ" =>
       /\ axi.wdata = xw.rs2_data
       /\ wch.resp = "none" /\ ~wch.valid
       /\ wch.aw <=> axi.aw_done
       /\ wch.w <=> axi.w_done
       /\ ~(wch.aw /\ wch.w)
       /\ wch.aw => wch.addr = axi.addr
       /\ wch.w => wch.data = axi.wdata
  /\ axi.state = "WRITE_RESP" =>
       /\ ~wch.aw /\ ~wch.w
       /\ wch.resp = IF axi.addr \in BusOk THEN "okay" ELSE "error"
       /\ axi.addr \in BusOk => mem[axi.addr] = xw.rs2_data

RefInv ==
  /\ IInv
  /\ FetchableOK /\ Aligned /\ MissIsPc /\ InOrder
  /\ FdOK /\ DxOK /\ XwOK
  /\ ReadTracks /\ RefillData /\ WriteTracks /\ CacheCoherent

(***************************************************************************)
(* The premise of the results: a fetch that ends in a fault found no valid *)
(* line in its set.  Without it a valid line may hold words of a failed    *)
(* refill (Ifu.v line 186).                                                *)
(***************************************************************************)
FaultFindsNoLine == inst_error(ifu_bus) => ~cache[Index(ifu.miss)].valid

-----------------------------------------------------------------------------
(***************************************************************************)
(* The write side.                                                         *)
(***************************************************************************)

\* What the master does in a cycle (AxiMaster.v), by its state.
LEMMA MasterCases ==
  ASSUME NEW go, Clock(go)
  PROVE  /\ axi.state = "IDLE" => MasterStart(Arbiter(lsu_req, ifu_bus_valid, ifu_bus_addr))
         /\ axi.state = "READ_ADDR" => MasterReadAddr(go)
         /\ axi.state = "READ_DATA" => MasterReadData
         /\ axi.state = "WRITE_REQ" => MasterWriteReq(go)
         /\ axi.state = "WRITE_RESP" => MasterWriteResp
<1>1. MasterClock(Arbiter(lsu_req, ifu_bus_valid, ifu_bus_addr), go)
  BY DEF Clock
<1> QED
  BY <1>1 DEF MasterClock, MasterStart, MasterReadAddr, MasterReadData, MasterWriteReq,
     MasterWriteResp

\* A cycle without a write in progress leaves the write side and memory alone.
LEMMA NoWrite ==
  ASSUME RefInv, NEW go \in GoSets, Clock(go),
         axi.state \notin {"WRITE_REQ", "WRITE_RESP"}
  PROVE  wch' = WriteIdle /\ mem' = mem
<1>1. wch = WriteIdle
  BY DEF RefInv, WriteTracks
<1>2. ~aw_fire(go) /\ ~w_fire(go) /\ ~write_done
  BY DEF aw_fire, w_fire, write_done
<1>3. SlaveWriteClock(go)
  BY DEF Clock
<1> QED
  BY <1>1, <1>2, <1>3 DEF SlaveWriteClock, WriteIdle

\* A store that waits for its write: the write is performed in this cycle, once.
LEMMA WriteCycle ==
  ASSUME RefInv, NEW go \in GoSets, Clock(go), axi.state = "WRITE_REQ"
  PROVE  /\ WriteTracks'
         /\ lsu_arb_valid /\ mem_wen(xw.inst) /\ axi.addr = lsu_raw_addr
         /\ ~req_ready /\ xw' = xw
         /\ \/ mem' = mem /\ wch'.resp # "okay"
            \/ /\ axi.addr \in BusOk /\ wch'.resp = "okay"
               /\ mem' = [mem EXCEPT ![axi.addr] = xw.rs2_data]
<1> DEFINE aw   == wch.aw \/ aw_fire(go)
           w    == wch.w \/ w_fire(go)
           addr == IF aw_fire(go) THEN axi.addr ELSE wch.addr
           data == IF w_fire(go) THEN axi.wdata ELSE wch.data
           now  == aw /\ w /\ wch.resp = "none"
<1>1. /\ axi.wdata = xw.rs2_data /\ wch.resp = "none" /\ ~wch.valid
      /\ (wch.aw <=> axi.aw_done) /\ (wch.w <=> axi.w_done) /\ ~(wch.aw /\ wch.w)
      /\ (wch.aw => wch.addr = axi.addr) /\ (wch.w => wch.data = axi.wdata)
  BY DEF RefInv, WriteTracks
<1>2. axi.len = 0 /\ lsu_arb_valid /\ mem_wen(xw.inst) /\ axi.addr = lsu_raw_addr
  BY DEF RefInv, IInv, BurstInStep, LsuOwnsBus
<1>3. ~req_ready /\ ~write_done
  BY DEF req_ready, read_fire, write_done
<1>4. xw' = xw
  BY <1>2, <1>3, LsuWaits DEF RefInv
<1>5. mem' = IF now /\ addr \in BusOk THEN [mem EXCEPT ![addr] = data] ELSE mem
  BY DEF Clock, SlaveWriteClock
<1>6. wch' = IF now
             THEN [WriteIdle EXCEPT !.resp = IF addr \in BusOk THEN "okay" ELSE "error",
                                    !.valid = "B" \in go]
             ELSE [aw |-> aw, addr |-> addr, w |-> w, data |-> data, resp |-> wch.resp,
                   valid |-> wch.valid \/ (wch.resp # "none" /\ "B" \in go)]
  BY <1>3 DEF Clock, SlaveWriteClock
<1>7. axi' = [axi EXCEPT !.aw_done = axi.aw_done \/ aw_fire(go),
                         !.w_done = axi.w_done \/ w_fire(go),
                         !.state = IF (axi.aw_done \/ aw_fire(go)) /\ (axi.w_done \/ w_fire(go))
                                   THEN "WRITE_RESP" ELSE @]
  BY MasterCases DEF MasterWriteReq
<1>8. axi \in [state: MasterStates, addr: Word, len: Beat, beat: Beat,
               error: BOOLEAN, wdata: Word, aw_done: BOOLEAN, w_done: BOOLEAN]
        /\ mem \in [BusOk -> Word]
  BY DEF RefInv, IInv, TypeOK, BusTypeOK
<1>9. (aw => addr = axi.addr) /\ (w => data = axi.wdata) /\ (now <=> aw /\ w)
  BY <1>1
<1>10. /\ axi'.aw_done = (axi.aw_done \/ aw_fire(go)) /\ axi'.w_done = (axi.w_done \/ w_fire(go))
       /\ axi'.addr = axi.addr /\ axi'.wdata = axi.wdata
       /\ axi'.state = IF aw /\ w THEN "WRITE_RESP" ELSE "WRITE_REQ"
  BY <1>1, <1>7, <1>8
<1>11. (aw <=> axi'.aw_done) /\ (w <=> axi'.w_done)
  BY <1>1, <1>10
<1> HIDE DEF aw, w, addr, data, now
<1>12. CASE now
  <2>1. /\ wch'.resp = IF axi.addr \in BusOk THEN "okay" ELSE "error"
        /\ wch'.aw = FALSE /\ wch'.w = FALSE
    BY <1>6, <1>9, <1>12 DEF WriteIdle
  <2>2. axi.addr \in BusOk => mem' = [mem EXCEPT ![axi.addr] = xw.rs2_data]
    BY <1>1, <1>5, <1>9, <1>12
  <2>3. axi.addr \notin BusOk => mem' = mem
    BY <1>5, <1>9, <1>12
  <2>4. axi.addr \in BusOk => mem'[axi.addr] = xw.rs2_data
    BY <1>8, <2>2
  <2>5. axi'.state = "WRITE_RESP" /\ axi'.addr = axi.addr
    BY <1>9, <1>10, <1>12
  <2>6. WriteTracks'
    BY <1>4, <2>1, <2>4, <2>5 DEF WriteTracks
  <2> QED
    BY <1>2, <1>3, <1>4, <2>1, <2>2, <2>3, <2>6
<1>13. CASE ~now
  <2>1. wch'.resp = "none" /\ wch'.aw = aw /\ wch'.w = w /\ wch'.addr = addr
          /\ wch'.data = data /\ ~wch'.valid
    BY <1>1, <1>6, <1>13
  <2>2. mem' = mem /\ axi'.state = "WRITE_REQ"
    BY <1>5, <1>9, <1>10, <1>13
  <2>3. WriteTracks'
    BY <1>1, <1>4, <1>9, <1>10, <1>11, <1>13, <2>1, <2>2 DEF WriteTracks
  <2> QED
    BY <1>2, <1>3, <1>4, <2>1, <2>2, <2>3
<1> QED
  BY <1>12, <1>13

\* A clock edge keeps the write side in step with the store in W.
LEMMA WriteStep ==
  ASSUME RefInv, NEW go \in GoSets, Clock(go)
  PROVE  WriteTracks'
<1> DEFINE req == Arbiter(lsu_req, ifu_bus_valid, ifu_bus_addr)
<1>1. axi \in [state: MasterStates, addr: Word, len: Beat, beat: Beat,
               error: BOOLEAN, wdata: Word, aw_done: BOOLEAN, w_done: BOOLEAN]
  BY DEF RefInv, IInv, TypeOK, BusTypeOK
<1>2. CASE axi.state = "IDLE"
  <2>1. wch' = WriteIdle
    BY <1>2, NoWrite
  <2>2. axi' = IF req.valid
               THEN [MasterIdle EXCEPT
                       !.state = IF req.write THEN "WRITE_REQ" ELSE "READ_ADDR",
                       !.addr = req.addr,
                       !.len = IF req.write THEN 0 ELSE req.len,
                       !.wdata = req.wdata]
               ELSE axi
    BY <1>2, MasterCases DEF MasterStart
  <2>3. CASE req.valid /\ req.write
    <3>1. lsu_arb_valid /\ req.wdata = xw.rs2_data
      BY <2>3 DEF Arbiter, lsu_req
    <3>2. ~req_ready
      BY <1>2 DEF req_ready, read_fire, write_done
    <3>3. xw' = xw
      BY <3>1, <3>2, LsuWaits DEF RefInv
    <3> HIDE DEF req
    <3>4. axi'.state = "WRITE_REQ" /\ axi'.wdata = req.wdata /\ axi'.aw_done = FALSE
            /\ axi'.w_done = FALSE
      BY <2>2, <2>3 DEF MasterIdle
    <3> QED
      BY <2>1, <3>1, <3>3, <3>4 DEF WriteTracks, WriteIdle
  <2>4. CASE ~(req.valid /\ req.write)
    <3> HIDE DEF req
    <3>1. axi'.state \in {"READ_ADDR", "IDLE"}
      BY <1>2, <2>2, <2>4 DEF MasterIdle
    <3> QED
      BY <2>1, <3>1 DEF WriteTracks
  <2> QED
    BY <2>3, <2>4
<1>3. CASE axi.state \in {"READ_ADDR", "READ_DATA"}
  <2>1. wch' = WriteIdle
    BY <1>3, NoWrite
  <2>2. axi'.state \in {"READ_ADDR", "READ_DATA", "IDLE"}
    <3>1. CASE axi.state = "READ_ADDR"
      <4>1. MasterReadAddr(go)
        BY <3>1, MasterCases
      <4> QED
        BY <1>1, <4>1 DEF MasterReadAddr
    <3>2. CASE axi.state = "READ_DATA"
      <4>1. MasterReadData
        BY <3>2, MasterCases
      <4> QED
        BY <1>1, <4>1 DEF MasterReadData, MasterIdle
    <3> QED
      BY <1>3, <3>1, <3>2
  <2> QED
    BY <2>1, <2>2 DEF WriteTracks
<1>4. CASE axi.state = "WRITE_REQ"
  BY <1>4, WriteCycle
<1>5. CASE axi.state = "WRITE_RESP"
  <2>1. /\ ~wch.aw /\ ~wch.w
        /\ wch.resp = IF axi.addr \in BusOk THEN "okay" ELSE "error"
        /\ axi.addr \in BusOk => mem[axi.addr] = xw.rs2_data
    BY <1>5 DEF RefInv, WriteTracks
  <2>2. ~aw_fire(go) /\ ~w_fire(go)
    BY <1>5 DEF aw_fire, w_fire
  <2>3. mem' = mem
    BY <2>1, <2>2 DEF Clock, SlaveWriteClock
  <2>4. axi' = IF write_done THEN MasterIdle ELSE axi
    BY <1>5, MasterCases DEF MasterWriteResp
  <2>5. CASE write_done
    <3>1. wch' = WriteIdle
      BY <2>5 DEF Clock, SlaveWriteClock
    <3> QED
      BY <2>4, <2>5, <3>1 DEF WriteTracks, MasterIdle
  <2>6. CASE ~write_done
    <3>1. wch' = [aw |-> wch.aw \/ aw_fire(go), addr |-> wch.addr,
                  w |-> wch.w \/ w_fire(go), data |-> wch.data, resp |-> wch.resp,
                  valid |-> wch.valid \/ (wch.resp # "none" /\ "B" \in go)]
      BY <2>1, <2>2, <2>6 DEF Clock, SlaveWriteClock
    <3>2. wch'.resp = wch.resp /\ ~wch'.aw /\ ~wch'.w
      BY <2>1, <2>2, <3>1
    <3>3. ~req_ready
      BY <1>5, <2>6 DEF req_ready, read_fire
    <3>4. axi.len = 0 /\ lsu_arb_valid
      BY <1>5 DEF RefInv, IInv, BurstInStep, LsuOwnsBus
    <3>5. xw' = xw
      BY <3>3, <3>4, LsuWaits DEF RefInv
    <3> QED
      BY <1>5, <2>1, <2>3, <2>4, <2>6, <3>2, <3>5 DEF WriteTracks
  <2> QED
    BY <2>5, <2>6
<1> QED
  BY <1>1, <1>2, <1>3, <1>4, <1>5 DEF MasterStates

(***************************************************************************)
(* The read side.                                                          *)
(***************************************************************************)

\* A beat that the slave puts on the R channel is the word in memory.
LEMMA ReadBeatTracks ==
  ASSUME NEW a, NEW b, NEW l, NEW go
  PROVE  /\ ReadBeat(a, b, l, go).addr = a
         /\ ReadBeat(a, b, l, go).valid =>
              IF a \in BusOk
              THEN ~ReadBeat(a, b, l, go).error /\ ReadBeat(a, b, l, go).data = mem[a]
              ELSE ReadBeat(a, b, l, go).error
  BY DEF ReadBeat

\* A clock edge keeps the beat on the R channel in step with the master.
LEMMA ReadStep ==
  ASSUME RefInv, NEW go \in GoSets, Clock(go)
  PROVE  ReadTracks'
<1> SUFFICES ASSUME axi'.state = "READ_DATA" PROVE ReadTracks'
  BY DEF ReadTracks
<1>1. axi \in [state: MasterStates, addr: Word, len: Beat, beat: Beat,
               error: BOOLEAN, wdata: Word, aw_done: BOOLEAN, w_done: BOOLEAN]
        /\ rch.addr \in Word
  BY DEF RefInv, IInv, TypeOK, BusTypeOK
<1>2. axi.state \in {"READ_ADDR", "READ_DATA"}
  <2>1. CASE axi.state = "IDLE"
    <3> DEFINE req == Arbiter(lsu_req, ifu_bus_valid, ifu_bus_addr)
    <3>1. MasterStart(req)
      BY <2>1, MasterCases
    <3> HIDE DEF req
    <3> QED
      BY <2>1, <3>1 DEF MasterStart, MasterIdle
  <2>2. CASE axi.state \in {"WRITE_REQ", "WRITE_RESP"}
    <3>1. CASE axi.state = "WRITE_REQ"
      <4>1. MasterWriteReq(go)
        BY <3>1, MasterCases
      <4> QED
        BY <1>1, <4>1 DEF MasterWriteReq
    <3>2. CASE axi.state = "WRITE_RESP"
      <4>1. MasterWriteResp
        BY <3>2, MasterCases
      <4> QED
        BY <1>1, <4>1 DEF MasterWriteResp, MasterIdle
    <3> QED
      BY <2>2, <3>1, <3>2
  <2> QED
    BY <1>1, <2>1, <2>2 DEF MasterStates
<1>3. mem' = mem
  BY <1>2, NoWrite
<1>4. CASE axi.state = "READ_ADDR"
  <2>1. ar_fire(go) /\ axi' = [axi EXCEPT !.state = "READ_DATA"]
    BY <1>4, MasterCases DEF MasterReadAddr
  <2>2. rch' = ReadBeat(axi.addr, 0, axi.len, go)
    BY <2>1 DEF Clock, SlaveReadClock
  <2>3. axi.beat = 0 /\ ~axi.error
    BY <1>4 DEF RefInv, IInv, BurstInStep
  <2>4. axi'.addr = axi.addr /\ axi'.beat = 0 /\ ~axi'.error
    BY <1>1, <2>1, <2>3
  <2>5. axi.addr \in Int
    BY <1>1, SizesAssumption DEF Word
  <2> QED
    BY <1>3, <2>2, <2>4, <2>5, ReadBeatTracks DEF ReadTracks
<1>5. CASE axi.state = "READ_DATA"
  <2>1. /\ rch.addr = axi.addr + 4 * axi.beat
        /\ axi.len = 0 => ~axi.error
        /\ rch.valid => IF rch.addr \in BusOk
                        THEN ~rch.error /\ rch.data = mem[rch.addr]
                        ELSE rch.error
    BY <1>5 DEF RefInv, ReadTracks
  <2>2. ~ar_fire(go)
    BY <1>5 DEF ar_fire
  <2>3. axi' = IF read_last THEN MasterIdle
               ELSE IF read_fire
               THEN [axi EXCEPT !.beat = @ + 1, !.error = @ \/ rch.error]
               ELSE axi
    BY <1>5, MasterCases DEF MasterReadData
  <2>4. ~read_last
    BY <2>3 DEF MasterIdle
  <2>5. rch.busy /\ rch.beat = axi.beat /\ rch.len = axi.len
    BY <1>5 DEF RefInv, IInv, BurstInStep
  <2>6. CASE read_fire
    <3>1. axi'.beat = axi.beat + 1 /\ axi'.addr = axi.addr /\ axi'.len = axi.len
      BY <1>1, <2>3, <2>4, <2>6
    <3>2. rch' = ReadBeat(Plus(rch.addr, 4), rch.beat + 1, rch.len, go)
      BY <2>2, <2>4, <2>6 DEF Clock, SlaveReadClock, read_last
    <3>3. axi.len # 0
      BY <1>5, <2>4, <2>6, SizesAssumption
      DEF read_last, read_fire, RefInv, IInv, BurstInStep, TypeOK, BusTypeOK, Beat
    <3>4. axi.addr = LineAddr(ifu.miss) /\ axi.beat = ifu.beat /\ ifu.miss \in Word
            /\ axi.len = LineWords - 1 /\ axi.beat < axi.len
      <4>1. axi.addr = LineAddr(ifu.miss) /\ axi.beat = ifu.beat /\ ifu.miss \in Word
              /\ axi.len = LineWords - 1 /\ axi.beat <= axi.len /\ axi.beat # axi.len
        BY <1>5, <2>4, <2>6, <3>3 DEF RefInv, IInv, RefillOwnsBus, BurstInStep, TypeOK, IfuTypeOK,
           ifu_bus_addr, read_last
      <4> QED
        BY <1>1, <4>1, SizesAssumption DEF Beat
    <3>5. LineAddr(ifu.miss) + LineBytes <= Space
      BY <3>4, LineFacts
    <3>6. axi.addr \in Nat /\ axi.beat \in Nat /\ axi.addr + 4 * axi.beat + 4 < Space
      <4>1. axi.beat + 2 <= LineWords /\ axi.beat \in Nat /\ axi.addr \in Nat
        BY <1>1, <3>4, SizesAssumption DEF Beat, Word
      <4> QED
        BY <3>4, <3>5, <4>1, SizesAssumption DEF LineBytes
    <3>7. Plus(rch.addr, 4) = axi.addr + 4 * (axi.beat + 1)
      <4>1. rch.addr + 4 = axi.addr + 4 * (axi.beat + 1) /\ rch.addr + 4 \in 0 .. Space - 1
        BY <2>1, <3>6, SizesAssumption
      <4>2. (rch.addr + 4) % Space = rch.addr + 4
        BY <4>1, SizesAssumption
      <4> QED
        BY <4>1, <4>2 DEF Plus
    <3>8. rch'.addr = axi'.addr + 4 * axi'.beat
      BY <3>1, <3>2, <3>7, ReadBeatTracks
    <3>9. rch'.valid => IF rch'.addr \in BusOk
                        THEN ~rch'.error /\ rch'.data = mem'[rch'.addr]
                        ELSE rch'.error
      BY <1>3, <3>2, ReadBeatTracks
    <3> QED
      BY <3>1, <3>3, <3>8, <3>9 DEF ReadTracks
  <2>7. CASE ~read_fire
    <3>1. axi' = axi
      BY <2>3, <2>4, <2>7
    <3>2. rch' = rch \/ rch' = ReadBeat(rch.addr, rch.beat, rch.len, go)
      BY <2>2, <2>7 DEF Clock, SlaveReadClock
    <3> QED
      BY <1>3, <2>1, <3>1, <3>2, ReadBeatTracks DEF ReadTracks
  <2> QED
    BY <2>6, <2>7
<1> QED
  BY <1>2, <1>4, <1>5

-----------------------------------------------------------------------------
(***************************************************************************)
(* What a cycle does to the pipeline, by what is in W.                     *)
(***************************************************************************)

\* The packets that D and X pass on.
DPacket ==
  [valid |-> TRUE, pc |-> fd.pc, inst |-> d_inst, err |-> fd.err,
   rs1_data |-> d_rs1_data, rs2_data |-> d_rs2_data]
XPacket ==
  [valid |-> TRUE, pc |-> dx.pc, inst |-> dx.inst, err |-> dx.err,
   rs1_data |-> dx.rs1_data, rs2_data |-> dx.rs2_data,
   csr_rdata |-> CsrRead(csr, dx.inst.csr), alu_result |-> adder_result,
   pc_exception |-> x_pc_exception, mem_misaligned |-> x_mem_misaligned,
   redirect |-> x_redirect, redirect_pc |-> x_redirect_pc]

\* An access that waits in W stops everything behind it.
LEMMA StallCycle ==
  ASSUME IInv, NEW go \in GoSets, Clock(go), w_stage_stall
  PROVE  /\ xw.valid /\ ~dx.valid /\ xw' = xw /\ dx' = dx
         /\ csr' = csr /\ rf' = rf /\ halted' = halted
         /\ ~w_redirect /\ ~x_redirect /\ ~ifu_invalidate /\ ~w_retire_ready
         /\ ~d_can_advance
<1>1. xw.valid /\ ~dx.valid /\ ~w_mem_ready
  BY DEF w_stage_stall, IInv, StagesApart
<1>2. xw' = xw /\ dx' = dx /\ ~w_redirect /\ ~w_retire_ready
  BY WStage
<1>3. ~w_wb_wen /\ ~x_redirect /\ ~ifu_invalidate /\ ~d_can_advance
  BY <1>1, <1>2 DEF w_wb_wen, x_redirect, ifu_invalidate, d_can_advance
<1>4. csr' = csr /\ rf' = rf
  BY <1>2, <1>3 DEF Clock, CsrClock, RegFileClock
<1>5. halted' = halted
  BY <1>2 DEF Clock, HaltClock, IInv, TypeOK
<1> QED
  BY <1>1, <1>2, <1>3, <1>4, <1>5

\* Otherwise the instruction in W retires and D moves on, or is flushed.
LEMMA RetireCycle ==
  ASSUME IInv, NEW go \in GoSets, Clock(go), xw.valid, ~w_stage_stall
  PROVE  /\ w_retire_ready /\ w_mem_ready /\ ~halted /\ ~dx.valid /\ ~x_redirect /\ xw' = Bubble
         /\ w_redirect => dx' = Bubble /\ fd' = Bubble /\ f_pc' = w_next_pc
         /\ ~w_redirect => dx' = IF fd.valid THEN DPacket ELSE dx
<1>1. w_retire_ready /\ w_mem_ready /\ ~halted /\ ~dx.valid /\ ~x_redirect
  BY WStage DEF w_retire_ready, x_redirect, IInv, StagesApart
<1>2. ~x_can_advance /\ ~load_use_stall /\ (d_can_advance <=> fd.valid)
  BY <1>1 DEF x_can_advance, load_use_stall, d_can_advance
<1>3. xw' = Bubble
  BY <1>1, <1>2 DEF Clock, XwClock
<1>4. w_redirect => dx' = Bubble /\ fd' = Bubble /\ f_pc' = w_next_pc
  BY DEF Clock, DxClock, FetchClock, FetchRedirect
<1>5. ~w_redirect => dx' = IF fd.valid THEN DPacket ELSE dx
  BY <1>1, <1>2 DEF Clock, DxClock, DPacket
<1> QED
  BY <1>1, <1>3, <1>4, <1>5

\* An empty W leaves the architectural state alone.
LEMMA EmptyCycle ==
  ASSUME IInv, NEW go \in GoSets, Clock(go), ~xw.valid
  PROVE  /\ csr' = csr /\ rf' = rf /\ halted' = halted
         /\ ~w_redirect /\ ~ifu_invalidate /\ ~w_stage_stall /\ ~w_retire_ready
         /\ ~lsu_arb_valid /\ ~w_wb_wen
         /\ dx.valid => xw' = XPacket /\ ~dx'.valid /\ ~fd.valid
         /\ ~dx.valid => ~xw'.valid /\ dx' = IF fd.valid THEN DPacket ELSE dx
<1>1. ~w_redirect /\ ~ifu_invalidate /\ ~w_stage_stall /\ ~w_retire_ready /\ ~w_wb_wen
        /\ ~lsu_arb_valid
  BY DEF w_redirect, ifu_invalidate, w_stage_stall, w_retire_ready, w_wb_wen, w_complete_inst,
         w_can_complete_no_mem_fault, lsu_arb_valid, lsu_raw_valid, w_mem_access
<1>2. csr' = csr /\ rf' = rf
  BY <1>1 DEF Clock, CsrClock, RegFileClock
<1>3. halted' = halted
  BY <1>1 DEF Clock, HaltClock, IInv, TypeOK
<1>4. ~load_use_stall /\ (x_can_advance <=> dx.valid)
  BY <1>1 DEF load_use_stall, x_can_advance
<1>5. dx.valid => xw' = XPacket
  BY <1>1, <1>4 DEF Clock, XwClock, XPacket
<1>6. dx.valid => ~dx'.valid /\ ~fd.valid
  BY XStage
<1>7. ~dx.valid => ~xw'.valid
  BY <1>1, WStage
<1>8. ~dx.valid => dx' = IF fd.valid THEN DPacket ELSE dx
  BY <1>1, <1>4 DEF Clock, DxClock, DPacket, d_can_advance, x_redirect
<1> QED
  BY <1>1, <1>2, <1>3, <1>5, <1>6, <1>7, <1>8

\* F without a redirect: F/D moves on or waits, or takes the response.
LEMMA FetchCycle ==
  ASSUME IInv, NEW go \in GoSets, Clock(go), ~w_redirect, ~x_redirect
  PROVE  /\ fd.valid => /\ f_pc' = f_pc /\ ~ifu_inst_ready
                        /\ fd' = IF w_stage_stall THEN fd ELSE Bubble
         /\ ~fd.valid =>
              \/ /\ ifu_inst_ready /\ ~drop_fetch_response
                 /\ fd' = [valid |-> TRUE, pc |-> f_pc, word |-> inst(f_pc, ifu_bus),
                           err |-> inst_error(ifu_bus)]
                 /\ f_pc' = Plus(f_pc, 4)
              \/ ~fd'.valid /\ f_pc' = f_pc
<1>1. FetchDrop \/ FetchAccept \/ FetchNone
  BY DEF Clock, FetchClock
<1>2. fd.valid => ~ifu_inst_ready
  BY Response
<1>3. fd.valid => (d_can_advance <=> ~w_stage_stall)
  BY DEF d_can_advance, load_use_stall, IInv, StagesApart
<1>4. CASE fd.valid
  <2>1. FetchNone
    BY <1>1, <1>2, <1>4 DEF FetchDrop, FetchAccept
  <2> QED
    BY <1>2, <1>3, <1>4, <2>1 DEF FetchNone
<1>5. CASE ~fd.valid
  BY <1>1, <1>5 DEF FetchDrop, FetchAccept, FetchNone, Bubble
<1> QED
  BY <1>4, <1>5

-----------------------------------------------------------------------------
(***************************************************************************)
(* Fetching.                                                               *)
(***************************************************************************)

\* A line is served as a whole, so all its words answer alike.
LEMMA SameLine ==
  ASSUME NEW a \in Word, a % 4 = 0, NEW b \in Beat
  PROVE  LineAddr(a) + 4 * b \in BusOk <=> a \in BusOk
  BY BeatFacts, LinesAssumption

\* fetchable grows with memory and starts again at a fence.i, when no write
\* is in progress.
LEMMA FetchableStep ==
  ASSUME RefInv, NEW go \in GoSets, HClock(go)
  PROVE  /\ FetchableOK'
         /\ ~ifu_invalidate => \A a \in BusOk : fetchable[a] \subseteq fetchable'[a]
         /\ (~ifu_invalidate /\ mem' = mem) => fetchable' = fetchable
         /\ ifu_invalidate => mem' = mem /\ fetchable' = [a \in BusOk |-> {mem[a]}]
<1>1. Clock(go)
  BY DEF HClock
<1>2. mem \in [BusOk -> Word] /\ mem' \in [BusOk -> Word]
  BY <1>1, TypeStep DEF RefInv, IInv, TypeOK, BusTypeOK
<1>3. fetchable \in [BusOk -> SUBSET Word] /\ \A a \in BusOk : mem[a] \in fetchable[a]
  BY DEF RefInv, FetchableOK
<1>4. CASE ifu_invalidate
  <2>1. xw.inst.op = "fence_i" /\ xw.valid
    BY <1>4 DEF ifu_invalidate, w_retire_ready
  <2>2. axi.state \notin {"WRITE_REQ", "WRITE_RESP"}
    BY <2>1 DEF RefInv, IInv, LsuOwnsBus, BurstInStep, mem_wen
  <2>3. mem' = mem
    BY <1>1, <2>2, NoWrite
  <2>4. fetchable' = [a \in BusOk |-> {mem[a]}]
    BY <1>4 DEF HClock
  <2> QED
    BY <1>2, <1>4, <2>3, <2>4 DEF FetchableOK
<1>5. CASE ~ifu_invalidate
  <2>1. fetchable' = [a \in BusOk |-> fetchable[a] \cup {mem'[a]}]
    BY <1>5 DEF HClock
  <2>2. FetchableOK'
    BY <1>2, <1>3, <2>1 DEF FetchableOK
  <2>3. \A a \in BusOk : fetchable[a] \subseteq fetchable'[a]
    BY <2>1
  <2>4. ASSUME mem' = mem PROVE fetchable' = fetchable
    <3>1. \A a \in BusOk : fetchable[a] \cup {mem[a]} = fetchable[a]
      BY <1>3
    <3> QED
      BY <1>3, <2>1, <2>4, <3>1
  <2> QED
    BY <1>5, <2>2, <2>3, <2>4
<1> QED
  BY <1>4, <1>5

\* A trap that X has found out retires at once and redirects the fetch.
LEMMA TrapNow ==
  ASSUME IInv, xw.valid, XwTraps
  PROVE  w_redirect /\ w_retire_ready /\ ~w_stage_stall /\ w_base_trap_request
<1>1. ~halted
  BY DEF IInv, HaltedIsEmpty
<1>2. ~w_can_complete_no_mem_fault /\ w_base_trap_request
  BY DEF XwTraps, w_can_complete_no_mem_fault, w_base_trap_request
<1>3. w_mem_ready
  BY <1>2 DEF w_mem_ready, w_mem_access
<1> QED
  BY <1>1, <1>2, <1>3 DEF w_redirect, w_retire_ready, w_stage_stall, w_precise_trap,
     w_bad_without_vector, w_trap_request

\* The pc in F is aligned whenever it is fetched or a refill delivers it.
LEMMA FetchAligned ==
  ASSUME RefInv
  PROVE  /\ ifu_fetch_valid => f_pc % 4 = 0
         /\ (ifu_inst_ready /\ ~drop_fetch_response) => f_pc % 4 = 0
<1>1. ifu_fetch_valid => f_pc % 4 = 0
  BY TrapNow DEF RefInv, Aligned, ifu_fetch_valid
<1>2. ifu.state \in {"IDLE", "REFILL"}
  BY DEF RefInv, IInv, TypeOK, IfuTypeOK
<1>3. (ifu_inst_ready /\ ifu.state = "IDLE") => ifu_fetch_valid
  BY Response DEF RefInv
<1>4. (ifu.state = "REFILL" /\ ~drop_fetch_response) => f_pc % 4 = 0
  BY DEF RefInv, Aligned, MissIsPc
<1> QED
  BY <1>1, <1>2, <1>3, <1>4

\* A beat of a refill is the word of the line in memory, or the line is outside.
LEMMA RefillBeat ==
  ASSUME RefInv, refill_fire(ifu_bus)
  PROVE  LET a == LineAddr(ifu.miss) + 4 * ifu.beat IN
         /\ ~xw.valid
         /\ ifu.beat \in Beat /\ ifu.miss \in Word /\ ifu.miss % 4 = 0
         /\ ifu_bus.error <=> refill_error(ifu_bus)
         /\ refill_error(ifu_bus) => ifu.miss \notin BusOk
         /\ ~refill_error(ifu_bus) =>
              ~ifu.error /\ a \in BusOk /\ ifu_bus.rdata = mem[a]
<1> DEFINE a == LineAddr(ifu.miss) + 4 * ifu.beat
<1>1. ifu.state = "REFILL" /\ ifu_bus.ready
  BY DEF refill_fire
<1>2. IInv
  BY DEF RefInv
<1>3. axi.len # 0
  BY <1>1, <1>2, LsuAnswerOnly
<1>4. ~xw.valid /\ req_ready /\ (ifu_bus.error <=> req_error)
  BY <1>1, <1>2, <1>3, RefillAnswer
<1>5. axi.state \in {"READ_ADDR", "READ_DATA"}
  BY <1>2, <1>3 DEF IInv, BurstInStep
<1>6. axi.state = "READ_DATA" /\ rch.valid /\ read_fire
  BY <1>4, <1>5 DEF req_ready, read_fire, write_done
<1>7. axi.addr = LineAddr(ifu.miss) /\ axi.beat = ifu.beat /\ axi.error = ifu.error
  BY <1>2, <1>3, <1>5 DEF IInv, RefillOwnsBus, ifu_bus_addr
<1>8. ifu.beat \in Beat /\ ifu.miss \in Word /\ ifu.miss % 4 = 0
  BY <1>1, <1>2 DEF RefInv, Aligned, IInv, TypeOK, IfuTypeOK
<1>9. rch.addr = a /\ (IF rch.addr \in BusOk THEN ~rch.error /\ rch.data = mem[rch.addr]
                                             ELSE rch.error)
  BY <1>6, <1>7 DEF RefInv, ReadTracks
<1>10. req_error <=> (ifu.error \/ rch.error)
  BY <1>6, <1>7 DEF req_error, write_done
<1>11. ifu_bus.rdata = rch.data
  BY DEF ifu_bus, IfuAnswer, req_rdata
<1>12. refill_error(ifu_bus) <=> (ifu.error \/ rch.error)
  BY <1>4, <1>10 DEF refill_error
<1>13. a \in BusOk <=> ifu.miss \in BusOk
  BY <1>8, SameLine
<1>14. ifu.error => ifu.miss \notin BusOk
  BY <1>1 DEF RefInv, RefillData
<1> HIDE DEF a
<1>15. ifu_bus.error <=> refill_error(ifu_bus)
  BY <1>4, <1>10, <1>12
<1>16. refill_error(ifu_bus) => ifu.miss \notin BusOk
  BY <1>9, <1>12, <1>13, <1>14
<1>17. ~refill_error(ifu_bus) => ~ifu.error /\ a \in BusOk /\ ifu_bus.rdata = mem[a]
  BY <1>9, <1>11, <1>12
<1> QED
  BY <1>4, <1>8, <1>15, <1>16, <1>17 DEF a

\* What F takes is a word that may be fetched at its pc, or a fetch fault.
LEMMA Delivered ==
  ASSUME RefInv, ifu_inst_ready, ~drop_fetch_response
  PROVE  IF inst_error(ifu_bus) THEN f_pc \notin BusOk
         ELSE f_pc \in BusOk /\ inst(f_pc, ifu_bus) \in fetchable[f_pc]
<1>1. f_pc \in Word /\ f_pc % 4 = 0
  BY FetchAligned DEF RefInv, IInv, TypeOK
<1>2. LineAddr(f_pc) + 4 * Offset(f_pc) = f_pc /\ Offset(f_pc) \in Beat /\ Index(f_pc) \in Sets
        /\ LineBase(Index(f_pc), Tag(f_pc)) = LineAddr(f_pc)
  BY <1>1, OffsetFacts, OffsetType, IndexType, LineFacts
<1>3. CASE ifu.state = "IDLE"
  <2>1. hit(f_pc) /\ ~inst_error(ifu_bus) /\ inst(f_pc, ifu_bus) = cache[Index(f_pc)].data[Offset(f_pc)]
    BY <1>3 DEF ifu_inst_ready, inst_ready, refill_last, refill_fire, inst_error, inst
  <2>2. cache[Index(f_pc)].valid /\ cache[Index(f_pc)].tag = Tag(f_pc)
    BY <2>1 DEF hit
  <2>3. LET a == LineBase(Index(f_pc), cache[Index(f_pc)].tag) + 4 * Offset(f_pc) IN
        a \in BusOk /\ cache[Index(f_pc)].data[Offset(f_pc)] \in fetchable[a]
    BY <1>2, <1>3, <2>2 DEF RefInv, CacheCoherent
  <2> QED
    BY <1>2, <2>1, <2>2, <2>3
<1>4. CASE ifu.state = "REFILL"
  <2>1. refill_last(ifu_bus) /\ refill_fire(ifu_bus) /\ ifu.beat = LineWords - 1
    BY <1>4 DEF ifu_inst_ready, inst_ready, refill_last
  <2>2. ifu.miss = f_pc
    BY <1>4 DEF RefInv, MissIsPc
  <2>3. CASE refill_error(ifu_bus)
    BY <2>1, <2>2, <2>3, RefillBeat DEF inst_error
  <2>4. CASE ~refill_error(ifu_bus)
    <3>1. ~inst_error(ifu_bus) /\ inst(f_pc, ifu_bus) = refill_inst(ifu_bus)
      BY <1>4, <2>4 DEF inst_error, inst
    <3>2. ~ifu.error /\ LineAddr(f_pc) + 4 * ifu.beat \in BusOk
            /\ ifu_bus.rdata = mem[LineAddr(f_pc) + 4 * ifu.beat] /\ ifu.beat \in Beat
      BY <2>1, <2>2, <2>4, RefillBeat
    <3>3. f_pc \in BusOk
      BY <1>1, <3>2, SameLine
    <3>4. CASE Offset(f_pc) = LineWords - 1
      <4>1. refill_inst(ifu_bus) = mem[f_pc]
        BY <1>2, <2>1, <2>2, <3>2, <3>4 DEF refill_inst
      <4> QED
        BY <3>1, <3>3, <4>1 DEF RefInv, FetchableOK
    <3>5. CASE Offset(f_pc) # LineWords - 1
      <4>1. refill_inst(ifu_bus) = cache[Index(f_pc)].data[Offset(f_pc)]
        BY <2>2, <3>5 DEF refill_inst
      <4>2. Offset(f_pc) < ifu.beat
        BY <1>2, <2>1, <3>5, SizesAssumption DEF Beat
      <4>3. cache[Index(f_pc)].data[Offset(f_pc)] \in fetchable[LineAddr(f_pc) + 4 * Offset(f_pc)]
        BY <1>2, <1>4, <2>2, <3>2, <4>2 DEF RefInv, RefillData
      <4> QED
        BY <1>2, <3>1, <3>3, <4>1, <4>3
    <3> QED
      BY <3>4, <3>5
  <2> QED
    BY <2>3, <2>4
<1> QED
  BY <1>3, <1>4 DEF RefInv, IInv, TypeOK, IfuTypeOK

\* While a refill has stored words, W is empty: no fence.i can pass it.
LEMMA InvalidateFirst ==
  ASSUME RefInv, ifu_invalidate
  PROVE  /\ ~refill_fire(ifu_bus)
         /\ ifu.state = "REFILL" => ifu.beat = 0 /\ ~ifu.error
<1>1. xw.valid /\ IInv
  BY DEF ifu_invalidate, w_retire_ready, RefInv
<1>2. axi.len = 0
  BY <1>1, RefillAnswer
<1> QED
  BY <1>1, <1>2, RefillBeat DEF IInv, RefillFresh

\* Invalidating touches the valid bits only.
LEMMA InvalidatedFacts ==
  ASSUME NEW c \in [Sets -> Line], NEW inv, NEW s \in Sets
  PROVE  /\ Invalidated(c, inv)[s].data = c[s].data
         /\ Invalidated(c, inv)[s].tag = c[s].tag
         /\ inv => ~Invalidated(c, inv)[s].valid
         /\ ~inv => Invalidated(c, inv) = c
  BY DEF Invalidated, Line

\* A beat writes its word and nothing else into the line.
LEMMA FilledFacts ==
  ASSUME RefInv, NEW line \in Line
  PROVE  /\ Filled(line, ifu_bus).valid = line.valid
         /\ Filled(line, ifu_bus).tag = line.tag
         /\ \A b \in Beat : Filled(line, ifu_bus).data[b]
                              = IF b = ifu.beat THEN ifu_bus.rdata ELSE line.data[b]
<1>1. line.data \in [Beat -> Word] /\ line \in [valid: BOOLEAN, tag: Nat, data: [Beat -> Word]]
  BY DEF Line
<1>2. Filled(line, ifu_bus).data = [line.data EXCEPT ![ifu.beat] = ifu_bus.rdata]
        /\ Filled(line, ifu_bus).valid = line.valid /\ Filled(line, ifu_bus).tag = line.tag
  BY <1>1 DEF Filled
<1> QED
  BY <1>1, <1>2

\* What the line under refill holds after a beat without error.
LEMMA RefillStores ==
  ASSUME RefInv, NEW go \in GoSets, HClock(go), refill_fire(ifu_bus),
         ~refill_error(ifu_bus)
  PROVE  \A b \in Beat : b <= ifu.beat =>
           /\ LineAddr(ifu.miss) + 4 * b \in BusOk
           /\ Filled(cache[Index(ifu.miss)], ifu_bus).data[b]
                \in fetchable'[LineAddr(ifu.miss) + 4 * b]
<1>1. ~xw.valid /\ ifu.beat \in Beat /\ ifu.miss \in Word /\ ifu.miss % 4 = 0
        /\ ~ifu.error /\ ifu_bus.rdata = mem[LineAddr(ifu.miss) + 4 * ifu.beat]
        /\ LineAddr(ifu.miss) + 4 * ifu.beat \in BusOk
  BY RefillBeat
<1>2. ~ifu_invalidate
  BY <1>1 DEF ifu_invalidate, w_retire_ready
<1>3. \A a \in BusOk : fetchable[a] \subseteq fetchable'[a]
  BY <1>2, FetchableStep
<1>4. cache[Index(ifu.miss)] \in Line
  BY <1>1, IndexType DEF RefInv, IInv, TypeOK, IfuTypeOK
<1> SUFFICES ASSUME NEW b \in Beat, b <= ifu.beat
             PROVE  /\ LineAddr(ifu.miss) + 4 * b \in BusOk
                    /\ Filled(cache[Index(ifu.miss)], ifu_bus).data[b]
                         \in fetchable'[LineAddr(ifu.miss) + 4 * b]
  OBVIOUS
<1>5. CASE b = ifu.beat
  <2>1. Filled(cache[Index(ifu.miss)], ifu_bus).data[b] = mem[LineAddr(ifu.miss) + 4 * b]
    BY <1>1, <1>4, <1>5, FilledFacts
  <2>2. mem[LineAddr(ifu.miss) + 4 * b] \in fetchable[LineAddr(ifu.miss) + 4 * b]
    BY <1>1, <1>5 DEF RefInv, FetchableOK
  <2> QED
    BY <1>1, <1>3, <1>5, <2>1, <2>2
<1>6. CASE b # ifu.beat
  <2>1. b < ifu.beat
    BY <1>1, <1>6, SizesAssumption DEF Beat
  <2>2. LineAddr(ifu.miss) + 4 * b \in BusOk
          /\ cache[Index(ifu.miss)].data[b] \in fetchable[LineAddr(ifu.miss) + 4 * b]
    BY <1>1, <2>1 DEF RefInv, RefillData, refill_fire
  <2>3. Filled(cache[Index(ifu.miss)], ifu_bus).data[b] = cache[Index(ifu.miss)].data[b]
    BY <1>4, <1>6, FilledFacts
  <2> QED
    BY <1>3, <2>2, <2>3
<1> QED
  BY <1>5, <1>6

\* A clock edge of the fetch unit stores only words that may be fetched.
LEMMA RefillDataStep ==
  ASSUME RefInv, NEW go \in GoSets, HClock(go)
  PROVE  RefillData'
<1> DEFINE C == Invalidated(cache, ifu_invalidate)
           m == Index(ifu.miss)
<1>1. Clock(go) /\ IfuClock(ifu_fetch_valid, f_pc, ifu_invalidate, ifu_bus)
  BY DEF HClock, Clock
<1>2. /\ cache \in [Sets -> Line] /\ ifu.miss \in Word /\ m \in Sets
      /\ ifu \in [state: {"IDLE", "REFILL"}, miss: Word, beat: Beat, error: BOOLEAN]
  BY IndexType DEF RefInv, IInv, TypeOK, IfuTypeOK
<1>3. CASE IfuMiss(ifu_fetch_valid, f_pc, ifu_invalidate)
  <2>1. ifu'.error = FALSE /\ ifu'.beat = 0
    BY <1>3 DEF IfuMiss
  <2>2. \A b \in Beat : ~(b < 0)
    BY SizesAssumption DEF Beat
  <2> QED
    BY <2>1, <2>2 DEF RefillData
<1>4. CASE IfuBeat(ifu_invalidate, ifu_bus)
  <2>1. refill_fire(ifu_bus) /\ ~ifu_invalidate
    BY <1>4, InvalidateFirst DEF IfuBeat
  <2>2. ifu'.beat = ifu.beat + 1 /\ ifu'.error = refill_error(ifu_bus) /\ ifu'.miss = ifu.miss
    BY <1>2, <1>4 DEF IfuBeat
  <2>3. cache' = [C EXCEPT ![m] = Filled(@, ifu_bus)]
    BY <1>4 DEF IfuBeat
  <2>4. C = cache
    BY <1>2, <2>1, InvalidatedFacts
  <2>5. cache'[m] = Filled(cache[m], ifu_bus)
    BY <1>2, <2>3, <2>4
  <2>6. CASE refill_error(ifu_bus)
    BY <2>1, <2>2, <2>6, RefillBeat DEF RefillData
  <2>7. CASE ~refill_error(ifu_bus)
    <3>1. \A b \in Beat : b < ifu.beat + 1 => b <= ifu.beat
      BY <1>2, SizesAssumption DEF Beat
    <3>2. \A b \in Beat : b < ifu'.beat =>
            /\ LineAddr(ifu'.miss) + 4 * b \in BusOk
            /\ cache'[Index(ifu'.miss)].data[b] \in fetchable'[LineAddr(ifu'.miss) + 4 * b]
      BY <2>1, <2>2, <2>5, <2>7, <3>1, RefillStores
    <3>3. ~ifu'.error
      BY <2>2, <2>7
    <3> QED
      BY <3>2, <3>3 DEF RefillData, LineAddr, Index
  <2> QED
    BY <2>6, <2>7
<1>5. CASE IfuLast(ifu_invalidate, ifu_bus)
  BY <1>5 DEF IfuLast, IfuIdle, RefillData
<1>6. CASE IfuHold(ifu_fetch_valid, f_pc, ifu_invalidate, ifu_bus)
  <2>1. ifu' = ifu /\ cache' = C
    BY <1>6 DEF IfuHold
  <2>2. cache'[m].data = cache[m].data
    BY <1>2, <2>1, InvalidatedFacts
  <2>3. CASE ifu_invalidate
    <3>1. ifu.state = "REFILL" => ifu.beat = 0 /\ ~ifu.error
      BY <2>3, InvalidateFirst
    <3>2. \A b \in Beat : ~(b < 0)
      BY SizesAssumption DEF Beat
    <3> QED
      BY <2>1, <3>1, <3>2 DEF RefillData
  <2>4. CASE ~ifu_invalidate
    <3>1. \A a \in BusOk : fetchable[a] \subseteq fetchable'[a]
      BY <2>4, FetchableStep
    <3> HIDE DEF C
    <3> QED
      BY <2>1, <2>2, <3>1 DEF RefInv, RefillData
  <2> QED
    BY <2>3, <2>4
<1> QED
  BY <1>1, <1>3, <1>4, <1>5, <1>6 DEF IfuClock

\* A clock edge keeps the valid lines coherent, unless a failed refill was
\* written into one of them.
LEMMA CacheStep ==
  ASSUME RefInv, NEW go \in GoSets, HClock(go), FaultFindsNoLine
  PROVE  CacheCoherent'
<1> DEFINE C == Invalidated(cache, ifu_invalidate)
           m == Index(ifu.miss)
           Good(s) == \A b \in Beat :
                        LET a == LineBase(s, cache'[s].tag) + 4 * b IN
                        a \in BusOk /\ cache'[s].data[b] \in fetchable'[a]
<1>1. Clock(go) /\ IfuClock(ifu_fetch_valid, f_pc, ifu_invalidate, ifu_bus)
  BY DEF HClock, Clock
<1>2. cache \in [Sets -> Line] /\ ifu.miss \in Word /\ m \in Sets
  BY IndexType DEF RefInv, IInv, TypeOK, IfuTypeOK
<1>3. C \in [Sets -> Line]
  BY <1>2, InvalidatedType
<1> SUFFICES ASSUME NEW s \in Sets, cache'[s].valid,
                    ~(ifu'.state = "REFILL" /\ Index(ifu'.miss) = s)
             PROVE  Good(s)
  BY DEF CacheCoherent, LineBase, Index
<1>4. ASSUME ~ifu_invalidate, cache'[s] = cache[s],
             ~(ifu.state = "REFILL" /\ Index(ifu.miss) = s)
      PROVE  Good(s)
  <2>1. \A a \in BusOk : fetchable[a] \subseteq fetchable'[a]
    BY <1>4, FetchableStep
  <2> QED
    BY <1>4, <2>1 DEF RefInv, CacheCoherent
<1>5. CASE \/ IfuMiss(ifu_fetch_valid, f_pc, ifu_invalidate)
           \/ IfuHold(ifu_fetch_valid, f_pc, ifu_invalidate, ifu_bus)
  <2>1. cache' = C /\ (ifu.state = "REFILL" => ifu' = ifu)
    BY <1>5 DEF IfuMiss, IfuHold
  <2>2. ~ifu_invalidate
    BY <1>2, <2>1, InvalidatedFacts
  <2>3. cache' = cache
    BY <1>2, <2>1, <2>2, InvalidatedFacts
  <2> QED
    BY <1>4, <2>1, <2>2, <2>3
<1>6. CASE IfuBeat(ifu_invalidate, ifu_bus)
  <2>1. refill_fire(ifu_bus) /\ ~ifu_invalidate
    BY <1>6, InvalidateFirst DEF IfuBeat
  <2>2. C = cache
    BY <1>2, <2>1, InvalidatedFacts
  <2>3. ifu'.state = "REFILL" /\ ifu'.miss = ifu.miss
    BY <1>6, <2>1 DEF IfuBeat, refill_fire, RefInv, IInv, TypeOK, IfuTypeOK
  <2>4. s # m
    BY <2>3
  <2>5. cache'[s] = cache[s]
    BY <1>2, <1>6, <2>2, <2>4 DEF IfuBeat
  <2> QED
    BY <1>4, <2>1, <2>4, <2>5
<1>7. CASE IfuLast(ifu_invalidate, ifu_bus)
  <2>1. refill_last(ifu_bus) /\ refill_fire(ifu_bus) /\ ifu.beat = LineWords - 1
    BY <1>7 DEF IfuLast, refill_last
  <2>2. ~ifu_invalidate /\ C = cache
    BY <1>2, <2>1, InvalidateFirst, InvalidatedFacts
  <2>3. cache' = [cache EXCEPT ![m] = IF refill_error(ifu_bus) THEN Filled(@, ifu_bus)
                                      ELSE Tagged(Filled(@, ifu_bus), ifu_invalidate)]
    BY <1>7, <2>2 DEF IfuLast
  <2>4. CASE s # m
    BY <1>2, <1>4, <2>2, <2>3, <2>4
  <2>5. CASE s = m /\ refill_error(ifu_bus)
    <3>1. cache'[s] = Filled(cache[m], ifu_bus)
      BY <1>2, <2>3, <2>5
    <3>2. ~cache[m].valid
      BY <2>1, <2>5 DEF FaultFindsNoLine, inst_error
    <3>3. cache[m] \in Line
      BY <1>2
    <3>4. ~cache'[s].valid
      BY <3>1, <3>2, <3>3, FilledFacts
    <3> QED
      BY <3>4
  <2>6. CASE s = m /\ ~refill_error(ifu_bus)
    <3>1. cache'[s] = Tagged(Filled(cache[m], ifu_bus), ifu_invalidate)
      BY <1>2, <2>3, <2>6
    <3>2. cache'[s].tag = Tag(ifu.miss) /\ cache'[s].data = Filled(cache[m], ifu_bus).data
      BY <3>1 DEF Tagged
    <3>3. LineBase(s, cache'[s].tag) = LineAddr(ifu.miss)
      BY <1>2, <2>6, <3>2, LineFacts
    <3>4. \A b \in Beat : b <= ifu.beat
      BY <2>1, SizesAssumption DEF Beat
    <3> QED
      BY <2>1, <2>6, <3>2, <3>3, <3>4, RefillStores
  <2> QED
    BY <2>4, <2>5, <2>6
<1> QED
  BY <1>1, <1>5, <1>6, <1>7 DEF IfuClock

-----------------------------------------------------------------------------
(***************************************************************************)
(* The pipeline keeps program order.                                       *)
(***************************************************************************)

\* A refill keeps its address, and F keeps its pc or marks the response.
LEMMA MissStep ==
  ASSUME RefInv, NEW go \in GoSets, Clock(go)
  PROVE  MissIsPc' /\ (ifu'.state = "REFILL" => ifu'.miss % 4 = 0)
<1>1. IfuClock(ifu_fetch_valid, f_pc, ifu_invalidate, ifu_bus) /\ IInv
  BY DEF Clock, RefInv
<1>2. ifu \in [state: {"IDLE", "REFILL"}, miss: Word, beat: Beat, error: BOOLEAN]
  BY <1>1 DEF IInv, TypeOK, IfuTypeOK
<1>3. CASE IfuMiss(ifu_fetch_valid, f_pc, ifu_invalidate)
  <2>1. ifu_fetch_valid /\ ~ifu_inst_ready /\ ifu'.miss = f_pc
    BY <1>3 DEF IfuMiss, ifu_inst_ready, inst_ready, refill_last, refill_fire
  <2>2. ~w_redirect /\ ~x_redirect /\ ~fd.valid
    BY <2>1 DEF ifu_fetch_valid
  <2>3. f_pc' = f_pc
    BY <1>1, <2>1, <2>2, FetchCycle
  <2>4. f_pc % 4 = 0
    BY <2>1, FetchAligned
  <2> QED
    BY <2>1, <2>3, <2>4 DEF MissIsPc
<1>4. CASE ifu.state = "REFILL" /\ ifu'.miss = ifu.miss /\ ~refill_last(ifu_bus)
  <2>1. ifu_pending /\ ~ifu_inst_ready /\ ifu.miss % 4 = 0
    BY <1>1, <1>4 DEF RefInv, Aligned, IInv, PendingIsRefill, ifu_inst_ready, inst_ready
  <2>2. CASE w_redirect \/ x_redirect
    BY <1>4, <2>1, <2>2 DEF Clock, FetchClock, FetchRedirect, MissIsPc
  <2>3. CASE ~w_redirect /\ ~x_redirect
    <3>1. f_pc' = f_pc /\ drop_fetch_response' = drop_fetch_response
      BY <2>1, <2>3 DEF Clock, FetchClock, FetchDrop, FetchAccept, FetchNone
    <3> QED
      BY <1>4, <2>1, <3>1 DEF RefInv, MissIsPc
  <2> QED
    BY <1>4, <2>1, <2>2, <2>3
<1>5. CASE IfuBeat(ifu_invalidate, ifu_bus)
  BY <1>2, <1>4, <1>5 DEF IfuBeat, refill_fire
<1>6. CASE IfuLast(ifu_invalidate, ifu_bus)
  BY <1>6 DEF IfuLast, IfuIdle, MissIsPc
<1>7. CASE IfuHold(ifu_fetch_valid, f_pc, ifu_invalidate, ifu_bus)
  BY <1>2, <1>4, <1>7 DEF IfuHold, refill_last, refill_fire, MissIsPc
<1> QED
  BY <1>1, <1>3, <1>5, <1>6, <1>7 DEF IfuClock

\* mtvec and mepc keep their low bits clear (Csr.v lines 52-61).
LEMMA CsrAligned ==
  ASSUME RefInv, NEW go \in GoSets, Clock(go)
  PROVE  csr'.mtvec % 4 = 0 /\ csr'.mepc % 4 = 0
<1>1. csr \in CsrFile /\ csr.mtvec % 4 = 0 /\ csr.mepc % 4 = 0 /\ TypeOK
  BY DEF RefInv, Aligned, IInv, TypeOK
<1>2. ASSUME NEW r, NEW v \in Word
      PROVE  CsrWrite(csr, r, v).mtvec % 4 = 0 /\ CsrWrite(csr, r, v).mepc % 4 = 0
  <2>1. WordAddr(v) % 4 = 0
    BY WordAddrAligned
  <2>2. CASE r = "mtvec"
    BY <1>1, <2>1, <2>2 DEF CsrWrite, CsrFile
  <2>3. CASE r = "mepc"
    BY <1>1, <2>1, <2>3 DEF CsrWrite, CsrFile
  <2>4. CASE r = "mcause"
    BY <1>1, <2>4 DEF CsrWrite, CsrFile
  <2>5. CASE r \notin {"mtvec", "mepc", "mcause"}
    BY <1>1, <2>5 DEF CsrWrite
  <2> QED
    BY <2>2, <2>3, <2>4, <2>5
<1>3. CASE w_retire_ready /\ w_precise_trap
  <2>1. xw.pc \in Word
    BY <1>1, <1>3, PacketType DEF w_retire_ready, XwPacket
  <2>2. csr' = [csr EXCEPT !.mepc = WordAddr(xw.pc), !.mcause = w_exception_cause]
    BY <1>3 DEF Clock, CsrClock, CsrTrap
  <2> QED
    BY <1>1, <2>1, <2>2, WordAddrAligned DEF CsrFile
<1>4. CASE /\ ~(w_retire_ready /\ w_precise_trap)
           /\ w_retire_ready /\ w_complete_inst /\ csr_cmd(xw.inst)
           /\ csr_cmd(CsrPort.inst)
  <2> DEFINE i == CsrPort.inst
             src == CsrPort.rs1_data
  <2>1. xw \in XwPacket
    BY <1>1, <1>4, PacketType DEF w_retire_ready
  <2>2. src \in Word /\ i \in Instr
    BY <1>1, <2>1, PacketType DEF CsrPort, XwPacket, DxPacket
  <2>3. CsrRead(csr, i.csr) \in Word
    BY <1>1, <2>2, SmallWords DEF CsrRead, CsrFile, Instr, Csrs
  <2>4. BitOr(CsrRead(csr, i.csr), src) \in Word
    BY <2>2, <2>3, BitOrAssumption
  <2>5. csr' = CsrNext(csr, i, src)
    BY <1>4 DEF Clock, CsrClock
  <2> HIDE DEF i, src
  <2> QED
    BY <1>1, <1>2, <2>2, <2>4, <2>5 DEF CsrNext
<1>5. CASE /\ ~(w_retire_ready /\ w_precise_trap)
           /\ ~(w_retire_ready /\ w_complete_inst /\ csr_cmd(xw.inst)
                  /\ csr_cmd(CsrPort.inst))
  <2>1. csr' = csr
    BY <1>5 DEF Clock, CsrClock
  <2> QED
    BY <1>1, <2>1
<1> QED
  BY <1>3, <1>4, <1>5

\* X finds out every misaligned target of an instruction that jumps.
LEMMA MisalignedTraps ==
  ASSUME RefInv, dx.valid, x_redirect, x_redirect_pc % 4 # 0
  PROVE  ~dx.inst.legal \/ x_pc_exception
<1>1. csr.mepc % 4 = 0
  BY DEF RefInv, Aligned
<1> QED
  BY <1>1 DEF x_redirect, x_redirect_pc, x_pc_exception

\* A valid D/X in the next cycle came from F/D in this one, without a flush.
LEMMA DxFromFd ==
  ASSUME IInv, NEW go \in GoSets, Clock(go), dx'.valid
  PROVE  fd.valid /\ ~dx.valid /\ ~w_stage_stall /\ dx' = DPacket /\ ~w_redirect /\ ~x_redirect
<1>1. ~dx.valid /\ ~x_redirect
  BY XStage DEF x_redirect
<1>2. CASE w_stage_stall
  BY <1>1, <1>2, StallCycle
<1>3. CASE xw.valid /\ ~w_stage_stall
  BY <1>1, <1>3, RetireCycle DEF Bubble
<1>4. CASE ~xw.valid
  BY <1>1, <1>4, EmptyCycle
<1> QED
  BY <1>2, <1>3, <1>4

\* A valid X/W in the next cycle waited in W, or came from X into an empty W.
LEMMA XwFromDx ==
  ASSUME IInv, NEW go \in GoSets, Clock(go), xw'.valid
  PROVE  /\ ~w_redirect /\ ~ifu_invalidate /\ csr' = csr /\ rf' = rf
         /\ \/ w_stage_stall /\ xw' = xw /\ xw.valid /\ ~x_redirect
            \/ ~xw.valid /\ dx.valid /\ ~fd.valid /\ ~w_stage_stall /\ xw' = XPacket
<1>1. CASE w_stage_stall
  BY <1>1, StallCycle
<1>2. CASE xw.valid /\ ~w_stage_stall
  BY <1>2, RetireCycle DEF Bubble
<1>3. CASE ~xw.valid
  BY <1>3, EmptyCycle
<1> QED
  BY <1>1, <1>2, <1>3

\* A valid F/D in the next cycle waited there, or was delivered in this one.
LEMMA FdFromFetch ==
  ASSUME IInv, NEW go \in GoSets, Clock(go), fd'.valid
  PROVE  /\ ~w_redirect /\ ~x_redirect
         /\ \/ fd.valid /\ w_stage_stall /\ fd' = fd /\ f_pc' = f_pc
            \/ /\ ~fd.valid /\ ifu_inst_ready /\ ~drop_fetch_response
               /\ fd' = [valid |-> TRUE, pc |-> f_pc, word |-> inst(f_pc, ifu_bus),
                         err |-> inst_error(ifu_bus)]
               /\ f_pc' = Plus(f_pc, 4)
<1>1. ~w_redirect /\ ~x_redirect
  BY DEF Clock, FetchClock, FetchRedirect, Bubble
<1> QED
  BY <1>1, FetchCycle DEF Bubble

\* A clock edge keeps the program counters aligned.
LEMMA AlignedStep ==
  ASSUME RefInv, NEW go \in GoSets, Clock(go)
  PROVE  Aligned'
<1>1. IInv /\ Aligned /\ TypeOK /\ f_pc \in Word
  BY DEF RefInv, IInv, TypeOK
<1>2. fd'.valid => fd'.pc % 4 = 0
  BY <1>1, FdFromFetch, FetchAligned DEF Aligned
<1>3. dx'.valid => dx'.pc % 4 = 0
  BY <1>1, DxFromFd DEF Aligned, DPacket
<1>4. xw'.valid => xw'.pc % 4 = 0
  BY <1>1, XwFromDx DEF Aligned, XPacket
<1>5. f_pc' % 4 = 0 \/ (xw'.valid /\ XwTraps')
  <2>1. CASE w_redirect
    <3>1. xw.valid /\ xw.pc \in Word /\ xw.pc % 4 = 0 /\ csr.mtvec % 4 = 0
      BY <1>1, <2>1, PacketType DEF w_redirect, w_retire_ready, Aligned, XwPacket
    <3>2. w_next_pc % 4 = 0
      BY <3>1, PlusAligned DEF w_next_pc
    <3> QED
      BY <2>1, <3>2 DEF Clock, FetchClock, FetchRedirect
  <2>2. CASE ~w_redirect /\ x_redirect
    <3>1. f_pc' = x_redirect_pc /\ dx.valid
      BY <2>2 DEF Clock, FetchClock, FetchRedirect, x_redirect
    <3>2. ~xw.valid
      BY <1>1, <3>1 DEF IInv, StagesApart
    <3>3. xw' = XPacket
      BY <1>1, <3>1, <3>2, EmptyCycle
    <3>4. x_redirect_pc % 4 # 0 => ~dx.inst.legal \/ x_pc_exception
      BY <2>2, <3>1, MisalignedTraps
    <3> QED
      BY <3>1, <3>3, <3>4 DEF XPacket, XwTraps
  <2>3. CASE ~w_redirect /\ ~x_redirect
    <3>1. f_pc % 4 = 0
      BY <1>1, <2>3, TrapNow DEF Aligned
    <3>2. f_pc' = f_pc \/ f_pc' = Plus(f_pc, 4)
      BY <1>1, <2>3, FetchCycle
    <3> QED
      BY <1>1, <3>1, <3>2, PlusAligned
  <2> QED
    BY <2>1, <2>2, <2>3
<1> QED
  BY <1>2, <1>3, <1>4, <1>5, CsrAligned, MissStep DEF Aligned

\* A clock edge keeps the instructions in program order.
LEMMA InOrderStep ==
  ASSUME RefInv, NEW go \in GoSets, Clock(go)
  PROVE  InOrder'
<1>1. IInv /\ InOrder
  BY DEF RefInv
<1>2. fd'.valid => f_pc' = Plus(fd'.pc, 4)
  BY <1>1, FdFromFetch DEF InOrder
<1>3. dx'.valid => f_pc' = Plus(dx'.pc, 4)
  <2> SUFFICES ASSUME dx'.valid PROVE f_pc' = Plus(dx'.pc, 4)
    OBVIOUS
  <2>1. fd.valid /\ dx' = DPacket /\ ~w_redirect /\ ~x_redirect
    BY <1>1, DxFromFd
  <2>2. f_pc' = f_pc
    BY <1>1, <2>1, FetchCycle
  <2> QED
    BY <1>1, <2>1, <2>2 DEF InOrder, DPacket
<1>4. ASSUME xw'.valid
      PROVE  (IF fd'.valid THEN fd'.pc ELSE f_pc')
               = IF xw'.redirect THEN xw'.redirect_pc ELSE Plus(xw'.pc, 4)
  <2>1. ~w_redirect
    BY <1>1, <1>4, XwFromDx
  <2>2. CASE w_stage_stall /\ xw' = xw /\ xw.valid /\ ~x_redirect
    <3>1. CASE fd.valid
      BY <1>1, <2>1, <2>2, <3>1, FetchCycle DEF InOrder
    <3>2. CASE ~fd.valid
      BY <1>1, <2>1, <2>2, <3>2, FetchCycle DEF InOrder
    <3> QED
      BY <3>1, <3>2
  <2>3. CASE ~xw.valid /\ dx.valid /\ ~fd.valid /\ xw' = XPacket
    <3>1. xw'.redirect = x_redirect /\ xw'.redirect_pc = x_redirect_pc /\ xw'.pc = dx.pc
      BY <2>3 DEF XPacket
    <3>2. CASE x_redirect
      BY <2>1, <3>1, <3>2 DEF Clock, FetchClock, FetchRedirect, Bubble
    <3>3. CASE ~x_redirect
      BY <1>1, <2>1, <2>3, <3>1, <3>3, FetchCycle DEF InOrder
    <3> QED
      BY <3>2, <3>3
  <2> QED
    BY <1>1, <1>4, <2>2, <2>3, XwFromDx
<1> QED
  BY <1>2, <1>3, <1>4 DEF InOrder, Plus

-----------------------------------------------------------------------------
(***************************************************************************)
(* What the boundaries hold.                                               *)
(***************************************************************************)

\* A clock edge that is no fence.i keeps what may be fetched.
LEMMA DecodedStep ==
  ASSUME RefInv, NEW go \in GoSets, HClock(go), ~ifu_invalidate,
         NEW a \in BusOk, NEW w \in fetchable[a]
  PROVE  w \in fetchable'[a]
  BY FetchableStep

\* F/D holds a word that may be fetched at its pc, or a fetch fault.
LEMMA FdStep ==
  ASSUME RefInv, NEW go \in GoSets, HClock(go)
  PROVE  FdOK'
<1> SUFFICES ASSUME fd'.valid
             PROVE  IF fd'.err THEN fd'.pc \notin BusOk
                    ELSE fd'.pc \in BusOk /\ fd'.word \in fetchable'[fd'.pc]
  BY DEF FdOK
<1>1. IInv /\ Clock(go) /\ FdOK
  BY DEF RefInv, HClock
<1>2. ~w_redirect
  BY <1>1, FdFromFetch
<1>3. ~ifu_invalidate
  BY <1>2 DEF w_redirect, ifu_invalidate
<1>4. CASE fd.valid /\ fd' = fd
  BY <1>1, <1>3, <1>4, DecodedStep DEF FdOK
<1>5. CASE /\ ifu_inst_ready /\ ~drop_fetch_response
           /\ fd' = [valid |-> TRUE, pc |-> f_pc, word |-> inst(f_pc, ifu_bus),
                     err |-> inst_error(ifu_bus)]
  <2>1. fd'.pc = f_pc /\ fd'.word = inst(f_pc, ifu_bus) /\ fd'.err = inst_error(ifu_bus)
    BY <1>5
  <2>2. IF inst_error(ifu_bus) THEN f_pc \notin BusOk
        ELSE f_pc \in BusOk /\ inst(f_pc, ifu_bus) \in fetchable[f_pc]
    BY <1>5, Delivered
  <2> QED
    BY <1>3, <2>1, <2>2, DecodedStep
<1> QED
  BY <1>1, <1>4, <1>5, FdFromFetch

\* The register file after this cycle, as D sees it through the forwarding
\* paths (Core.v lines 371-378).
LEMMA Forward ==
  ASSUME IInv, NEW go \in GoSets, Clock(go), fd.valid
  PROVE  /\ reads_rs1(d_inst) => d_rs1_data = RegRead(rf', d_inst.rs1)
         /\ reads_rs2(d_inst) => d_rs2_data = RegRead(rf', d_inst.rs2)
<1>1. rf \in [Reg -> Word] /\ RegFileClock /\ TypeOK
  BY DEF IInv, TypeOK, Clock
<1>2. fd \in FdPacket
  BY <1>1, PacketType
<1>3. d_inst \in Instr
  BY <1>2, DecodeAssumption DEF d_inst, FdPacket
<1>4. d_inst.rs1 \in Reg /\ d_inst.rs2 \in Reg
  BY <1>3 DEF Instr
<1> HIDE DEF d_inst
<1>5. CASE w_wb_wen
  <2>1. xw.valid /\ xw.inst.rd # 0
    BY <1>5 DEF w_wb_wen, w_complete_inst, w_can_complete_no_mem_fault
  <2>2. ~halted
    BY <2>1 DEF IInv, HaltedIsEmpty
  <2>3. xw.inst.rd \in Reg
    BY <1>1, <2>1, PacketType DEF XwPacket, Instr
  <2>4. rf' = [rf EXCEPT ![xw.inst.rd] = wb_data]
    BY <1>1, <1>5, <2>1, <2>2 DEF RegFileClock, RegWrite
  <2>5. ASSUME NEW r \in Reg
        PROVE  RegRead(rf', r) = IF r = xw.inst.rd THEN wb_data ELSE RegRead(rf, r)
    BY <1>1, <2>1, <2>3, <2>4 DEF RegRead
  <2>6. RegRead(rf', d_inst.rs1) = IF d_inst.rs1 = xw.inst.rd THEN wb_data
                                   ELSE RegRead(rf, d_inst.rs1)
    BY <1>4, <2>5
  <2>7. RegRead(rf', d_inst.rs2) = IF d_inst.rs2 = xw.inst.rd THEN wb_data
                                   ELSE RegRead(rf, d_inst.rs2)
    BY <1>4, <2>5
  <2> QED
    BY <1>5, <2>1, <2>6, <2>7 DEF d_rs1_data, d_rs2_data, w_rs1_match, w_rs2_match
<1>6. CASE ~w_wb_wen
  BY <1>1, <1>6 DEF RegFileClock, d_rs1_data, d_rs2_data
<1> QED
  BY <1>5, <1>6

\* D/X holds a decoded instruction with the operands the older ones left.
LEMMA DxStep ==
  ASSUME RefInv, NEW go \in GoSets, HClock(go)
  PROVE  DxOK'
<1> SUFFICES ASSUME dx'.valid PROVE Decoded(dx)' /\ Operands(dx)'
  BY DEF DxOK
<1>1. IInv /\ Clock(go) /\ FdOK
  BY DEF RefInv, HClock
<1>2. fd.valid /\ dx' = DPacket /\ ~w_redirect
  BY <1>1, DxFromFd
<1>3. ~ifu_invalidate
  BY <1>2 DEF w_redirect, ifu_invalidate
<1>4. /\ dx'.pc = fd.pc /\ dx'.err = fd.err /\ dx'.inst = d_inst
      /\ dx'.rs1_data = d_rs1_data /\ dx'.rs2_data = d_rs2_data
  BY <1>2 DEF DPacket
<1>5. Decoded(dx)'
  BY <1>1, <1>2, <1>3, <1>4, DecodedStep DEF FdOK, Decoded, d_inst
<1>6. Operands(dx)'
  BY <1>1, <1>2, <1>4, Forward DEF Operands, RegRead
<1> QED
  BY <1>5, <1>6

\* X/W holds what X computes of such an instruction, as long as it waits in W.
LEMMA XwStep ==
  ASSUME RefInv, NEW go \in GoSets, HClock(go)
  PROVE  XwOK'
<1> SUFFICES ASSUME xw'.valid PROVE Decoded(xw)' /\ Operands(xw)' /\ Executed(xw)'
  BY DEF XwOK
<1>1. IInv /\ Clock(go) /\ DxOK /\ XwOK /\ csr.mepc % 4 = 0
  BY DEF RefInv, HClock, Aligned
<1>2. ~ifu_invalidate /\ csr' = csr /\ rf' = rf
  BY <1>1, XwFromDx
<1>3. CASE xw' = xw /\ xw.valid
  <2>1. Decoded(xw)'
    BY <1>1, <1>2, <1>3, DecodedStep DEF XwOK, Decoded
  <2>2. Operands(xw)'
    BY <1>1, <1>2, <1>3 DEF XwOK, Operands, RegRead
  <2>3. Executed(xw)'
    BY <1>1, <1>2, <1>3 DEF XwOK, Executed, Sum, Goes, Goal, CsrRead, Plus
  <2> QED
    BY <2>1, <2>2, <2>3
<1>4. CASE dx.valid /\ xw' = XPacket
  <2>1. /\ xw'.pc = dx.pc /\ xw'.err = dx.err /\ xw'.inst = dx.inst
        /\ xw'.rs1_data = dx.rs1_data /\ xw'.rs2_data = dx.rs2_data
        /\ xw'.csr_rdata = CsrRead(csr, dx.inst.csr)
        /\ xw'.alu_result = adder_result
        /\ xw'.pc_exception = x_pc_exception
        /\ xw'.mem_misaligned = x_mem_misaligned
        /\ xw'.redirect = x_redirect /\ xw'.redirect_pc = x_redirect_pc
    BY <1>4 DEF XPacket
  <2>2. Decoded(xw)'
    BY <1>1, <1>2, <1>4, <2>1, DecodedStep DEF DxOK, Decoded
  <2>3. Operands(xw)'
    BY <1>1, <1>2, <1>4, <2>1 DEF DxOK, Operands, RegRead
  <2>4. Executed(xw)'
    <3>1. /\ adder_result = Sum(dx)
          /\ x_redirect <=> Goes(dx)
          /\ x_redirect_pc = Goal(dx)
      BY <1>4 DEF adder_result, Sum, x_redirect, x_branch_taken, Goes,
         x_redirect_pc, x_jalr_target, Goal
    <3>2. x_mem_misaligned <=> (mem_ren(dx.inst) \/ mem_wen(dx.inst)) /\ Sum(dx) % 4 # 0
      BY <3>1 DEF x_mem_misaligned
    <3>3. x_pc_exception <=> dx.inst.legal /\ Goes(dx) /\ Goal(dx) % 4 # 0
      BY <1>1, <3>1 DEF x_pc_exception, x_branch_taken, Goes, Goal, x_jalr_target
    <3>4. Sum(xw)' = Sum(dx) /\ (Goes(xw)' <=> Goes(dx)) /\ Goal(xw)' = Goal(dx)
      BY <1>2, <2>1 DEF Sum, Goes, Goal, Plus
    <3> QED
      BY <1>2, <2>1, <3>1, <3>2, <3>3, <3>4 DEF Executed, CsrRead, mem_ren, mem_wen
  <2> QED
    BY <2>2, <2>3, <2>4
<1> QED
  BY <1>1, <1>3, <1>4, XwFromDx

-----------------------------------------------------------------------------
(***************************************************************************)
(* The inductive invariant holds.                                          *)
(***************************************************************************)

\* Reset establishes it.
LEMMA InitRefInv == HInit => RefInv
<1> SUFFICES ASSUME HInit PROVE RefInv
  OBVIOUS
<1>1. Init /\ IInv /\ fetchable = [a \in BusOk |-> {mem[a]}]
  BY InitIInv DEF HInit
<1>2. mem \in [BusOk -> Word]
  BY <1>1 DEF IInv, TypeOK, BusTypeOK
<1>3. FetchableOK
  BY <1>1, <1>2 DEF FetchableOK
<1>4. Aligned /\ MissIsPc /\ InOrder /\ FdOK /\ DxOK /\ XwOK
  BY <1>1, MapAssumption DEF Init, IfuInit, IfuIdle, Bubble, Aligned, MissIsPc, InOrder,
     FdOK, DxOK, XwOK
<1>5. ReadTracks /\ RefillData /\ WriteTracks
  BY <1>1 DEF Init, IfuInit, IfuIdle, BusInit, MasterIdle, ReadTracks, RefillData, WriteTracks
<1>6. CacheCoherent
  BY <1>1 DEF Init, IfuInit, CacheCoherent
<1> QED
  BY <1>1, <1>3, <1>4, <1>5, <1>6 DEF RefInv

\* Every step keeps it, unless a failing refill finds a valid line.
LEMMA NextRefInv ==
  RefInv /\ FaultFindsNoLine /\ [HNext]_allVars => RefInv'
<1> SUFFICES ASSUME RefInv, FaultFindsNoLine, [HNext]_allVars PROVE RefInv'
  OBVIOUS
<1>1. ASSUME NEW go \in GoSets, HClock(go) PROVE RefInv'
  <2>1. Clock(go) /\ IInv
    BY <1>1 DEF HClock, RefInv
  <2>2. IInv'
    BY <2>1, NextIInv DEF Next
  <2>3. FetchableOK'
    BY <1>1, FetchableStep
  <2>4. Aligned' /\ MissIsPc' /\ InOrder'
    BY <2>1, AlignedStep, MissStep, InOrderStep
  <2>5. FdOK' /\ DxOK' /\ XwOK'
    BY <1>1, FdStep, DxStep, XwStep
  <2>6. ReadTracks' /\ WriteTracks'
    BY <2>1, ReadStep, WriteStep
  <2>7. RefillData' /\ CacheCoherent'
    BY <1>1, RefillDataStep, CacheStep
  <2> QED
    BY <2>2, <2>3, <2>4, <2>5, <2>6, <2>7 DEF RefInv
<1>2. CASE UNCHANGED allVars
  <2>1. UNCHANGED <<vars, fetchable, cache, ifu, axi, rch, wch, mem, csr, rf, f_pc, fd, dx,
                    xw, drop_fetch_response>>
    BY <1>2 DEF allVars, vars, coreVars, ifuVars, busVars
  <2>2. IInv'
    BY <2>1, NextIInv DEF RefInv
  <2>3. FetchableOK' /\ Aligned' /\ MissIsPc' /\ InOrder'
    BY <2>1 DEF RefInv, FetchableOK, Aligned, XwTraps, MissIsPc, InOrder, Plus
  <2>4. FdOK' /\ DxOK'
    BY <2>1 DEF RefInv, FdOK, DxOK, Decoded, Operands, RegRead
  <2>5. XwOK'
    BY <2>1 DEF RefInv, XwOK, Decoded, Operands, Executed, Sum, Goes, Goal, RegRead,
       CsrRead, Plus
  <2>6. ReadTracks' /\ WriteTracks'
    BY <2>1 DEF RefInv, ReadTracks, WriteTracks
  <2>7. RefillData' /\ CacheCoherent'
    BY <2>1 DEF RefInv, RefillData, CacheCoherent, LineAddr, Index
  <2> QED
    BY <2>2, <2>3, <2>4, <2>5, <2>6, <2>7 DEF RefInv
<1> QED
  BY <1>1, <1>2 DEF HNext

(***************************************************************************)
(* The invariant holds in every cycle of every core.                       *)
(***************************************************************************)
THEOREM RefInvariance == HSpec /\ []FaultFindsNoLine => []RefInv
  BY InitRefInv, NextRefInv, PTL DEF HSpec

(***************************************************************************)
(* A line that can be looked up never holds a word older than the last     *)
(* fence.i or of another line (Ifu.v lines 168-201).                       *)
(***************************************************************************)
THEOREM CoherentCache == HSpec /\ []FaultFindsNoLine => []CacheCoherent
<1>1. RefInv => CacheCoherent
  BY DEF RefInv
<1> QED
  BY <1>1, RefInvariance, PTL

(***************************************************************************)
(* What F takes without an error is a value the word has had since the     *)
(* last fence.i, from the cache, the stored beats or the bus (Ifu.v lines  *)
(* 85-87).                                                                 *)
(***************************************************************************)
THEOREM FetchDeliversMemory == HSpec /\ []FaultFindsNoLine => []DeliversMemory
<1>1. RefInv => DeliversMemory
  BY Delivered DEF DeliversMemory
<1> QED
  BY <1>1, RefInvariance, PTL

-----------------------------------------------------------------------------
(***************************************************************************)
(* What a commit reports.                                                  *)
(***************************************************************************)

\* The answer to a load or store is that of its own access.
LEMMA Answered ==
  ASSUME RefInv, lsu_arb_valid, req_ready
  PROVE  /\ axi.addr = lsu_raw_addr
         /\ mem_wen(xw.inst) =>
              /\ axi.state = "WRITE_RESP"
              /\ wch.resp = IF lsu_raw_addr \in BusOk THEN "okay" ELSE "error"
              /\ req_error <=> lsu_raw_addr \notin BusOk
              /\ lsu_raw_addr \in BusOk => mem[lsu_raw_addr] = xw.rs2_data
         /\ mem_ren(xw.inst) =>
              /\ axi.state = "READ_DATA"
              /\ req_error <=> lsu_raw_addr \notin BusOk
              /\ lsu_raw_addr \in BusOk => req_rdata = mem[lsu_raw_addr]
<1>1. IInv /\ WriteTracks /\ ReadTracks
  BY DEF RefInv
<1>2. xw.valid
  BY DEF lsu_arb_valid, lsu_raw_valid, w_mem_access, w_can_complete_no_mem_fault
<1>3. axi.state \in {"READ_DATA", "WRITE_RESP"} /\ axi.len = 0
  BY <1>1, <1>2, RefillAnswer DEF req_ready, read_fire, write_done
<1>4. axi.addr = lsu_raw_addr /\ (mem_wen(xw.inst) <=> axi.state = "WRITE_RESP")
  BY <1>1, <1>3 DEF IInv, LsuOwnsBus
<1>5. CASE mem_wen(xw.inst)
  <2>1. axi.state = "WRITE_RESP" /\ write_done /\ ~read_fire
    BY <1>4, <1>5 DEF req_ready, read_fire
  <2>2. wch.resp = IF lsu_raw_addr \in BusOk THEN "okay" ELSE "error"
    BY <1>1, <1>4, <2>1 DEF WriteTracks
  <2>3. lsu_raw_addr \in BusOk => mem[lsu_raw_addr] = xw.rs2_data
    BY <1>1, <1>4, <2>1 DEF WriteTracks
  <2>4. req_error <=> lsu_raw_addr \notin BusOk
    BY <2>1, <2>2 DEF req_error
  <2> QED
    BY <1>4, <1>5, <2>1, <2>2, <2>3, <2>4 DEF mem_wen, mem_ren
<1>6. CASE mem_ren(xw.inst)
  <2>1. axi.state = "READ_DATA" /\ read_fire /\ ~write_done /\ rch.valid
    BY <1>3, <1>4, <1>6 DEF req_ready, read_fire, write_done, mem_wen, mem_ren
  <2>2. axi.beat = 0 /\ axi.addr \in Word /\ ~axi.error
    BY <1>1, <1>3, <2>1 DEF IInv, BurstInStep, ReadTracks, TypeOK, BusTypeOK, Beat
  <2>3. rch.addr = lsu_raw_addr
    BY <1>1, <1>4, <2>1, <2>2 DEF ReadTracks, Word
  <2>4. IF lsu_raw_addr \in BusOk THEN ~rch.error /\ rch.data = mem[lsu_raw_addr] ELSE rch.error
    BY <1>1, <2>1, <2>3 DEF ReadTracks
  <2>5. req_error <=> lsu_raw_addr \notin BusOk
    BY <2>1, <2>2, <2>4 DEF req_error
  <2> QED
    BY <1>4, <1>6, <2>1, <2>4, <2>5 DEF mem_wen, mem_ren, req_rdata
<1> QED
  BY <1>4, <1>5, <1>6

\* The architectural pc after a retirement.
LEMMA RetirePc ==
  ASSUME RefInv, NEW go \in GoSets, Clock(go), w_retire_ready
  PROVE  debug_pc' = IF w_redirect THEN w_next_pc
                     ELSE IF xw.redirect THEN xw.redirect_pc ELSE Plus(xw.pc, 4)
<1>1. IInv /\ InOrder
  BY DEF RefInv
<1>2. xw.valid /\ ~w_stage_stall
  BY DEF w_retire_ready, w_stage_stall
<1>3. ~dx.valid /\ ~x_redirect /\ ~xw'.valid
  BY <1>1, <1>2, RetireCycle DEF Bubble
<1>4. CASE w_redirect
  <2>1. ~dx'.valid /\ ~fd'.valid /\ f_pc' = w_next_pc
    BY <1>1, <1>2, <1>4, RetireCycle DEF Bubble
  <2> QED
    BY <1>3, <1>4, <2>1 DEF debug_pc
<1>5. CASE ~w_redirect
  <2>1. (IF fd.valid THEN fd.pc ELSE f_pc)
          = IF xw.redirect THEN xw.redirect_pc ELSE Plus(xw.pc, 4)
    BY <1>1, <1>2 DEF InOrder
  <2>2. dx' = IF fd.valid THEN DPacket ELSE dx
    BY <1>1, <1>2, <1>5, RetireCycle
  <2>3. debug_pc' = IF fd.valid THEN fd.pc ELSE f_pc
    <3>1. CASE fd.valid
      BY <1>3, <2>2, <3>1 DEF debug_pc, DPacket
    <3>2. CASE ~fd.valid
      BY <1>1, <1>3, <1>5, <2>2, <3>2, FetchCycle DEF debug_pc
    <3> QED
      BY <3>1, <3>2
  <2> QED
    BY <1>5, <2>1, <2>3
<1> QED
  BY <1>4, <1>5

(***************************************************************************)
(* What the debug port reports with a commit is what happened (Core.v      *)
(* lines 440-449): the next pc, unless a taken jump or branch traps, the   *)
(* store that was performed and the value that a load found.               *)
(***************************************************************************)
THEOREM TrueCommits == HSpec /\ []FaultFindsNoLine => CommitIsTrue
<1> DEFINE C == w_retire_ready =>
       /\ w_complete_inst \/ ~xw.redirect => debug_pc' = commit_next_pc
       /\ commit_mem_wen /\ lsu_raw_addr \in BusOk => mem[lsu_raw_addr] = xw.rs2_data
       /\ commit_mem_ren /\ lsu_raw_addr \in BusOk => mem[lsu_raw_addr] = lsu_rdata
<1>1. ASSUME RefInv, NEW go \in GoSets, Clock(go), w_retire_ready PROVE C
  <2>1. xw.valid /\ ~halted /\ w_mem_ready /\ XwOK
    BY <1>1 DEF w_retire_ready, RefInv
  <2>2. w_complete_inst \/ ~xw.redirect => debug_pc' = commit_next_pc
    <3>1. CASE ~xw.redirect
      <4>1. ~w_redirect => w_next_pc = Plus(xw.pc, 4)
        BY <1>1 DEF w_redirect, w_next_pc
      <4> QED
        BY <1>1, <3>1, <4>1, RetirePc DEF commit_next_pc
    <3>2. CASE w_complete_inst /\ xw.redirect
      <4>1. xw.inst.op \in {"mret", "jalr", "jal", "branch"}
        BY <2>1, <3>2 DEF XwOK, Executed, Goes
      <4>2. ~w_redirect
        BY <3>2, <4>1 DEF w_redirect, w_complete_inst, w_can_complete_no_mem_fault,
           w_precise_trap, w_bad_without_vector, w_trap_request, w_base_trap_request,
           ifu_invalidate
      <4> QED
        BY <1>1, <3>2, <4>2, RetirePc DEF commit_next_pc
    <3> QED
      BY <3>1, <3>2
  <2>3. ASSUME w_can_complete_no_mem_fault, mem_ren(xw.inst) \/ mem_wen(xw.inst),
               lsu_raw_addr \in BusOk
        PROVE  lsu_arb_valid /\ req_ready /\ ~lsu_is_clint
    <3>1. w_mem_access /\ lsu_raw_valid /\ lsu_raw_addr \notin Clint
      BY <2>1, <2>3, MapAssumption DEF w_mem_access, lsu_raw_valid
    <3>2. lsu_arb_valid /\ ~lsu_is_clint
      BY <3>1 DEF lsu_arb_valid, lsu_is_clint
    <3> QED
      BY <2>1, <3>1, <3>2 DEF w_mem_ready, lsu_raw_ready, LsuAnswer
  <2>4. commit_mem_wen /\ lsu_raw_addr \in BusOk => mem[lsu_raw_addr] = xw.rs2_data
    BY <1>1, <2>3, Answered DEF commit_mem_wen
  <2>5. commit_mem_ren /\ lsu_raw_addr \in BusOk => mem[lsu_raw_addr] = lsu_rdata
    BY <1>1, <2>3, Answered DEF commit_mem_ren, w_complete_inst, lsu_rdata
  <2> QED
    BY <2>2, <2>4, <2>5
<1>2. RefInv /\ [HNext]_allVars => [C]_allVars
  <2> HIDE DEF C
  <2>1. RefInv /\ HNext => C
    <3>1. ~w_retire_ready => C
      BY DEF C
    <3> QED
      BY <1>1, <3>1 DEF HNext, HClock
  <2> QED
    BY <2>1
<1>3. HSpec /\ []FaultFindsNoLine => [][C]_allVars
  BY <1>2, RefInvariance, PTL DEF HSpec
<1> QED
  BY <1>3 DEF CommitIsTrue

-----------------------------------------------------------------------------
(***************************************************************************)
(* Every clock edge is a step of the architecture or none.                 *)
(***************************************************************************)

\* The architecture and the core share the arithmetic, the registers and the
\* CSRs of NpcDefs.
LEMMA ArchOperators ==
  /\ \A a, b : Arch!Plus(a, b) = Plus(a, b)
  /\ \A f, r : Arch!RegRead(f, r) = RegRead(f, r)
  /\ \A f, r, v : Arch!RegWrite(f, r, v) = RegWrite(f, r, v)
  /\ \A c, r : Arch!CsrRead(c, r) = CsrRead(c, r)
  /\ \A c, i, s : Arch!CsrNext(c, i, s) = CsrNext(c, i, s)
  /\ \A c, p, e : Arch!CsrTrap(c, p, e) = CsrTrap(c, p, e)
  /\ \A a, t : Arch!ClintRead(a, t) = ClintRead(a, t)
<1>1. \A a, b : Arch!Plus(a, b) = Plus(a, b)
  BY DEF Arch!Plus, Plus
<1>2. \A f, r : Arch!RegRead(f, r) = RegRead(f, r)
  BY DEF Arch!RegRead, RegRead
<1>3. \A f, r, v : Arch!RegWrite(f, r, v) = RegWrite(f, r, v)
  BY DEF Arch!RegWrite, RegWrite
<1>4. \A c, r : Arch!CsrRead(c, r) = CsrRead(c, r)
  BY DEF Arch!CsrRead, CsrRead
<1>5. \A c, i, s : Arch!CsrNext(c, i, s) = CsrNext(c, i, s)
  BY DEF Arch!CsrNext, CsrNext, Arch!CsrRead, CsrRead, Arch!CsrWrite, CsrWrite,
     Arch!WordAddr, WordAddr
<1>6. \A c, p, e : Arch!CsrTrap(c, p, e) = CsrTrap(c, p, e)
  BY DEF Arch!CsrTrap, CsrTrap, Arch!WordAddr, WordAddr
<1>7. \A a, t : Arch!ClintRead(a, t) = ClintRead(a, t)
  BY DEF Arch!ClintRead, ClintRead
<1> QED
  BY <1>1, <1>2, <1>3, <1>4, <1>5, <1>6, <1>7

\* A write in progress belongs to a store in W that asks for it.
LEMMA WriteHasOwner ==
  ASSUME IInv, axi.state \in {"WRITE_REQ", "WRITE_RESP"}
  PROVE  lsu_arb_valid /\ mem_wen(xw.inst) /\ xw.valid /\ axi.addr = lsu_raw_addr
<1>1. axi.len = 0
  BY DEF IInv, BurstInStep
<1>2. lsu_arb_valid /\ mem_wen(xw.inst) /\ axi.addr = lsu_raw_addr
  BY <1>1 DEF IInv, LsuOwnsBus
<1> QED
  BY <1>2 DEF lsu_arb_valid, lsu_raw_valid, w_mem_access, w_can_complete_no_mem_fault

\* A cycle with an empty W is invisible to software.
LEMMA EmptyStutters ==
  ASSUME RefInv, NEW go \in GoSets, HClock(go), ~xw.valid
  PROVE  UNCHANGED <<arch_pc, rf, csr, mem, fetchable, halted>>
<1>1. IInv /\ Clock(go)
  BY DEF RefInv, HClock
<1>2. axi.state \notin {"WRITE_REQ", "WRITE_RESP"}
  BY <1>1, WriteHasOwner
<1>3. wch = WriteIdle /\ wch' = WriteIdle /\ mem' = mem
  BY <1>1, <1>2, NoWrite DEF RefInv, WriteTracks
<1>4. ~StorePerformed /\ ~StorePerformed'
  BY <1>3 DEF StorePerformed, WriteIdle
<1>5. csr' = csr /\ rf' = rf /\ halted' = halted /\ ~ifu_invalidate /\ ~w_redirect
      /\ ~w_stage_stall
  BY <1>1, EmptyCycle
<1>6. fetchable' = fetchable
  BY <1>3, <1>5, FetchableStep
<1>7. debug_pc' = debug_pc
  <2>1. CASE dx.valid
    BY <1>1, <2>1, EmptyCycle DEF debug_pc, XPacket
  <2>2. CASE ~dx.valid /\ fd.valid
    BY <1>1, <2>2, EmptyCycle DEF debug_pc, DPacket
  <2>3. CASE ~dx.valid /\ ~fd.valid
    <3>1. ~x_redirect
      BY <2>3 DEF x_redirect
    <3>2. ~xw'.valid /\ ~dx'.valid
      BY <1>1, <2>3, EmptyCycle
    <3> QED
      BY <1>1, <1>5, <2>3, <3>1, <3>2, FetchCycle DEF debug_pc
  <2> QED
    BY <2>1, <2>2, <2>3
<1> QED
  BY <1>3, <1>4, <1>5, <1>6, <1>7 DEF arch_pc

\* A store that waits for its response stays performed, and only once.
LEMMA RespWaits ==
  ASSUME RefInv, NEW go \in GoSets, Clock(go), axi.state = "WRITE_RESP"
  PROVE  /\ mem' = mem
         /\ w_stage_stall => wch'.resp = wch.resp
         /\ ~w_stage_stall => wch' = WriteIdle
<1>1. IInv /\ WriteTracks /\ SlaveWriteClock(go)
  BY DEF RefInv, Clock
<1>2. ~wch.aw /\ ~wch.w /\ ~aw_fire(go) /\ ~w_fire(go)
  BY <1>1 DEF WriteTracks, aw_fire, w_fire
<1>3. lsu_arb_valid
  BY <1>1, WriteHasOwner
<1>4. w_stage_stall <=> ~write_done
  BY <1>3 DEF lsu_arb_valid, lsu_raw_valid, w_stage_stall, w_mem_ready, lsu_raw_ready,
     LsuAnswer, req_ready, read_fire, w_mem_access, w_can_complete_no_mem_fault
<1>5. /\ mem' = mem
      /\ write_done => wch' = WriteIdle
      /\ ~write_done => wch'.resp = wch.resp
  BY <1>1, <1>2 DEF SlaveWriteClock
<1> QED
  BY <1>4, <1>5

\* An access that reaches the bus or the CLINT is aligned, to the address the
\* architecture computes, and of an instruction that may be fetched.
LEMMA AccessFacts ==
  ASSUME RefInv, w_can_complete_no_mem_fault, mem_ren(xw.inst) \/ mem_wen(xw.inst)
  PROVE  /\ xw.valid /\ ~xw.err /\ xw.inst.legal /\ ~xw.redirect
         /\ lsu_raw_addr = Plus(RegRead(rf, xw.inst.rs1), xw.inst.imm)
         /\ lsu_raw_addr \in Word /\ lsu_raw_addr % 4 = 0
         /\ xw.rs1_data = RegRead(rf, xw.inst.rs1)
         /\ mem_wen(xw.inst) => xw.rs2_data = RegRead(rf, xw.inst.rs2)
<1>1. xw.valid /\ ~xw.err /\ xw.inst.legal /\ ~xw.mem_misaligned
  BY DEF w_can_complete_no_mem_fault
<1>2. Operands(xw) /\ Executed(xw) /\ TypeOK
  BY <1>1 DEF RefInv, XwOK, IInv
<1>3. /\ xw.rs1_data = RegRead(rf, xw.inst.rs1)
      /\ mem_wen(xw.inst) => xw.rs2_data = RegRead(rf, xw.inst.rs2)
  BY <1>2 DEF Operands, reads_rs1, reads_rs2, mem_ren, mem_wen
<1>4. xw.alu_result = Sum(xw) /\ Sum(xw) % 4 = 0 /\ ~xw.redirect
  BY <1>1, <1>2 DEF Executed, Goes, mem_ren, mem_wen
<1>5. Sum(xw) = Plus(xw.rs1_data, xw.inst.imm)
  BY DEF Sum, mem_ren, mem_wen
<1>6. xw.alu_result \in Word
  BY <1>1, <1>2, PacketType DEF XwPacket
<1>7. lsu_raw_addr = xw.alu_result
  BY <1>4, <1>6, WordAddrAligned DEF lsu_raw_addr
<1> QED
  BY <1>1, <1>3, <1>4, <1>5, <1>6, <1>7

\* The instruction in W is one that software may fetch at the pc.
LEMMA Fetched ==
  ASSUME RefInv, xw.valid, ~xw.err, arch_pc = xw.pc, ~halted,
         Arch!Execute(xw.inst)
  PROVE  Arch!Next
<1>1. PICK w \in fetchable[xw.pc] : xw.inst = Decode[w]
  BY DEF RefInv, XwOK, Decoded
<1>2. xw.pc \in BusOk
  BY DEF RefInv, XwOK, Decoded
<1>3. Arch!Execute(Decode[w])
  BY <1>1
<1> QED
  BY <1>2, <1>3 DEF Arch!Next

\* A store becomes visible in the cycle that performs its write; the other
\* cycles of an access that waits are invisible.
LEMMA StallStep ==
  ASSUME RefInv, NEW go \in GoSets, HClock(go), w_stage_stall
  PROVE  Arch!Next \/ UNCHANGED <<arch_pc, rf, csr, mem, fetchable, halted>>
<1>1. IInv /\ Clock(go) /\ FetchableOK /\ WriteTracks
  BY DEF RefInv, HClock
<1>2. /\ xw.valid /\ xw' = xw /\ csr' = csr /\ rf' = rf /\ halted' = halted
      /\ ~ifu_invalidate
  BY <1>1, StallCycle
<1>3. ~halted
  BY <1>1, <1>2 DEF IInv, HaltedIsEmpty
<1>4. debug_pc = xw.pc /\ debug_pc' = xw.pc
  BY <1>2 DEF debug_pc
<1>5. CASE mem' = mem /\ (StorePerformed' <=> StorePerformed)
  <2>1. fetchable' = fetchable
    BY <1>2, <1>5, FetchableStep
  <2>2. arch_pc' = arch_pc
    BY <1>2, <1>4, <1>5 DEF arch_pc, Plus
  <2> QED
    BY <1>2, <1>5, <2>1, <2>2
<1>6. CASE axi.state = "WRITE_REQ" /\ axi.addr \in BusOk /\ wch'.resp = "okay"
           /\ mem' = [mem EXCEPT ![axi.addr] = xw.rs2_data]
  <2>1. lsu_arb_valid /\ mem_wen(xw.inst) /\ axi.addr = lsu_raw_addr
    BY <1>1, <1>6, WriteHasOwner
  <2>2. w_can_complete_no_mem_fault /\ lsu_raw_addr \notin Clint
    BY <2>1 DEF lsu_arb_valid, lsu_raw_valid, lsu_is_clint, w_mem_access
  <2>3. ~StorePerformed /\ StorePerformed'
    BY <1>1, <1>6 DEF WriteTracks, StorePerformed
  <2>4. arch_pc = xw.pc /\ arch_pc' = Plus(xw.pc, 4)
    BY <1>2, <1>4, <2>3 DEF arch_pc, Plus
  <2> DEFINE a == lsu_raw_addr
             v == xw.rs2_data
  <2>5. /\ a = Plus(RegRead(rf, xw.inst.rs1), xw.inst.imm)
        /\ v = RegRead(rf, xw.inst.rs2)
        /\ ~xw.err /\ xw.inst.legal /\ xw.inst.op = "store"
    BY <2>1, <2>2, AccessFacts DEF mem_wen
  <2>6. a \in BusOk /\ a \notin Clint /\ mem' = [mem EXCEPT ![a] = v]
    BY <1>6, <2>1, <2>2
  <2>7. mem \in [BusOk -> Word] /\ fetchable \in [BusOk -> SUBSET Word]
        /\ \A b \in BusOk : mem[b] \in fetchable[b]
    BY <1>1 DEF IInv, TypeOK, BusTypeOK, FetchableOK
  <2>8. fetchable' = [b \in BusOk |-> fetchable[b] \cup {mem'[b]}]
    BY <1>2 DEF HClock
  <2> HIDE DEF a, v
  <2>9. fetchable' = [fetchable EXCEPT ![a] = @ \cup {v}]
    BY <2>6, <2>7, <2>8
  <2>10. Arch!Effective(xw.inst) = a /\ Arch!Src2(xw.inst) = v /\ Arch!Link = Plus(arch_pc, 4)
    BY <2>5, ArchOperators DEF Arch!Effective, Arch!Src1, Arch!Src2, Arch!Link
  <2>11. Arch!Store(xw.inst)
    BY <1>2, <2>4, <2>5, <2>6, <2>9, <2>10 DEF Arch!Store
  <2> QED
    BY <1>2, <1>3, <2>4, <2>5, <2>11, Fetched DEF Arch!Execute
<1>7. CASE axi.state = "WRITE_REQ"
  <2>1. wch.resp = "none"
    BY <1>1, <1>7 DEF WriteTracks
  <2>2. \/ mem' = mem /\ wch'.resp # "okay"
        \/ /\ axi.addr \in BusOk /\ wch'.resp = "okay"
           /\ mem' = [mem EXCEPT ![axi.addr] = xw.rs2_data]
    BY <1>1, <1>7, WriteCycle
  <2> QED
    BY <1>5, <1>6, <1>7, <2>1, <2>2 DEF StorePerformed
<1>8. CASE axi.state = "WRITE_RESP"
  BY <1>1, <1>5, <1>8, RespWaits DEF StorePerformed
<1>9. CASE axi.state \notin {"WRITE_REQ", "WRITE_RESP"}
  <2>1. wch = WriteIdle /\ wch' = WriteIdle /\ mem' = mem
    BY <1>1, <1>9, NoWrite DEF WriteTracks
  <2> QED
    BY <1>5, <2>1 DEF StorePerformed
<1> QED
  BY <1>7, <1>8, <1>9

\* A retirement leaves memory and the write side at rest.
LEMMA RetireWrites ==
  ASSUME RefInv, NEW go \in GoSets, Clock(go), w_retire_ready
  PROVE  /\ mem' = mem /\ ~StorePerformed'
         /\ arch_pc' = debug_pc'
         /\ ~StorePerformed => arch_pc = xw.pc
         /\ StorePerformed =>
              /\ lsu_arb_valid /\ req_ready /\ mem_wen(xw.inst) /\ lsu_raw_addr \in BusOk
              /\ arch_pc = Plus(xw.pc, 4)
<1>1. IInv /\ WriteTracks /\ xw.valid /\ ~w_stage_stall /\ w_mem_ready
  BY DEF RefInv, w_retire_ready, w_stage_stall
<1>2. axi.state # "WRITE_REQ"
  <2> SUFFICES ASSUME axi.state = "WRITE_REQ" PROVE FALSE
    OBVIOUS
  <2>1. lsu_arb_valid /\ ~req_ready
    BY <1>1, WriteHasOwner DEF req_ready, read_fire, write_done
  <2> QED
    BY <1>1, <2>1 DEF lsu_arb_valid, lsu_raw_valid, w_mem_ready, lsu_raw_ready, LsuAnswer
<1>3. mem' = mem /\ wch' = WriteIdle
  BY <1>1, <1>2, RespWaits, NoWrite
<1>4. ~StorePerformed'
  BY <1>3 DEF StorePerformed, WriteIdle
<1>5. StorePerformed => axi.state = "WRITE_RESP" /\ axi.addr \in BusOk
  BY <1>1, <1>2 DEF WriteTracks, StorePerformed, WriteIdle
<1>6. ASSUME axi.state = "WRITE_RESP" PROVE lsu_arb_valid /\ req_ready /\ mem_wen(xw.inst)
                                              /\ axi.addr = lsu_raw_addr
  <2>1. lsu_arb_valid /\ mem_wen(xw.inst) /\ axi.addr = lsu_raw_addr
    BY <1>1, <1>6, WriteHasOwner
  <2> QED
    BY <1>1, <2>1 DEF lsu_arb_valid, lsu_raw_valid, w_mem_ready, lsu_raw_ready, LsuAnswer
<1>7. arch_pc' = debug_pc' /\ (~StorePerformed => arch_pc = xw.pc)
      /\ (StorePerformed => arch_pc = Plus(xw.pc, 4))
  BY <1>1, <1>4 DEF arch_pc, debug_pc
<1> QED
  BY <1>3, <1>4, <1>5, <1>6, <1>7

\* A trap has the effect of a trap and no other (Core.v lines 380-399).
LEMMA TrapStep ==
  ASSUME RefInv, NEW go \in GoSets, HClock(go), w_retire_ready, w_trap_request,
         ~StorePerformed
  PROVE  Arch!Trap(w_exception_cause)
<1>1. IInv /\ Clock(go) /\ xw.valid /\ ~halted
  BY DEF RefInv, HClock, w_retire_ready
<1>2. w_complete_inst => xw.inst.op = "ebreak"
  BY DEF w_complete_inst, w_can_complete_no_mem_fault, w_trap_request, w_base_trap_request
<1>3. ~w_wb_wen /\ ~ifu_invalidate /\ ~(w_complete_inst /\ csr_cmd(xw.inst))
  BY <1>2 DEF w_wb_wen, writes_rd, ifu_invalidate, csr_cmd
<1>4. rf' = rf
  BY <1>1, <1>3 DEF Clock, RegFileClock
<1>5. mem' = mem /\ arch_pc = xw.pc /\ arch_pc' = debug_pc'
  BY <1>1, RetireWrites
<1>6. fetchable' = fetchable
  BY <1>3, <1>5, FetchableStep
<1>7. w_redirect
  BY DEF w_redirect, w_precise_trap, w_bad_without_vector
<1>8. arch_pc' = w_next_pc
  BY <1>1, <1>5, <1>7, RetirePc
<1>9. CASE csr.mtvec = 0
  <2>1. w_next_pc = xw.pc
    BY <1>9 DEF w_next_pc, w_precise_trap, w_bad_without_vector
  <2>2. csr' = csr
    BY <1>1, <1>3, <1>9 DEF Clock, CsrClock, w_precise_trap
  <2>3. halted' = TRUE
    BY <1>1, <1>9 DEF Clock, HaltClock, w_bad_without_vector
  <2> QED
    BY <1>4, <1>5, <1>6, <1>8, <1>9, <2>1, <2>2, <2>3 DEF Arch!Trap
<1>10. CASE csr.mtvec # 0
  <2>1. w_next_pc = csr.mtvec
    BY <1>10 DEF w_next_pc, w_precise_trap
  <2>2. csr' = CsrTrap(csr, xw.pc, w_exception_cause)
    BY <1>1, <1>10 DEF Clock, CsrClock, w_precise_trap
  <2>3. halted' = halted
    BY <1>1, <1>10 DEF Clock, HaltClock, w_bad_without_vector, IInv, TypeOK
  <2> QED
    BY <1>4, <1>5, <1>6, <1>8, <1>10, <2>1, <2>2, <2>3, ArchOperators DEF Arch!Trap
<1> QED
  BY <1>9, <1>10

\* What an instruction that completes does to the architectural state.
LEMMA CompleteStep ==
  ASSUME RefInv, NEW go \in GoSets, HClock(go), w_retire_ready, ~w_trap_request
  PROVE  /\ ~xw.err /\ xw.inst.legal /\ ~xw.pc_exception /\ ~xw.mem_misaligned
         /\ xw.inst.op \notin {"ecall", "ebreak"} /\ w_complete_inst
         /\ arch_pc' = IF xw.redirect THEN xw.redirect_pc ELSE Plus(xw.pc, 4)
         /\ rf' = IF writes_rd(xw.inst) THEN RegWrite(rf, xw.inst.rd, wb_data) ELSE rf
         /\ csr' = IF csr_cmd(xw.inst) THEN CsrNext(csr, xw.inst, xw.rs1_data) ELSE csr
         /\ halted' = halted /\ mem' = mem
         /\ fetchable' = IF xw.inst.op = "fence_i" THEN [a \in BusOk |-> {mem[a]}]
                         ELSE fetchable
<1>1. IInv /\ Clock(go) /\ xw.valid /\ ~halted /\ w_mem_ready /\ ~w_stage_stall
  BY DEF RefInv, HClock, w_retire_ready, w_stage_stall
<1>2. /\ ~xw.err /\ xw.inst.legal /\ ~xw.pc_exception /\ ~xw.mem_misaligned
      /\ xw.inst.op \notin {"ecall", "ebreak"}
  BY <1>1 DEF w_trap_request, w_base_trap_request
<1>3. w_complete_inst
  BY <1>1, <1>2 DEF w_complete_inst, w_can_complete_no_mem_fault, w_trap_request
<1>4. ifu_invalidate <=> xw.inst.op = "fence_i"
  BY <1>3 DEF ifu_invalidate
<1>5. mem' = mem /\ arch_pc' = debug_pc'
  BY <1>1, RetireWrites
<1>6. fetchable' = IF xw.inst.op = "fence_i" THEN [a \in BusOk |-> {mem[a]}] ELSE fetchable
  BY <1>4, <1>5, FetchableStep
<1>7. ~w_precise_trap /\ ~w_bad_without_vector
  BY DEF w_precise_trap, w_bad_without_vector
<1>8. halted' = halted
  BY <1>1, <1>7 DEF Clock, HaltClock, IInv, TypeOK
<1>9. csr' = IF csr_cmd(xw.inst) THEN CsrNext(csr, xw.inst, xw.rs1_data) ELSE csr
  <2>1. CsrPort = xw
    BY <1>1 DEF CsrPort, IInv, StagesApart
  <2> QED
    BY <1>1, <1>3, <1>7, <2>1 DEF Clock, CsrClock
<1>10. rf' = IF writes_rd(xw.inst) THEN RegWrite(rf, xw.inst.rd, wb_data) ELSE rf
  <2>1. w_wb_wen <=> writes_rd(xw.inst) /\ xw.inst.rd # 0
    BY <1>1, <1>3 DEF w_wb_wen
  <2> QED
    BY <1>1, <2>1 DEF Clock, RegFileClock, RegWrite
<1>11. arch_pc' = IF xw.redirect THEN xw.redirect_pc ELSE Plus(xw.pc, 4)
  <2>1. w_next_pc = Plus(xw.pc, 4)
    BY <1>7 DEF w_next_pc
  <2>2. w_redirect => ~xw.redirect
    BY <1>1, <1>4, <1>7 DEF w_redirect, RefInv, XwOK, Executed, Goes
  <2> QED
    BY <1>1, <1>5, <2>1, <2>2, RetirePc
<1> QED
  BY <1>2, <1>3, <1>5, <1>6, <1>8, <1>9, <1>10, <1>11

\* A trapped or completed instruction that is not a load or store.
LEMMA PlainStep ==
  ASSUME RefInv, NEW go \in GoSets, HClock(go), w_retire_ready, ~StorePerformed,
         ~xw.err, xw.inst.legal, ~mem_ren(xw.inst), ~mem_wen(xw.inst)
  PROVE  Arch!Execute(xw.inst)
<1> DEFINE i == xw.inst
<1>1. IInv /\ Clock(go) /\ xw.valid /\ arch_pc = xw.pc
  BY RetireWrites DEF RefInv, HClock, w_retire_ready
<1>2. xw \in XwPacket /\ i.op \in Ops
  BY <1>1, PacketType DEF IInv, XwPacket, Instr
<1>3. Operands(xw) /\ Executed(xw)
  BY <1>1 DEF RefInv, XwOK
<1>4. ~xw.mem_misaligned /\ ~w_mem_access_fault
  BY <1>3 DEF Executed, w_mem_access_fault, w_mem_access
<1>5. w_trap_request <=> xw.pc_exception \/ i.op \in {"ecall", "ebreak"}
  BY <1>1, <1>4 DEF w_trap_request, w_base_trap_request
<1>6. /\ Arch!Src1(i) = RegRead(rf, i.rs1) /\ Arch!Src2(i) = RegRead(rf, i.rs2)
      /\ Arch!Link = Plus(xw.pc, 4) /\ Arch!Effective(i) = Plus(RegRead(rf, i.rs1), i.imm)
      /\ Arch!Plus(arch_pc, i.imm) = Plus(xw.pc, i.imm)
  BY <1>1, ArchOperators DEF Arch!Src1, Arch!Src2, Arch!Link, Arch!Effective
<1>7. CASE i.op \in {"branch", "jal", "jalr", "mret"}
  <2>1. Goes(xw) <=> Arch!Taken(i)
    BY <1>3, <1>6, <1>7 DEF Goes, Arch!Taken, Operands, reads_rs1, reads_rs2
  <2>2. Goal(xw) = Arch!Target(i)
    <3>1. CASE i.op = "mret"
      BY <3>1 DEF Goal, Arch!Target
    <3>2. CASE i.op = "jalr"
      <4>1. Sum(xw) = Plus(RegRead(rf, i.rs1), i.imm)
        BY <1>3, <3>2 DEF Sum, Operands, reads_rs1
      <4> QED
        BY <1>6, <3>2, <4>1 DEF Goal, Arch!Target
    <3>3. CASE i.op \in {"branch", "jal"}
      <4>1. Sum(xw) = Plus(xw.pc, i.imm)
        BY <3>3 DEF Sum
      <4> QED
        BY <1>6, <3>3, <4>1 DEF Goal, Arch!Target
    <3> QED
      BY <1>7, <3>1, <3>2, <3>3
  <2>3. xw.pc_exception <=> Arch!Taken(i) /\ Arch!Target(i) % 4 # 0
    BY <1>3, <2>1, <2>2 DEF Executed
  <2>4. CASE xw.pc_exception
    <3>1. w_exception_cause = Arch!ExcInstMisaligned
      BY <2>4 DEF w_exception_cause, ExcInstMisaligned, Arch!ExcInstMisaligned
    <3>2. Arch!Trap(w_exception_cause)
      BY <1>5, <2>4, TrapStep
    <3> QED
      BY <1>7, <2>3, <2>4, <3>1, <3>2 DEF Arch!Transfer, Arch!Execute
  <2>5. CASE ~xw.pc_exception
    <3>1. ~w_trap_request
      BY <1>5, <1>7, <2>5
    <3>2. arch_pc' = IF Arch!Taken(i) THEN Arch!Target(i) ELSE Arch!Link
      BY <1>3, <1>6, <2>1, <2>2, <3>1, CompleteStep DEF Executed
    <3>3. csr' = csr /\ halted' = halted /\ mem' = mem /\ fetchable' = fetchable
      BY <1>7, <3>1, CompleteStep DEF csr_cmd
    <3>4. rf' = IF i.op \in {"jal", "jalr"} THEN RegWrite(rf, i.rd, Plus(xw.pc, 4)) ELSE rf
      BY <1>7, <3>1, CompleteStep DEF writes_rd, wb_data, csr_cmd
    <3>5. rf' = IF i.op \in {"jal", "jalr"} THEN Arch!RegWrite(rf, i.rd, Arch!Link) ELSE rf
      BY <1>6, <3>4, ArchOperators
    <3>6. Arch!Complete(IF Arch!Taken(i) THEN Arch!Target(i) ELSE Arch!Link,
                        IF i.op \in {"jal", "jalr"} THEN Arch!RegWrite(rf, i.rd, Arch!Link)
                        ELSE rf, csr)
      BY <3>2, <3>3, <3>5 DEF Arch!Complete
    <3> QED
      BY <1>7, <2>3, <2>5, <3>6 DEF Arch!Transfer, Arch!Execute
  <2> QED
    BY <2>4, <2>5
<1>8. CASE i.op \in {"ecall", "ebreak"}
  <2>1. ~xw.pc_exception
    BY <1>3, <1>8 DEF Executed, Goes
  <2>2. w_exception_cause = IF i.op = "ecall" THEN Arch!ExcEcall ELSE Arch!ExcBreakpoint
    BY <1>8, <2>1 DEF w_exception_cause, w_access_cause, ExcEcall, Arch!ExcEcall,
       ExcBreakpoint, Arch!ExcBreakpoint, mem_ren, mem_wen
  <2>3. Arch!Trap(w_exception_cause)
    BY <1>5, <1>8, TrapStep
  <2> QED
    BY <1>8, <2>2, <2>3 DEF Arch!Environment, Arch!Execute
<1>9. CASE i.op \in {"addi", "add", "none", "csrrw", "csrrs", "fence_i"}
  <2>1. ~xw.pc_exception /\ ~xw.redirect
    BY <1>3, <1>9 DEF Executed, Goes
  <2>2. ~w_trap_request
    BY <1>5, <1>9, <2>1
  <2>3. arch_pc' = Arch!Link /\ halted' = halted /\ mem' = mem
    BY <1>6, <2>1, <2>2, CompleteStep
  <2>4. CASE i.op \in {"addi", "add", "none"}
    <3>1. csr' = csr /\ fetchable' = fetchable
      BY <2>2, <2>4, CompleteStep DEF csr_cmd
    <3>2. i.op # "none" =>
            xw.alu_result = IF i.op = "add" THEN Arch!Plus(Arch!Src1(i), Arch!Src2(i))
                            ELSE Arch!Effective(i)
      BY <1>3, <1>6, <2>4, ArchOperators DEF Executed, Sum, Operands, reads_rs1, reads_rs2
    <3>3. rf' = IF i.op = "none" THEN rf ELSE RegWrite(rf, i.rd, xw.alu_result)
      BY <2>2, <2>4, CompleteStep DEF writes_rd, wb_data, mem_ren, csr_cmd
    <3>4. rf' = IF i.op = "none" THEN rf
                ELSE Arch!RegWrite(rf, i.rd,
                       IF i.op = "add" THEN Arch!Plus(Arch!Src1(i), Arch!Src2(i))
                       ELSE Arch!Effective(i))
      BY <3>2, <3>3, ArchOperators
    <3> QED
      BY <2>3, <2>4, <3>1, <3>4 DEF Arch!Compute, Arch!Complete, Arch!Execute
  <2>5. CASE i.op \in {"csrrw", "csrrs"}
    <3>1. fetchable' = fetchable
      BY <2>2, <2>5, CompleteStep
    <3>2. csr' = CsrNext(csr, i, RegRead(rf, i.rs1))
      BY <1>3, <2>2, <2>5, CompleteStep DEF csr_cmd, Operands, reads_rs1
    <3>3. rf' = RegWrite(rf, i.rd, CsrRead(csr, i.csr))
      BY <1>3, <2>2, <2>5, CompleteStep DEF writes_rd, wb_data, mem_ren, csr_cmd, Executed
    <3>4. rf' = Arch!RegWrite(rf, i.rd, Arch!CsrRead(csr, i.csr))
      BY <3>3, ArchOperators
    <3>5. csr' = Arch!CsrNext(csr, i, Arch!Src1(i))
      BY <1>6, <3>2, ArchOperators
    <3> QED
      BY <2>3, <2>5, <3>1, <3>4, <3>5 DEF Arch!CsrAccess, Arch!Complete, Arch!Execute
  <2>6. CASE i.op = "fence_i"
    <3>1. rf' = rf /\ csr' = csr /\ fetchable' = [a \in BusOk |-> {mem[a]}]
      BY <2>2, <2>6, CompleteStep DEF writes_rd, csr_cmd
    <3> QED
      BY <2>3, <2>6, <3>1 DEF Arch!FenceI, Arch!Execute
  <2> QED
    BY <1>9, <2>4, <2>5, <2>6
<1> QED
  BY <1>2, <1>7, <1>8, <1>9 DEF Ops, mem_ren, mem_wen

\* A load or store that retires without having been performed before.
LEMMA AccessStep ==
  ASSUME RefInv, NEW go \in GoSets, HClock(go), w_retire_ready, ~StorePerformed,
         ~xw.err, xw.inst.legal, mem_ren(xw.inst) \/ mem_wen(xw.inst)
  PROVE  Arch!Execute(xw.inst)
<1> DEFINE i == xw.inst
           a == Arch!Effective(i)
<1>1. IInv /\ Clock(go) /\ xw.valid /\ arch_pc = xw.pc /\ ~halted /\ w_mem_ready
  BY RetireWrites DEF RefInv, HClock, w_retire_ready
<1>2. Operands(xw) /\ Executed(xw)
  BY <1>1 DEF RefInv, XwOK
<1>3. ~xw.pc_exception /\ ~xw.redirect
  BY <1>2 DEF Executed, Goes, mem_ren, mem_wen
<1>4. Sum(xw) = a
  BY <1>2, ArchOperators DEF Sum, Operands, reads_rs1, mem_ren, mem_wen, Arch!Effective,
     Arch!Src1
<1>5. Arch!Link = Plus(xw.pc, 4)
  BY <1>1, ArchOperators DEF Arch!Link
<1>6. xw.mem_misaligned <=> a % 4 # 0
  BY <1>2, <1>4 DEF Executed
<1>7. i.op = "load" \/ i.op = "store"
  BY DEF mem_ren, mem_wen
<1>8. CASE xw.mem_misaligned
  <2>1. w_trap_request
    BY <1>1, <1>8 DEF w_trap_request, w_base_trap_request
  <2>2. w_exception_cause = IF i.op = "load" THEN Arch!ExcLoadMisaligned
                            ELSE Arch!ExcStoreMisaligned
    BY <1>3, <1>7, <1>8 DEF w_exception_cause, w_access_cause, mem_ren, mem_wen,
       ExcLoadMisaligned, Arch!ExcLoadMisaligned, ExcStoreMisaligned, Arch!ExcStoreMisaligned
  <2>3. Arch!Trap(w_exception_cause)
    BY <2>1, TrapStep
  <2> QED
    BY <1>6, <1>7, <1>8, <2>2, <2>3 DEF Arch!Load, Arch!Store, Arch!Execute
<1>9. CASE ~xw.mem_misaligned
  <2>1. w_can_complete_no_mem_fault /\ ~w_base_trap_request
    BY <1>1, <1>3, <1>7, <1>9 DEF w_can_complete_no_mem_fault, w_base_trap_request
  <2>2. w_mem_access /\ lsu_raw_valid /\ lsu_raw_ready
    BY <1>1, <2>1 DEF w_mem_access, lsu_raw_valid, w_mem_ready
  <2>3. lsu_raw_addr = a /\ a % 4 = 0 /\ a \in Word
    BY <2>1, AccessFacts, ArchOperators DEF Arch!Effective, Arch!Src1
  <2>4. w_trap_request <=> lsu_raw_error
    BY <2>1, <2>2 DEF w_trap_request, w_mem_access_fault
  <2> HIDE DEF a
  <2>5. ASSUME ~w_trap_request
        PROVE  /\ arch_pc' = Arch!Link /\ csr' = csr /\ halted' = halted
               /\ mem' = mem /\ fetchable' = fetchable
               /\ i.op = "load" => rf' = RegWrite(rf, i.rd, lsu_rdata)
               /\ i.op = "store" => rf' = rf
    <3>1. arch_pc' = Arch!Link /\ halted' = halted /\ mem' = mem
      BY <1>3, <1>5, <2>5, CompleteStep
    <3>2. csr' = csr /\ fetchable' = fetchable
      BY <1>7, <2>5, CompleteStep DEF csr_cmd
    <3>3. /\ i.op = "load" => rf' = RegWrite(rf, i.rd, lsu_rdata)
          /\ i.op = "store" => rf' = rf
      BY <2>5, CompleteStep DEF writes_rd, wb_data, mem_ren, csr_cmd
    <3> QED
      BY <3>1, <3>2, <3>3
  <2>6. CASE a \in Clint
    <3>1. lsu_is_clint
      BY <2>2, <2>3, <2>6 DEF lsu_is_clint
    <3>2. ~w_trap_request /\ lsu_rdata = ClintRead(a, mtime)
      BY <2>3, <2>4, <3>1 DEF lsu_raw_error, lsu_rdata
    <3>3. mtime \in 0 .. MtimePeriod - 1
      BY <1>1 DEF IInv, TypeOK
    <3>4. CASE i.op = "load"
      <4>1. rf' = Arch!RegWrite(rf, i.rd, Arch!ClintRead(a, mtime))
        BY <2>5, <3>2, <3>4, ArchOperators
      <4>2. Arch!Complete(Arch!Link, Arch!RegWrite(rf, i.rd, Arch!ClintRead(a, mtime)), csr)
        BY <2>5, <3>2, <4>1 DEF Arch!Complete
      <4> QED
        BY <2>6, <3>3, <3>4, <4>2 DEF Arch!Load, Arch!Execute, a
    <3>5. CASE i.op = "store"
      <4>1. Arch!Complete(Arch!Link, rf, csr)
        BY <2>5, <3>2, <3>5 DEF Arch!Complete
      <4> QED
        BY <2>6, <3>5, <4>1 DEF Arch!Store, Arch!Execute, a
    <3> QED
      BY <1>7, <3>4, <3>5
  <2>7. CASE a \notin Clint
    <3>1. ~lsu_is_clint /\ lsu_arb_valid
      BY <2>2, <2>3, <2>7 DEF lsu_is_clint, lsu_arb_valid
    <3>2. req_ready /\ (lsu_raw_error <=> req_error)
      BY <2>2, <3>1 DEF lsu_raw_ready, lsu_raw_error, LsuAnswer
    <3>3. req_error <=> a \notin BusOk
      BY <1>7, <2>3, <3>1, <3>2, Answered DEF mem_ren, mem_wen
    <3>4. CASE a \notin BusOk
      <4>1. w_exception_cause = IF i.op = "load" THEN Arch!ExcLoadFault
                                ELSE Arch!ExcStoreFault
        BY <1>3, <1>7, <1>9 DEF w_exception_cause, w_access_cause, mem_ren, mem_wen,
           ExcLoadFault, Arch!ExcLoadFault, ExcStoreFault, Arch!ExcStoreFault
      <4>2. Arch!Trap(w_exception_cause)
        BY <2>4, <3>2, <3>3, <3>4, TrapStep
      <4> QED
        BY <1>7, <2>3, <2>7, <3>4, <4>1, <4>2 DEF Arch!Load, Arch!Store, Arch!Execute, a
    <3>5. CASE a \in BusOk
      <4>1. ~w_trap_request
        BY <2>4, <3>2, <3>3, <3>5
      <4>2. i.op = "load"
        <5>1. i.op = "store" => wch.resp = "okay"
          BY <2>3, <3>1, <3>2, <3>5, Answered DEF mem_wen
        <5> QED
          BY <1>7, <5>1 DEF StorePerformed
      <4>3. lsu_rdata = mem[a]
        BY <2>3, <3>1, <3>2, <3>5, <4>2, Answered DEF mem_ren, lsu_rdata
      <4>4. rf' = Arch!RegWrite(rf, i.rd, mem[a])
        BY <2>5, <4>1, <4>2, <4>3, ArchOperators
      <4>5. Arch!Complete(Arch!Link, Arch!RegWrite(rf, i.rd, mem[a]), csr)
        BY <2>5, <4>1, <4>4 DEF Arch!Complete
      <4> QED
        BY <2>7, <3>5, <4>2, <4>5 DEF Arch!Load, Arch!Execute, a
    <3> QED
      BY <3>4, <3>5
  <2> QED
    BY <2>6, <2>7
<1> QED
  BY <1>8, <1>9

\* A retirement is one instruction of the architecture, or the end of a
\* store that has become visible before.
LEMMA RetireStep ==
  ASSUME RefInv, NEW go \in GoSets, HClock(go), w_retire_ready
  PROVE  Arch!Next \/ UNCHANGED <<arch_pc, rf, csr, mem, fetchable, halted>>
<1>1. IInv /\ Clock(go) /\ xw.valid /\ ~halted /\ w_mem_ready
  BY DEF RefInv, HClock, w_retire_ready
<1>2. CASE StorePerformed
  <2>1. lsu_arb_valid /\ req_ready /\ mem_wen(xw.inst) /\ lsu_raw_addr \in BusOk
        /\ arch_pc = Plus(xw.pc, 4)
    BY <1>1, <1>2, RetireWrites
  <2>2. ~req_error
    BY <2>1, Answered
  <2>3. w_can_complete_no_mem_fault
    BY <2>1 DEF lsu_arb_valid, lsu_raw_valid, w_mem_access
  <2>4. ~w_trap_request
    BY <2>1, <2>2, <2>3 DEF w_trap_request, w_base_trap_request, w_mem_access_fault,
       lsu_raw_error, LsuAnswer, w_can_complete_no_mem_fault, mem_wen
  <2>5. ~xw.redirect
    BY <2>1, <2>3, AccessFacts
  <2>6. xw.inst.op = "store"
    BY <2>1 DEF mem_wen
  <2> QED
    BY <2>1, <2>4, <2>5, <2>6, CompleteStep DEF writes_rd, csr_cmd
<1>3. CASE ~StorePerformed /\ xw.err
  <2>1. w_trap_request /\ w_exception_cause = Arch!ExcInstFault
    BY <1>1, <1>3 DEF w_trap_request, w_base_trap_request, w_exception_cause,
       ExcInstFault, Arch!ExcInstFault
  <2>2. arch_pc = xw.pc
    BY <1>1, <1>3, RetireWrites
  <2>3. xw.pc \notin BusOk
    BY <1>1, <1>3 DEF RefInv, XwOK, Decoded
  <2>4. Arch!Trap(w_exception_cause)
    BY <1>3, <2>1, TrapStep
  <2> QED
    BY <1>1, <2>1, <2>2, <2>3, <2>4 DEF Arch!Next, Arch!FetchFault
<1>4. CASE ~StorePerformed /\ ~xw.err
  <2>1. arch_pc = xw.pc
    BY <1>1, <1>4, RetireWrites
  <2>2. CASE ~xw.inst.legal
    <3>1. w_trap_request /\ w_exception_cause = Arch!ExcIllegal
      BY <1>1, <1>4, <2>2 DEF w_trap_request, w_base_trap_request, w_exception_cause,
         ExcIllegal, Arch!ExcIllegal
    <3>2. Arch!Trap(w_exception_cause)
      BY <1>4, <3>1, TrapStep
    <3>3. Arch!Execute(xw.inst)
      BY <2>2, <3>1, <3>2 DEF Arch!Illegal, Arch!Execute
    <3> QED
      BY <1>1, <1>4, <2>1, <3>3, Fetched
  <2>3. CASE xw.inst.legal
    BY <1>1, <1>4, <2>1, <2>3, AccessStep, PlainStep, Fetched
  <2> QED
    BY <2>2, <2>3
<1> QED
  BY <1>2, <1>3, <1>4

(***************************************************************************)
(* The core implements the architecture (Core.v, Ifu.v, the bus units):    *)
(* for all the constants, the pipelined core retires an execution of Isa,  *)
(* as long as no failing refill finds a valid line in its set.             *)
(***************************************************************************)
THEOREM Refinement == HSpec /\ []FaultFindsNoLine => ImplementsIsa
<1>1. HInit => Arch!Init
  BY DEF HInit, Init, Arch!Init, arch_pc, debug_pc, StorePerformed, BusInit, WriteIdle,
     Bubble, Reg, Arch!Reg
<1>2. RefInv /\ [HNext]_allVars => [Arch!Next]_(Arch!isaVars)
  <2> SUFFICES ASSUME RefInv, [HNext]_allVars
               PROVE  Arch!Next \/ UNCHANGED <<arch_pc, rf, csr, mem, fetchable, halted>>
    BY DEF Arch!isaVars
  <2>1. ASSUME NEW go \in GoSets, HClock(go)
        PROVE  Arch!Next \/ UNCHANGED <<arch_pc, rf, csr, mem, fetchable, halted>>
    <3>1. CASE ~xw.valid
      BY <2>1, <3>1, EmptyStutters
    <3>2. CASE w_stage_stall
      BY <2>1, <3>2, StallStep
    <3>3. CASE xw.valid /\ ~w_stage_stall
      <4>1. w_retire_ready
        BY <2>1, <3>3, WStage DEF RefInv, HClock
      <4> QED
        BY <2>1, <4>1, RetireStep
    <3> QED
      BY <3>1, <3>2, <3>3
  <2>2. CASE UNCHANGED allVars
    BY <2>2 DEF allVars, vars, coreVars, ifuVars, busVars, arch_pc, StorePerformed, debug_pc,
       Plus
  <2> QED
    BY <2>1, <2>2 DEF HNext
<1> QED
  BY <1>1, <1>2, RefInvariance, PTL DEF HSpec, ImplementsIsa, Arch!Spec
=============================================================================
