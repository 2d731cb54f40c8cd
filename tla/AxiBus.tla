-------------------------------- MODULE AxiBus --------------------------------
(***************************************************************************)
(* The memory path of the core: AxiArbiter.v (combinational, the load and  *)
(* store unit always wins), AxiMaster.v (one transaction at a time) and    *)
(* the AXI slave behind it with its memory.                                *)
(*                                                                         *)
(* The slave is LocalAxiSlave.v, which answers in the next cycle, and the  *)
(* slower interconnect of ysyxSoC in one: go is the set of AXI channels on *)
(* which the slave makes progress in this cycle, all of them for           *)
(* LocalAxiSlave.v.  Narrow stores (wstrb) are abstracted to whole words.  *)
(***************************************************************************)
EXTENDS NpcDefs

VARIABLES
  axi,  \* registers of AxiMaster
  rch,  \* read side of the slave: the burst it serves and its R channel
  wch,  \* write side of the slave: accepted AW / W and its B channel
  mem   \* the memory behind the slave

busVars == <<axi, rch, wch, mem>>

Channels == {"AR", "R", "AW", "W", "B"}

MasterIdle == [state |-> "IDLE", addr |-> 0, len |-> 0, beat |-> 0,
               error |-> FALSE, wdata |-> 0, aw_done |-> FALSE, w_done |-> FALSE]
ReadIdle == [busy |-> FALSE, valid |-> FALSE, addr |-> 0, beat |-> 0,
             len |-> 0, data |-> 0, error |-> FALSE]
WriteIdle == [aw |-> FALSE, addr |-> 0, w |-> FALSE, data |-> 0,
              resp |-> "none", valid |-> FALSE]

MasterStates == {"IDLE", "READ_ADDR", "READ_DATA", "WRITE_REQ", "WRITE_RESP"}

\* The registers of the master and of the slave have the widths of their source.
BusTypeOK ==
  /\ axi \in [state: MasterStates, addr: Word, len: Beat, beat: Beat,
              error: BOOLEAN, wdata: Word, aw_done: BOOLEAN, w_done: BOOLEAN]
  /\ rch \in [busy: BOOLEAN, valid: BOOLEAN, addr: Word, beat: Beat, len: Beat,
              data: Word, error: BOOLEAN]
  /\ wch \in [aw: BOOLEAN, addr: Word, w: BOOLEAN, data: Word,
              resp: {"none", "okay", "error"}, valid: BOOLEAN]
  /\ mem \in [BusOk -> Word]

BusInit ==
  /\ axi = MasterIdle
  /\ rch = ReadIdle
  /\ wch = WriteIdle

(***************************************************************************)
(* AxiArbiter.v.  A requester's request is [valid, write, addr, wdata];    *)
(* the refill is the only burst.                                           *)
(***************************************************************************)
Arbiter(lsu, ifu_valid, ifu_addr) ==
  [valid |-> lsu.valid \/ ifu_valid,
   write |-> lsu.valid /\ lsu.write,
   addr  |-> IF lsu.valid THEN lsu.addr ELSE ifu_addr,
   len   |-> IF lsu.valid THEN 0 ELSE LineWords - 1,
   wdata |-> IF lsu.valid THEN lsu.wdata ELSE 0]

(***************************************************************************)
(* AxiMaster.v: combinational outputs towards the arbiter.                 *)
(***************************************************************************)
read_fire == axi.state = "READ_DATA" /\ rch.valid
read_last == read_fire /\ (rch.beat = rch.len \/ axi.beat = axi.len)
write_done == axi.state = "WRITE_RESP" /\ wch.valid
req_ready == read_fire \/ write_done
req_rdata == rch.data
req_error ==
  \/ read_fire /\ (axi.error \/ rch.error)
  \/ write_done /\ wch.resp = "error"

\* What a requester hears from the bus in a cycle.
Answer == [ready: BOOLEAN, rdata: Word, error: BOOLEAN]

\* The answer the arbiter routes to the load and store unit and to the IFU.
LsuAnswer(lsu_valid) ==
  [ready |-> lsu_valid /\ req_ready, rdata |-> req_rdata,
   error |-> lsu_valid /\ req_ready /\ req_error]
\* Mutant: the IFU also takes the answers meant for the load and store unit.
IfuAnswer_unarbitrated(lsu_valid, ifu_valid) ==
  [ready |-> ifu_valid /\ req_ready, rdata |-> req_rdata,
   error |-> ifu_valid /\ req_ready /\ req_error]
IfuAnswer(lsu_valid, ifu_valid) ==
  LET use_ifu == ~lsu_valid /\ ifu_valid IN
  [ready |-> use_ifu /\ req_ready, rdata |-> req_rdata,
   error |-> use_ifu /\ req_ready /\ req_error]

(***************************************************************************)
(* Handshakes of this cycle.                                               *)
(***************************************************************************)
ar_fire(go) == axi.state = "READ_ADDR" /\ "AR" \in go /\ ~rch.busy
aw_fire(go) ==
  /\ axi.state = "WRITE_REQ" /\ ~axi.aw_done
  /\ "AW" \in go /\ ~wch.aw /\ wch.resp = "none"
w_fire(go) ==
  /\ axi.state = "WRITE_REQ" /\ ~axi.w_done
  /\ "W" \in go /\ ~wch.w /\ wch.resp = "none"

(***************************************************************************)
(* AxiMaster.v: the clock edge, one action per state of its machine.       *)
(***************************************************************************)
MasterStart(req) ==
  /\ axi.state = "IDLE"
  /\ axi' = IF req.valid
            THEN [MasterIdle EXCEPT
                    !.state = IF req.write THEN "WRITE_REQ" ELSE "READ_ADDR",
                    !.addr = req.addr,
                    !.len = IF req.write THEN 0 ELSE req.len,
                    !.wdata = req.wdata]
            ELSE axi

MasterReadAddr(go) ==
  /\ axi.state = "READ_ADDR"
  /\ axi' = IF ar_fire(go) THEN [axi EXCEPT !.state = "READ_DATA"] ELSE axi

\* Mutant: the beats are not counted.
MasterReadData_no_count ==
  /\ axi.state = "READ_DATA"
  /\ axi' = IF read_last THEN MasterIdle
            ELSE [axi EXCEPT !.error = @ \/ (read_fire /\ rch.error)]

MasterReadData ==
  /\ axi.state = "READ_DATA"
  /\ axi' = IF read_last THEN MasterIdle
            ELSE IF read_fire
            THEN [axi EXCEPT !.beat = @ + 1, !.error = @ \/ rch.error]
            ELSE axi

MasterWriteReq(go) ==
  LET aw == axi.aw_done \/ aw_fire(go)
      w  == axi.w_done \/ w_fire(go)
  IN /\ axi.state = "WRITE_REQ"
     /\ axi' = [axi EXCEPT !.aw_done = aw, !.w_done = w,
                           !.state = IF aw /\ w THEN "WRITE_RESP" ELSE @]

MasterWriteResp ==
  /\ axi.state = "WRITE_RESP"
  /\ axi' = IF write_done THEN MasterIdle ELSE axi

MasterClock(req, go) ==
  \/ MasterStart(req)
  \/ MasterReadAddr(go)
  \/ MasterReadData
  \/ MasterWriteReq(go)
  \/ MasterWriteResp

(***************************************************************************)
(* The slave's read side.  A beat is read from memory when the slave puts  *)
(* it on the R channel; a beat outside the memory answers SLVERR and zero. *)
(***************************************************************************)
ReadBeat(addr, beat, len, go) ==
  [busy |-> TRUE, valid |-> "R" \in go, addr |-> addr, beat |-> beat, len |-> len,
   data |-> IF "R" \in go /\ addr \in BusOk THEN mem[addr] ELSE 0,
   error |-> "R" \in go /\ addr \notin BusOk]

SlaveReadClock(go) ==
  rch' = IF ar_fire(go) THEN ReadBeat(axi.addr, 0, axi.len, go)
         ELSE IF read_fire /\ rch.beat = rch.len THEN ReadIdle
         ELSE IF read_fire THEN ReadBeat(Plus(rch.addr, 4), rch.beat + 1, rch.len, go)
         ELSE IF rch.busy /\ ~rch.valid THEN ReadBeat(rch.addr, rch.beat, rch.len, go)
         ELSE rch

(***************************************************************************)
(* The slave's write side.  The write is performed once address and data   *)
(* are both accepted; the response follows on the B channel.               *)
(***************************************************************************)
SlaveWriteClock(go) ==
  LET aw   == wch.aw \/ aw_fire(go)
      w    == wch.w \/ w_fire(go)
      addr == IF aw_fire(go) THEN axi.addr ELSE wch.addr
      data == IF w_fire(go) THEN axi.wdata ELSE wch.data
      now  == aw /\ w /\ wch.resp = "none"
  IN /\ wch' = IF write_done THEN WriteIdle
               ELSE IF now
               THEN [WriteIdle EXCEPT !.resp = IF addr \in BusOk THEN "okay" ELSE "error",
                                      !.valid = "B" \in go]
               ELSE [aw |-> aw, addr |-> addr, w |-> w, data |-> data, resp |-> wch.resp,
                     valid |-> wch.valid \/ (wch.resp # "none" /\ "B" \in go)]
     /\ mem' = IF now /\ addr \in BusOk THEN [mem EXCEPT ![addr] = data] ELSE mem
=============================================================================
