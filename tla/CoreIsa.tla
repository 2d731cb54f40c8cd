------------------------------- MODULE CoreIsa -------------------------------
(***************************************************************************)
(* The core implements the architecture: the refinement mapping from Core  *)
(* to Isa, and the invariants of the pipeline, the fetch unit and the bus. *)
(*                                                                         *)
(* fetchable is a history variable: the values every word has had since    *)
(* the last fence.i that retired.                                          *)
(***************************************************************************)
EXTENDS Core

VARIABLE fetchable

allVars == <<vars, fetchable>>

HInit == Init /\ fetchable = [a \in BusOk |-> {mem[a]}]

HClock(go) ==
  /\ Clock(go)
  /\ fetchable' = IF ifu_invalidate THEN [a \in BusOk |-> {mem[a]}]
                  ELSE [a \in BusOk |-> fetchable[a] \cup {mem'[a]}]

HNext == \E go \in GoSets : HClock(go)

HSpec == HInit /\ [][HNext]_allVars
HFairSpec == HSpec /\ WF_allVars(HClock(Channels))

(***************************************************************************)
(* A store takes effect when the slave performs the write, before its      *)
(* response retires it; everything else takes effect at retirement.        *)
(***************************************************************************)
StorePerformed == wch.resp = "okay"

arch_pc == IF StorePerformed THEN Plus(xw.pc, 4) ELSE debug_pc

Arch == INSTANCE Isa WITH
  pc <- arch_pc, regs <- rf, csrs <- csr, memory <- mem, stopped <- halted

(***************************************************************************)
(* The instruction stream the pipeline retires is an execution of Isa:     *)
(* program order, forwarding, exactly one write per store, precise traps   *)
(* and flushed wrong paths (Core.v lines 351-399 and 686-812).             *)
(***************************************************************************)
ImplementsIsa == Arch!Spec

-----------------------------------------------------------------------------
(***************************************************************************)
(* A valid cache line that can be looked up (not the one under refill)     *)
(* holds words that software may still fetch: never a word older than the  *)
(* last fence.i, never a word of another line.                             *)
(***************************************************************************)
LineBase(s, t) == (2 * t + s) * LineBytes

CacheCoherent ==
  \A s \in Sets :
    (cache[s].valid /\ ~(ifu.state = "REFILL" /\ Index(ifu.miss) = s)) =>
    \A b \in Beat :
      LET a == LineBase(s, cache[s].tag) + 4 * b IN
      a \in BusOk /\ cache[s].data[b] \in fetchable[a]

(***************************************************************************)
(* What the fetch unit hands to the pipeline is what a fetch without cache *)
(* may have seen: a hit, or the word of a refill without error, is a value *)
(* of that address since the last fence.i (Ifu.v lines 85-87).             *)
(***************************************************************************)
DeliversMemory ==
  (ifu_inst_ready /\ ~drop_fetch_response /\ ~inst_error(ifu_bus))
    => /\ f_pc \in BusOk
       /\ inst(f_pc, ifu_bus) \in fetchable[f_pc]

(***************************************************************************)
(* The core keeps retiring until it halts: no fetch, load or store waits   *)
(* for ever behind the other (AxiArbiter.v) or behind a dropped response.  *)
(***************************************************************************)
KeepsRetiring == []<>(halted \/ w_retire_ready)

(***************************************************************************)
(* The next pc of a commit event (Core.v line 440), which the differential *)
(* test compares with the reference, is where the core goes on.            *)
(***************************************************************************)
CommitNextPcIsNext ==
  [][w_retire_ready => debug_pc' = commit_next_pc]_allVars

(***************************************************************************)
(* What a commit reports is what happened (Core.v lines 440-449), which    *)
(* the simulator and the differential test rely on: the next pc, for       *)
(* instructions that complete and for traps of anything but a taken jump   *)
(* or branch; a store to memory that is reported has been performed, any   *)
(* number of cycles ago; a load that is reported has read what is there.   *)
(***************************************************************************)
CommitIsTrue ==
  [][w_retire_ready =>
       /\ w_complete_inst \/ ~xw.redirect => debug_pc' = commit_next_pc
       /\ commit_mem_wen /\ lsu_raw_addr \in BusOk => mem[lsu_raw_addr] = xw.rs2_data
       /\ commit_mem_ren /\ lsu_raw_addr \in BusOk => mem[lsu_raw_addr] = lsu_rdata
    ]_allVars
=============================================================================
