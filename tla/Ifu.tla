--------------------------------- MODULE Ifu ---------------------------------
(***************************************************************************)
(* npc/rtl/core/Ifu.v: the fetch unit, a direct-mapped instruction cache   *)
(* of two lines that is refilled by one bus burst per miss.  Beats are     *)
(* written straight into the line they refill; the tag and the valid bit   *)
(* are written with the last beat, and only if no beat had an error.       *)
(*                                                                         *)
(* The wires are operators of the unit's inputs, and IfuClock is its       *)
(* always @(posedge clock) block.                                          *)
(***************************************************************************)
EXTENDS NpcDefs

VARIABLES
  cache,  \* the two lines: valid_q, tag_q and the data registers
  ifu     \* state, miss_*_q, refill_beat_q and refill_error_q

ifuVars == <<cache, ifu>>

Sets == {0, 1}
Line == [valid: BOOLEAN, tag: Nat, data: [Beat -> Word]]

\* pc[4], pc[3:2], pc[31:5] and {pc[31:4], 4'b0000}.
Index(pc) == (pc \div LineBytes) % 2
Offset(pc) == (pc \div 4) % LineWords
Tag(pc) == pc \div (2 * LineBytes)
LineAddr(pc) == pc - (pc % LineBytes)

\* The miss registers hold nothing of interest while the unit is idle.
IfuIdle == [state |-> "IDLE", miss |-> 0, beat |-> 0, error |-> FALSE]

\* The registers of the fetch unit and its cache lines have their widths.
IfuTypeOK ==
  /\ cache \in [Sets -> Line]
  /\ ifu \in [state: {"IDLE", "REFILL"}, miss: Word, beat: Beat, error: BOOLEAN]

IfuInit ==
  /\ cache = [s \in Sets |-> [valid |-> FALSE, tag |-> 0, data |-> [b \in Beat |-> 0]]]
  /\ ifu = IfuIdle

(***************************************************************************)
(* Combinational outputs.  bus is the answer of the arbiter to this unit:  *)
(* [ready, rdata, error].                                                  *)
(***************************************************************************)
hit(pc) == LET line == cache[Index(pc)] IN line.valid /\ line.tag = Tag(pc)

ifu_bus_valid == ifu.state = "REFILL"
ifu_bus_addr == LineAddr(ifu.miss)

refill_fire(bus) == ifu.state = "REFILL" /\ bus.ready
\* Mutant: waits for a beat after the last one.
refill_last_off_by_one(bus) == refill_fire(bus) /\ ifu.beat = LineWords
refill_last(bus) == refill_fire(bus) /\ ifu.beat = LineWords - 1
refill_error(bus) == ifu.error \/ bus.error

\* Mutant: the last word is read before it is stored.
refill_inst_no_bypass(bus) == cache[Index(ifu.miss)].data[Offset(ifu.miss)]

\* The missed word: the last word is only on the bus, earlier ones were stored.
refill_inst(bus) ==
  IF Offset(ifu.miss) = LineWords - 1
  THEN bus.rdata
  ELSE cache[Index(ifu.miss)].data[Offset(ifu.miss)]

inst_ready(fetch_valid, pc, bus) ==
  \/ ifu.state = "IDLE" /\ fetch_valid /\ hit(pc)
  \/ refill_last(bus)

inst(pc, bus) ==
  IF ifu.state = "IDLE" /\ hit(pc)
  THEN cache[Index(pc)].data[Offset(pc)]
  ELSE refill_inst(bus)

inst_error(bus) == refill_last(bus) /\ refill_error(bus)

(***************************************************************************)
(* The clock edge.                                                         *)
(***************************************************************************)
\* Mutant: fence.i leaves the cache alone.
Invalidated_never(c, invalidate) == c
Invalidated(c, invalidate) ==
  IF invalidate THEN [s \in Sets |-> [c[s] EXCEPT !.valid = FALSE]] ELSE c

\* The line under refill after this beat, and after the last beat.
Filled(line, bus) == [line EXCEPT !.data[ifu.beat] = bus.rdata]
Tagged(line, invalidate) ==
  [valid |-> ~invalidate, tag |-> Tag(ifu.miss), data |-> line.data]

IfuMiss(fetch_valid, pc, invalidate) ==
  /\ ifu.state = "IDLE" /\ fetch_valid /\ ~hit(pc)
  /\ ifu' = [state |-> "REFILL", miss |-> pc, beat |-> 0, error |-> FALSE]
  /\ cache' = Invalidated(cache, invalidate)

IfuBeat(invalidate, bus) ==
  /\ refill_fire(bus) /\ ~refill_last(bus)
  /\ ifu' = [ifu EXCEPT !.beat = @ + 1, !.error = refill_error(bus)]
  /\ cache' = [Invalidated(cache, invalidate) EXCEPT
                 ![Index(ifu.miss)] = Filled(@, bus)]

IfuLast(invalidate, bus) ==
  /\ refill_last(bus)
  /\ ifu' = IfuIdle
  /\ cache' = [Invalidated(cache, invalidate) EXCEPT
                 ![Index(ifu.miss)] =
                    IF refill_error(bus) THEN Filled(@, bus)
                    ELSE Tagged(Filled(@, bus), invalidate)]

IfuHold(fetch_valid, pc, invalidate, bus) ==
  /\ \/ ifu.state = "IDLE" /\ ~(fetch_valid /\ ~hit(pc))
     \/ ifu.state = "REFILL" /\ ~bus.ready
  /\ ifu' = ifu
  /\ cache' = Invalidated(cache, invalidate)

IfuClock(fetch_valid, pc, invalidate, bus) ==
  \/ IfuMiss(fetch_valid, pc, invalidate)
  \/ IfuBeat(invalidate, bus)
  \/ IfuLast(invalidate, bus)
  \/ IfuHold(fetch_valid, pc, invalidate, bus)
=============================================================================
