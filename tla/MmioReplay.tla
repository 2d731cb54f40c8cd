----------------------------- MODULE MmioReplay -----------------------------
(***************************************************************************)
(* Differential testing of device accesses.  The simulator hands the       *)
(* device access of a retired instruction as a record to the reference     *)
(* (NEMU, nemu/src/device/npc-dev.c) before the reference executes its own *)
(* instruction; the reference checks its access against the record and     *)
(* takes the data of a load from it.  The records are made in two ways, by *)
(* main.cpp for LocalAxiSlave and by soc_main.cpp for ysyxSoC.             *)
(*                                                                         *)
(* A word is four bytes of three values that differ in being zero and in   *)
(* their sign; an address is one of five words and a byte offset.          *)
(***************************************************************************)
EXTENDS Integers, FiniteSets

CONSTANTS
  Flavors,  \* which simulators: "local" (main.cpp) and "soc" (soc_main.cpp)
  Data,     \* the words that registers and devices hold
  Regions,  \* the words that are accessed
  Faulty    \* whether the core under test may differ from the reference

Lanes == 0 .. 3
Bytes == {"00", "7f", "ff"}
Words == [Lanes -> Bytes]

\* The first word of the UART and another one, a CLINT register, another word
\* of the CLINT window, and memory.
AllRegions == {"uart0", "uart4", "mtime", "reserved", "mem"}
Clint == {"mtime", "reserved"}
Uart == {"uart0", "uart4"}

ASSUME ReplayAssumption ==
  Flavors \subseteq {"local", "soc"} /\ Data \subseteq Words /\ Regions \subseteq AllRegions

VARIABLES
  flavor,          \* the simulator that was built
  dut, ref,        \* the access that retired, and the reference's; or NoAccess
  mmio_replay,     \* mmio_replay of npc-dev.c, NoRecord when it is not valid
  mmio_mismatch,   \* mmio_replay_mismatch
  aborted,         \* an assertion of npc-dev.c failed
  last             \* history: how the last step of the test ended

replayVars == <<flavor, dut, ref, mmio_replay, mmio_mismatch, aborted, last>>

\* An access of an instruction: data is the register that is stored, or the
\* word that the bus answers.  A misaligned one traps and is not an access.
Access ==
  {a \in [write : BOOLEAN, unsigned : BOOLEAN, word : Regions, off : Lanes,
          len : {1, 2, 4}, data : Data] :
     a.off % a.len = 0 /\ (a.write => a.unsigned)}

-----------------------------------------------------------------------------
(***************************************************************************)
(* Words and lanes.                                                        *)
(***************************************************************************)
ShiftLeft(w, off) == [i \in Lanes |-> IF i >= off THEN w[i - off] ELSE "00"]
ShiftRight(w, off) == [i \in Lanes |-> IF i + off <= 3 THEN w[i + off] ELSE "00"]
Masked(w, len) == [i \in Lanes |-> IF i < len THEN w[i] ELSE "00"]
SignExtended(w, len) ==
  [i \in Lanes |-> IF i < len THEN w[i] ELSE IF w[len - 1] = "ff" THEN "ff" ELSE "00"]
Extended(w, len, unsigned) == IF unsigned THEN Masked(w, len) ELSE SignExtended(w, len)

(***************************************************************************)
(* What the load and store unit shows of an access (Lsu.v).                *)
(***************************************************************************)
lsu_wmask(a) ==
  CASE a.len = 1 -> {a.off}
    [] a.len = 2 -> {2 * (a.off \div 2), 2 * (a.off \div 2) + 1}
    [] a.len = 4 -> Lanes
lsu_write_data(a) == ShiftLeft(a.data, a.off)

\* Clint.v has no register but mtime, and read32 of the local memory none of
\* the UART.
bus_rdata(a) ==
  IF a.word = "reserved" \/ (flavor = "local" /\ a.word \in Uart)
  THEN [i \in Lanes |-> "00"] ELSE a.data

lsu_rdata(a) == Extended(ShiftRight(bus_rdata(a), a.off), a.len, a.unsigned)

-----------------------------------------------------------------------------
(***************************************************************************)
(* The record of a retired access.                                         *)
(***************************************************************************)
Zeros == [i \in Lanes |-> "00"]
NoRecord == [valid |-> FALSE]

ReadRecord(word, off, len, rdata) ==
  [valid |-> TRUE, write |-> FALSE, word |-> word, off |-> off, len |-> len,
   wdata |-> Zeros, rdata |-> rdata]
WriteRecord(word, off, len, wdata) ==
  [valid |-> TRUE, write |-> TRUE, word |-> word, off |-> off, len |-> len,
   wdata |-> wdata, rdata |-> Zeros]

low_contiguous_len(mask) ==
  LET n == CHOOSE n \in 0 .. 4 : 0 .. n - 1 \subseteq mask /\ n \notin mask
  IN IF n = 0 THEN 4 ELSE n

\* main.cpp: the aligned address and the lanes as they are on the bus.  A UART
\* load has no record: read32 records the CLINT window only, and those
\* accesses stay inside the core.  The fallback to a read32 record of an
\* instruction fetch (pending_mmio_read_) is left out: it takes a program that
\* is fetched from the CLINT window, where there is no memory.
local_record(a) ==
  IF a.write /\ (a.word = "uart0" \/ a.word \in Clint)
  THEN WriteRecord(a.word, 0, low_contiguous_len(lsu_wmask(a)), lsu_write_data(a))
  ELSE IF ~a.write /\ a.word \in Clint
       THEN ReadRecord(a.word, 0, a.len, lsu_rdata(a))
       ELSE NoRecord

store_len_from_wmask(mask) ==
  CASE mask = Lanes -> 4
    [] Cardinality(mask) <= 1 -> 1
    [] OTHER -> 2

\* soc_main.cpp: the address from the instruction and its register.
make_mmio_record(a) ==
  LET len == store_len_from_wmask(lsu_wmask(a))
  IN IF a.word \notin Uart \cup Clint THEN NoRecord
     ELSE IF a.write
          THEN WriteRecord(a.word, a.off, len,
                           Masked(ShiftRight(lsu_write_data(a), a.off), len))
          ELSE ReadRecord(a.word, a.off, a.len, lsu_rdata(a))

record(a) == IF flavor = "local" THEN local_record(a) ELSE make_mmio_record(a)

-----------------------------------------------------------------------------
NoAccess == [valid |-> FALSE]

\* The two sides do the same to the devices.
Same(a, b) ==
  \/ a.word = "mem" /\ b.word = "mem"
  \/ /\ a.write = b.write /\ a.word = b.word /\ a.off = b.off /\ a.len = b.len
     /\ a.write => Masked(a.data, a.len) = Masked(b.data, b.len)

\* The reference's access to a register of a device, given the record.
\* Mutant: the data of a store is not compared.
replay_matches_no_data(b, r) ==
  r.valid /\ r.write = b.write /\ r.word = b.word /\ r.off = b.off /\ r.len = b.len
replay_matches(b, r) ==
  /\ r.valid
  /\ r.write = b.write /\ r.word = b.word /\ r.off = b.off /\ r.len = b.len
  /\ b.write => r.wdata = Masked(b.data, b.len)

\* npc_uart_io_handler and npc_clint_io_handler.
replayed(b) == b.word \in Uart \/ b.word = "mtime"

npc_mmio_replay_ok(mismatch, left) == ~mismatch /\ ~left.valid

\* The value a load of the reference writes to its register.
ref_rd_value(b, r) ==
  IF replayed(b) /\ replay_matches(b, r)
  THEN Extended(Masked(r.rdata, b.len), b.len, b.unsigned) ELSE Zeros

\* Mutant: a record that was not used stays.
after_ok_kept(left, mismatch) == left
\* npc_mmio_replay_ok ends the validity of a record that was not used.
after_ok(left, mismatch) == IF mismatch THEN left ELSE NoRecord

-----------------------------------------------------------------------------
ReplayInit ==
  /\ flavor \in Flavors
  /\ dut = NoAccess /\ ref = NoAccess
  /\ mmio_replay = NoRecord /\ mmio_mismatch = FALSE /\ aborted = FALSE
  /\ last = [alarm |-> FALSE, same |-> TRUE, stale |-> FALSE, handled |-> TRUE]

\* The core retires access a, where the reference is about to do b.
Commit ==
  /\ ~aborted /\ dut = NoAccess
  /\ \E a \in Access, b \in Access :
       /\ (IF Faulty THEN a.unsigned = b.unsigned ELSE a = b)
       /\ dut' = a /\ ref' = b
  /\ UNCHANGED <<flavor, mmio_replay, mmio_mismatch, aborted, last>>

\* The accesses whose record has the form that the reference expects.
Handled(a) ==
  IF flavor = "soc" THEN a.word # "reserved"
  ELSE /\ a.word \in {"uart0", "mtime", "mem"}
       /\ a.word # "mem" => a.off = 0
       /\ a.word # "mem" /\ a.write => a.data = Masked(a.data, a.len)
       /\ a.word = "uart0" => a.write

\* Difftest::step: the record is set, the reference executes, and its access
\* and its result are compared.
step ==
  /\ dut # NoAccess
  /\ LET r == record(dut)
         given == IF ~r.valid THEN mmio_replay ELSE r
         stale == mmio_mismatch /\ ~r.valid
         matches == replay_matches(ref, given)
         mismatch == stale \/ (replayed(ref) /\ ~matches)
         left == IF replayed(ref) THEN NoRecord ELSE given
         ok == npc_mmio_replay_ok(mismatch, left)
         values == ref.write \/ ref.word = "mem" \/ ref_rd_value(ref, given) = lsu_rdata(dut)
     IN IF r.valid /\ mmio_replay.valid
        THEN aborted' = TRUE /\ UNCHANGED <<mmio_replay, mmio_mismatch, last>>
        ELSE /\ mmio_mismatch' = mismatch
             /\ mmio_replay' = IF ok THEN left ELSE after_ok(left, mismatch)
             /\ last' = [alarm |-> ~(ok /\ values), same |-> Same(dut, ref),
                         stale |-> stale, handled |-> Handled(dut) /\ Handled(ref)]
             /\ UNCHANGED aborted
  /\ dut' = NoAccess /\ ref' = NoAccess /\ UNCHANGED flavor

ReplayNext == Commit \/ step

ReplaySpec == ReplayInit /\ [][ReplayNext]_replayVars

-----------------------------------------------------------------------------
(***************************************************************************)
(* The test fails exactly when the two sides differ in their device        *)
(* access, for every access the record can describe (difftest.cpp lines    *)
(* 80-88 with npc-dev.c lines 47-74): no false alarm and no difference     *)
(* missed, unless an earlier mismatch is still being reported.             *)
(***************************************************************************)
AlarmIffDifferent == last.handled /\ ~last.stale => (last.alarm <=> ~last.same)

(***************************************************************************)
(* A record never meets another one that is still waiting: the assertion   *)
(* of npc_mmio_replay_set (npc-dev.c line 149) holds, also when stepping   *)
(* goes on after a mismatch.                                               *)
(***************************************************************************)
NeverAborts == ~aborted

(***************************************************************************)
(* The test reports nothing when both sides do the same access.            *)
(***************************************************************************)
NoFalseAlarm == last.same /\ ~last.stale => ~last.alarm
=============================================================================
