-------------------------- MODULE MmioReplayProofs --------------------------
(***************************************************************************)
(* The hand-over of MMIO records never trips the assertion of the          *)
(* reference, for any data and any sequence of accesses, matching or not.  *)
(***************************************************************************)
EXTENDS MmioReplay, FiniteSetTheorems, TLAPS

\* Between two steps no record waits, and nothing has been aborted.
ReplayInv == mmio_replay = NoRecord /\ aborted = FALSE

\* A step leaves no record behind, whatever the outcome.
LEMMA StepReplayInv == ReplayInv /\ step => ReplayInv'
<1> SUFFICES ASSUME ReplayInv, step PROVE ReplayInv'
  OBVIOUS
<1> DEFINE r == record(dut)
           given == IF ~r.valid THEN mmio_replay ELSE r
           stale == mmio_mismatch /\ ~r.valid
           matches == replay_matches(ref, given)
           mismatch == stale \/ (replayed(ref) /\ ~matches)
           left == IF replayed(ref) THEN NoRecord ELSE given
           ok == npc_mmio_replay_ok(mismatch, left)
<1>1. ~mmio_replay.valid /\ mmio_replay = NoRecord /\ ~aborted
  BY DEF ReplayInv, NoRecord
<1>2. /\ mmio_replay' = IF ok THEN left ELSE after_ok(left, mismatch)
      /\ UNCHANGED aborted
  BY <1>1 DEF step
<1>3. left = NoRecord \/ (r.valid /\ left = r /\ ~replayed(ref))
  BY <1>1
<1>4. ok => ~left.valid
  BY DEF npc_mmio_replay_ok
<1>5. mismatch => replayed(ref) \/ ~r.valid
  OBVIOUS
<1> HIDE DEF r, given, stale, matches, mismatch, left, ok
<1>6. ok => left = NoRecord
  BY <1>3, <1>4
<1>7. after_ok(left, mismatch) = NoRecord
  BY <1>3, <1>5 DEF after_ok
<1>8. mmio_replay' = NoRecord
  BY <1>2, <1>6, <1>7
<1> QED BY <1>2, <1>8 DEF ReplayInv

(***************************************************************************)
(* assert(!mmio_replay.valid) of npc_mmio_replay_set (npc-dev.c line 149)  *)
(* never fails, for both ways to make records and also after mismatches.   *)
(***************************************************************************)
THEOREM NoAbort == ReplaySpec => []NeverAborts
<1>1. ReplayInit => ReplayInv
  BY DEF ReplayInit, ReplayInv
<1>2. ReplayInv /\ [ReplayNext]_replayVars => ReplayInv'
  <2>1. ReplayInv /\ Commit => ReplayInv'
    BY DEF ReplayInv, Commit
  <2>2. ReplayInv /\ UNCHANGED replayVars => ReplayInv'
    BY DEF ReplayInv, replayVars
  <2> QED BY <2>1, <2>2, StepReplayInv DEF ReplayNext
<1>3. ReplayInv => NeverAborts
  BY DEF ReplayInv, NeverAborts
<1> QED BY <1>1, <1>2, <1>3, PTL DEF ReplaySpec

-----------------------------------------------------------------------------
(***************************************************************************)
(* The verdict of the test.  What an access becomes as a record, where the *)
(* record has the form that the reference expects, is the access itself.   *)
(***************************************************************************)

\* The fields of an access, and the offsets its length admits.
LEMMA AccessFields ==
  ASSUME NEW a \in Access
  PROVE  /\ a.write \in BOOLEAN /\ a.unsigned \in BOOLEAN /\ a.word \in AllRegions
         /\ a.data \in Words /\ a.off \in Lanes /\ a.len \in {1, 2, 4}
         /\ a.len = 2 => a.off = 0 \/ a.off = 2
         /\ a.len = 4 => a.off = 0
         /\ a.off + a.len <= 4
<1>1. /\ a.write \in BOOLEAN /\ a.unsigned \in BOOLEAN /\ a.word \in Regions
      /\ a.data \in Data /\ a.off \in Lanes /\ a.len \in {1, 2, 4} /\ a.off % a.len = 0
  BY DEF Access
<1>2. a.word \in AllRegions /\ a.data \in Words
  BY <1>1, ReplayAssumption
<1>3. a.off \in {0, 1, 2, 3}
  BY <1>1 DEF Lanes
<1>4. 1 % 2 = 1 /\ 3 % 2 = 1 /\ 1 % 4 = 1 /\ 2 % 4 = 2 /\ 3 % 4 = 3
  OBVIOUS
<1>5. a.len = 2 => a.off = 0 \/ a.off = 2
  BY <1>1, <1>3, <1>4
<1>6. a.len = 4 => a.off = 0
  BY <1>1, <1>3, <1>4
<1> QED BY <1>1, <1>2, <1>3, <1>5, <1>6

\* The lanes of a store.
LEMMA WmaskLanes ==
  ASSUME NEW a \in Access
  PROVE  /\ a.len = 1 => lsu_wmask(a) = {a.off}
         /\ a.len = 2 => lsu_wmask(a) = {a.off, a.off + 1}
         /\ a.len = 4 => lsu_wmask(a) = Lanes
<1>1. a.len \in {1, 2, 4} /\ a.off \in Lanes /\ (a.len = 2 => a.off = 0 \/ a.off = 2)
  BY AccessFields
<1>2. 0 \div 2 = 0 /\ 2 \div 2 = 1
  OBVIOUS
<1> QED BY <1>1, <1>2 DEF lsu_wmask

\* soc_main.cpp finds the length of a store again from its lanes.
LEMMA StoreLen ==
  ASSUME NEW a \in Access
  PROVE  store_len_from_wmask(lsu_wmask(a)) = a.len
<1>1. a.len \in {1, 2, 4} /\ a.off \in Lanes /\ (a.len = 2 => a.off = 0 \/ a.off = 2)
  BY AccessFields
<1>2. CASE a.len = 1
  <2>1. Cardinality({a.off}) = 1
    <3> DEFINE n == a.off
    <3> HIDE DEF n
    <3>1. Cardinality({n}) = 1
      BY FS_Singleton
    <3> QED BY <3>1 DEF n
  <2>2. {a.off} # Lanes
    <3>1. 0 \in Lanes /\ 1 \in Lanes
      BY DEF Lanes
    <3> QED BY <3>1
  <2> QED BY <1>2, <2>1, <2>2, WmaskLanes DEF store_len_from_wmask
<1>3. CASE a.len = 2
  <2> DEFINE n == a.off
  <2>1. n = 0 \/ n = 2
    BY <1>1, <1>3
  <2>2. IsFiniteSet({n}) /\ Cardinality({n}) = 1 /\ n + 1 \notin {n}
    <3>1. n + 1 \notin {n}
      BY <2>1
    <3> HIDE DEF n
    <3>2. IsFiniteSet({n}) /\ Cardinality({n}) = 1
      BY FS_Singleton
    <3> QED BY <3>1, <3>2
  <2>3. Cardinality({n} \cup {n + 1}) = 1 + 1
    <3> DEFINE S == {n}
               y == n + 1
    <3> HIDE DEF S, y
    <3>1. IsFiniteSet(S) /\ Cardinality(S) = 1 /\ y \notin S
      BY <2>2 DEF S, y
    <3>2. Cardinality(S \cup {y}) = 1 + 1
      BY <3>1, FS_AddElement
    <3> QED BY <3>2 DEF S, y
  <2>4. {n, n + 1} = {n} \cup {n + 1} /\ {n, n + 1} # Lanes
    BY <2>1 DEF Lanes
  <2>5. Cardinality({n, n + 1}) = 2
    BY <2>3, <2>4
  <2> QED BY <1>3, <2>4, <2>5, WmaskLanes DEF store_len_from_wmask
<1>4. CASE a.len = 4
  <2>1. lsu_wmask(a) = Lanes
    BY <1>4, WmaskLanes
  <2>2. Cardinality(Lanes) = 4
    <3> DEFINE i == 0
               j == 3
    <3>1. i \in Int /\ j \in Int
      OBVIOUS
    <3> HIDE DEF i, j
    <3>2. Cardinality(i .. j) = IF i > j THEN 0 ELSE j - i + 1
      BY <3>1, FS_Interval
    <3> QED BY <3>2 DEF Lanes, i, j
  <2> QED BY <1>4, <2>1, <2>2 DEF store_len_from_wmask
<1> QED BY <1>1, <1>2, <1>3, <1>4

\* main.cpp does, for a store to the first lanes.
LEMMA LowLen ==
  ASSUME NEW a \in Access, a.off = 0
  PROVE  low_contiguous_len(lsu_wmask(a)) = a.len
<1>1. a.len \in {1, 2, 4} /\ lsu_wmask(a) = 0 .. a.len - 1
  <2>1. a.len \in {1, 2, 4}
    BY AccessFields
  <2>2. {0} = 0 .. 1 - 1 /\ {0, 0 + 1} = 0 .. 2 - 1 /\ Lanes = 0 .. 4 - 1
    BY DEF Lanes
  <2> QED BY <2>1, <2>2, WmaskLanes
<1> DEFINE mask == lsu_wmask(a)
           P(n) == 0 .. n - 1 \subseteq mask /\ n \notin mask
<1>2. a.len \in 0 .. 4 /\ P(a.len)
  BY <1>1
<1>3. ASSUME NEW n \in 0 .. 4, P(n) PROVE n = a.len
  <2>1. ~(n < a.len)
    BY <1>1, <1>3
  <2>2. ~(a.len < n)
    <3> SUFFICES ASSUME a.len < n PROVE FALSE
      OBVIOUS
    <3>1. a.len \in 0 .. n - 1
      BY <1>1, <1>3
    <3> QED BY <1>1, <1>3, <3>1
  <2> QED BY <1>1, <1>3, <2>1, <2>2
<1> HIDE DEF P
<1>4. (CHOOSE n \in 0 .. 4 : P(n)) = a.len
  BY <1>2, <1>3
<1> QED BY <1>1, <1>4 DEF low_contiguous_len, P

\* Shifting to the lanes of the access and back.
LEMMA ShiftBack ==
  ASSUME NEW a \in Access
  PROVE  /\ Masked(ShiftRight(lsu_write_data(a), a.off), a.len) = Masked(a.data, a.len)
         /\ a.off = 0 => lsu_write_data(a) = a.data
<1> DEFINE w == a.data
           o == a.off
           n == a.len
<1>1. w \in Words /\ o \in 0 .. 3 /\ n \in {1, 2, 4} /\ o + n <= 4
  BY AccessFields DEF Lanes
<1>2. lsu_write_data(a) = ShiftLeft(w, o)
  BY DEF lsu_write_data
<1> HIDE DEF w, o, n
<1>3. \A i \in Lanes : i < n => ShiftRight(ShiftLeft(w, o), o)[i] = w[i]
  BY <1>1 DEF ShiftLeft, ShiftRight, Lanes
<1>4. Masked(ShiftRight(ShiftLeft(w, o), o), n) = Masked(w, n)
  <2> DEFINE v == ShiftRight(ShiftLeft(w, o), o)
  <2>1. \A i \in Lanes : i < n => v[i] = w[i]
    BY <1>3
  <2> HIDE DEF v
  <2>2. Masked(v, n) = Masked(w, n)
    BY <2>1 DEF Masked
  <2> QED BY <2>2 DEF v
<1>5. ASSUME o = 0 PROVE ShiftLeft(w, o) = w
  <2>1. \A i \in Lanes : i >= 0 /\ i - 0 = i
    BY DEF Lanes
  <2> QED BY <1>1, <1>5, <2>1 DEF ShiftLeft, Words
<1> QED BY <1>2, <1>4, <1>5 DEF w, o, n

\* The data of a load survives the way through the record.
LEMMA LoadAgain ==
  ASSUME NEW a \in Access
  PROVE  Extended(Masked(lsu_rdata(a), a.len), a.len, a.unsigned) = lsu_rdata(a)
<1> DEFINE w == ShiftRight(bus_rdata(a), a.off)
           n == a.len
<1>1. n \in {1, 2, 4} /\ a.unsigned \in BOOLEAN
  BY AccessFields
<1>2. lsu_rdata(a) = Extended(w, n, a.unsigned)
  BY DEF lsu_rdata
<1> HIDE DEF w, n
<1>3. Masked(Masked(Masked(w, n), n), n) = Masked(w, n)
  BY <1>1 DEF Masked
<1>4. SignExtended(Masked(SignExtended(w, n), n), n) = SignExtended(w, n)
  <2> DEFINE v == Masked(SignExtended(w, n), n)
  <2>1. n - 1 \in Lanes /\ n - 1 < n
    BY <1>1 DEF Lanes
  <2>2. \A i \in Lanes : i < n => v[i] = w[i]
    BY DEF Masked, SignExtended
  <2>3. v[n - 1] = w[n - 1]
    BY <2>1, <2>2
  <2> HIDE DEF v
  <2>4. SignExtended(v, n) = SignExtended(w, n)
    BY <2>2, <2>3 DEF SignExtended
  <2> QED BY <2>4 DEF v
<1>5. Masked(Masked(w, n), n) = Masked(w, n)
  BY <1>1 DEF Masked
<1> QED BY <1>1, <1>2, <1>3, <1>4, <1>5 DEF Extended, n

\* A handled access and its record.
LEMMA RecordOf ==
  ASSUME NEW a \in Access, Handled(a), flavor \in {"local", "soc"}
  PROVE  record(a) = IF a.word = "mem" THEN NoRecord
                     ELSE IF a.write THEN WriteRecord(a.word, a.off, a.len, Masked(a.data, a.len))
                     ELSE ReadRecord(a.word, a.off, a.len, lsu_rdata(a))
<1>1. a.word \in AllRegions /\ a.write \in BOOLEAN
  BY AccessFields
<1>2. CASE flavor = "soc"
  <2> DEFINE len == store_len_from_wmask(lsu_wmask(a))
  <2>1. len = a.len
    BY StoreLen
  <2>2. Masked(ShiftRight(lsu_write_data(a), a.off), len) = Masked(a.data, a.len)
    BY <2>1, ShiftBack
  <2>3. a.word \in Uart \cup Clint <=> a.word # "mem"
    BY <1>1 DEF AllRegions, Uart, Clint
  <2>4. record(a) = make_mmio_record(a)
    BY <1>2 DEF record
  <2> QED BY <2>1, <2>2, <2>3, <2>4 DEF make_mmio_record
<1>3. CASE flavor = "local"
  <2>1. record(a) = local_record(a)
    BY <1>3 DEF record
  <2>2. /\ a.word \in {"uart0", "mtime", "mem"}
        /\ a.word # "mem" => a.off = 0
        /\ a.word # "mem" /\ a.write => a.data = Masked(a.data, a.len)
        /\ a.word = "uart0" => a.write
    BY <1>3 DEF Handled
  <2>3. CASE a.word = "mem"
    BY <2>1, <2>3 DEF local_record, Clint
  <2>4. CASE a.word # "mem" /\ a.write
    <3>1. low_contiguous_len(lsu_wmask(a)) = a.len /\ lsu_write_data(a) = Masked(a.data, a.len)
      BY <2>2, <2>4, LowLen, ShiftBack
    <3> QED BY <2>1, <2>2, <2>4, <3>1 DEF local_record, Clint
  <2>5. CASE a.word # "mem" /\ ~a.write
    BY <2>1, <2>2, <2>5 DEF local_record, Clint
  <2> QED BY <1>1, <2>3, <2>4, <2>5
<1> QED BY <1>2, <1>3

\* The accesses of a step, and what is known of the last one.
VerdictInv ==
  /\ ReplayInv /\ AlarmIffDifferent /\ flavor \in {"local", "soc"}
  /\ dut # NoAccess => dut \in Access /\ ref \in Access /\ dut.unsigned = ref.unsigned

\* One comparison.
LEMMA StepVerdict ==
  ASSUME VerdictInv, step PROVE AlarmIffDifferent'
<1> DEFINE r == record(dut)
           given == IF ~r.valid THEN mmio_replay ELSE r
           stale == mmio_mismatch /\ ~r.valid
           matches == replay_matches(ref, given)
           mismatch == stale \/ (replayed(ref) /\ ~matches)
           left == IF replayed(ref) THEN NoRecord ELSE given
           ok == npc_mmio_replay_ok(mismatch, left)
           values == ref.write \/ ref.word = "mem" \/ ref_rd_value(ref, given) = lsu_rdata(dut)
<1>1. /\ dut \in Access /\ ref \in Access /\ dut.unsigned = ref.unsigned
      /\ ~mmio_replay.valid /\ mmio_replay = NoRecord /\ flavor \in {"local", "soc"}
  BY DEF VerdictInv, ReplayInv, step, NoRecord
<1>2. last' = [alarm |-> ~(ok /\ values), same |-> Same(dut, ref),
               stale |-> stale, handled |-> Handled(dut) /\ Handled(ref)]
  BY <1>1 DEF step
<1> SUFFICES ASSUME Handled(dut), Handled(ref), ~stale PROVE ~(ok /\ values) <=> ~Same(dut, ref)
  BY <1>2 DEF AlarmIffDifferent
<1>3. r = IF dut.word = "mem" THEN NoRecord
          ELSE IF dut.write THEN WriteRecord(dut.word, dut.off, dut.len, Masked(dut.data, dut.len))
          ELSE ReadRecord(dut.word, dut.off, dut.len, lsu_rdata(dut))
  BY <1>1, RecordOf
<1>4. /\ dut.word \in AllRegions /\ ref.word \in AllRegions
      /\ dut.write \in BOOLEAN /\ ref.write \in BOOLEAN
  BY <1>1, AccessFields
<1>5. replayed(ref) <=> ref.word # "mem"
  BY <1>4 DEF replayed, Uart, Handled, AllRegions
<1>6. given = r
  <2>1. r = NoRecord \/ r.valid = TRUE
    BY <1>3, <1>4 DEF WriteRecord, ReadRecord
  <2> HIDE DEF r
  <2> QED BY <1>1, <2>1
<1>7. CASE dut.word = "mem"
  <2>1. r = NoRecord /\ ~r.valid
    BY <1>3, <1>7 DEF NoRecord
  <2>2. ~matches
    BY <1>6, <2>1 DEF replay_matches
  <2>3. CASE ref.word = "mem"
    <3>1. ok /\ values
      BY <1>5, <1>6, <2>1, <2>3 DEF npc_mmio_replay_ok
    <3> QED BY <3>1, <1>7, <2>3 DEF Same
  <2>4. CASE ref.word # "mem"
    <3>1. ~ok
      BY <1>5, <2>2, <2>4 DEF npc_mmio_replay_ok
    <3> QED BY <3>1, <1>7, <2>4 DEF Same
  <2> QED BY <2>3, <2>4
<1>8. CASE dut.word # "mem" /\ ref.word = "mem"
  <2>1. r.valid
    BY <1>3, <1>8 DEF WriteRecord, ReadRecord
  <2>2. ~ok
    BY <1>5, <1>6, <1>8, <2>1 DEF npc_mmio_replay_ok
  <2> QED BY <1>8, <2>2 DEF Same
<1>9. CASE dut.word # "mem" /\ ref.word # "mem"
  <2>1. /\ r.valid /\ r.write = dut.write /\ r.word = dut.word /\ r.off = dut.off /\ r.len = dut.len
        /\ dut.write => r.wdata = Masked(dut.data, dut.len)
        /\ ~dut.write => r.rdata = lsu_rdata(dut)
    <3>1. CASE dut.write
      <4>1. r = WriteRecord(dut.word, dut.off, dut.len, Masked(dut.data, dut.len))
        BY <1>3, <1>9, <3>1
      <4> HIDE DEF r
      <4> QED BY <3>1, <1>4, <4>1 DEF WriteRecord
    <3>2. CASE ~dut.write
      <4>1. r = ReadRecord(dut.word, dut.off, dut.len, lsu_rdata(dut))
        BY <1>3, <1>9, <3>2
      <4> HIDE DEF r
      <4> QED BY <3>2, <1>4, <4>1 DEF ReadRecord
    <3> QED BY <3>1, <3>2
  <2>2. left = NoRecord /\ ~left.valid
    BY <1>5, <1>9 DEF NoRecord
  <2>3. ok <=> matches
    BY <1>5, <1>9, <2>2 DEF npc_mmio_replay_ok
  <2>4. matches <=> Same(dut, ref)
    BY <1>4, <1>6, <1>9, <2>1 DEF replay_matches, Same
  <2>5. ASSUME matches, ~ref.write PROVE ref_rd_value(ref, given) = lsu_rdata(dut)
    <3>1. ~dut.write /\ ref.len = dut.len
      BY <1>6, <2>1, <2>5 DEF replay_matches
    <3>2. ref_rd_value(ref, given) = Extended(Masked(lsu_rdata(dut), dut.len), dut.len, dut.unsigned)
      BY <1>1, <1>5, <1>6, <1>9, <2>1, <2>5, <3>1 DEF ref_rd_value
    <3> QED BY <1>1, <3>2, LoadAgain
  <2>6. matches => values
    BY <2>5
  <2> QED BY <2>3, <2>4, <2>6
<1> QED BY <1>7, <1>8, <1>9

(***************************************************************************)
(* The test fails exactly when the core and the reference differ in their  *)
(* device access, for every sequence of accesses and every data, where the *)
(* record can describe the access: making it from the bus lanes (main.cpp) *)
(* or from the instruction (soc_main.cpp), matching it (npc-dev.c lines    *)
(* 47-74) and comparing the loaded value lose and invent nothing.          *)
(***************************************************************************)
THEOREM VerdictsAreExact == ReplaySpec => []AlarmIffDifferent
<1>1. ReplayInit => VerdictInv
  BY ReplayAssumption DEF ReplayInit, VerdictInv, ReplayInv, AlarmIffDifferent
<1>2. VerdictInv /\ [ReplayNext]_replayVars => VerdictInv'
  <2> SUFFICES ASSUME VerdictInv, [ReplayNext]_replayVars PROVE VerdictInv'
    OBVIOUS
  <2>1. CASE Commit
    <3>1. PICK a \in Access, b \in Access :
            (IF Faulty THEN a.unsigned = b.unsigned ELSE a = b) /\ dut' = a /\ ref' = b
      BY <2>1 DEF Commit
    <3>2. a.unsigned = b.unsigned
      BY <3>1
    <3> QED BY <2>1, <3>1, <3>2 DEF Commit, VerdictInv, ReplayInv, AlarmIffDifferent
  <2>2. CASE step
    <3>1. ReplayInv' /\ AlarmIffDifferent'
      BY <2>2, StepReplayInv, StepVerdict DEF VerdictInv
    <3> QED BY <2>2, <3>1 DEF step, VerdictInv
  <2>3. CASE UNCHANGED replayVars
    BY <2>3 DEF replayVars, VerdictInv, ReplayInv, AlarmIffDifferent, Access
  <2> QED BY <2>1, <2>2, <2>3 DEF ReplayNext
<1>3. VerdictInv => AlarmIffDifferent
  BY DEF VerdictInv
<1> QED BY <1>1, <1>2, <1>3, PTL DEF ReplaySpec
=============================================================================
