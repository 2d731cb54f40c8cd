--------------------------- MODULE MtimeReadProofs ---------------------------
(***************************************************************************)
(* The two-word timer read for every word size and every delay between     *)
(* reads that the assumption admits.                                       *)
(***************************************************************************)
EXTENDS MtimeRead, Integers, TLAPS

\* The two words of a time.
LEMMA Words ==
  ASSUME NEW t \in Nat
  PROVE  /\ High(t) \in Nat /\ Low(t) \in 0 .. Base - 1
         /\ t = High(t) * Base + Low(t)
  BY TimerAssumption DEF High, Low

\* Different high words are at least one low word apart.
LEMMA HighApart ==
  ASSUME NEW b \in Nat \ {0}, NEW h \in Nat, NEW g \in Nat, h < g
  PROVE  h * b + b <= g * b
  BY SMT

\* The words of a time are determined by it.
LEMMA WordsUnique ==
  ASSUME NEW t \in Nat, NEW h \in Nat, NEW l \in 0 .. Base - 1, t = h * Base + l
  PROVE  High(t) = h /\ Low(t) = l
<1>1. Base \in Nat \ {0}
  BY TimerAssumption
<1>2. High(t) \in Nat /\ Low(t) \in 0 .. Base - 1 /\ t = High(t) * Base + Low(t)
  BY Words
<1> DEFINE g == High(t)
           a == h * Base
           c == g * Base
<1>3. a \in Nat /\ c \in Nat
  BY <1>1, <1>2
<1>4. ~(h < g)
  <2> SUFFICES ASSUME h < g PROVE FALSE
    OBVIOUS
  <2>1. a + Base <= c
    BY <1>1, <1>2, HighApart
  <2> HIDE DEF a, c, g
  <2> QED BY <2>1, <1>1, <1>2, <1>3 DEF a, c, g
<1>5. ~(g < h)
  <2> SUFFICES ASSUME g < h PROVE FALSE
    OBVIOUS
  <2>1. c + Base <= a
    BY <1>1, <1>2, HighApart
  <2> QED BY <2>1, <1>1, <1>2, <1>3
<1>6. g = h
  BY <1>2, <1>4, <1>5
<1>7. a + Low(t) = a + l
  BY <1>2, <1>6
<1>8. Low(t) = l
  <2>1. a \in Int /\ Low(t) \in Int /\ l \in Int
    BY <1>1, <1>2, <1>3
  <2>2. \A x, y, z \in Int : x + y = x + z => y = z
    OBVIOUS
  <2> QED BY <2>1, <2>2, <1>7, Zenon
<1> QED BY <1>6, <1>8

\* The high word does not go back.
LEMMA HighMonotone ==
  ASSUME NEW s \in Nat, NEW t \in Nat, s <= t
  PROVE  High(s) <= High(t)
<1>1. Base \in Nat \ {0}
  BY TimerAssumption
<1>2. /\ High(s) \in Nat /\ Low(s) \in 0 .. Base - 1 /\ s = High(s) * Base + Low(s)
      /\ High(t) \in Nat /\ Low(t) \in 0 .. Base - 1 /\ t = High(t) * Base + Low(t)
  BY Words
<1>3. High(s) * Base \in Nat /\ High(t) * Base \in Nat
  BY <1>1, <1>2
<1> SUFFICES ASSUME High(t) < High(s) PROVE FALSE
  BY <1>2
<1>4. High(t) * Base + Base <= High(s) * Base
  BY <1>1, <1>2, HighApart
<1> QED BY <1>1, <1>2, <1>3, <1>4

\* Time goes on without a carry.
LEMMA NoCarry ==
  ASSUME NEW t \in Nat, NEW d \in Nat, Low(t) + d < Base
  PROVE  High(t + d) = High(t) /\ Low(t + d) = Low(t) + d
<1>1. Base \in Nat \ {0}
  BY TimerAssumption
<1>2. High(t) \in Nat /\ Low(t) \in 0 .. Base - 1 /\ t = High(t) * Base + Low(t)
  BY Words
<1>3. High(t) * Base \in Nat
  BY <1>1, <1>2
<1>4. t + d \in Nat /\ Low(t) + d \in 0 .. Base - 1 /\ t + d = High(t) * Base + (Low(t) + d)
  BY <1>1, <1>2, <1>3
<1> QED BY <1>2, <1>4, WordsUnique

\* A carry within n cycles leaves the low word below n.
LEMMA AfterCarry ==
  ASSUME NEW s \in Nat, NEW t \in Nat, NEW n \in Nat, s <= t, t <= s + n, High(s) # High(t)
  PROVE  Low(t) < n
<1>1. Base \in Nat \ {0}
  BY TimerAssumption
<1>2. /\ High(s) \in Nat /\ Low(s) \in 0 .. Base - 1 /\ s = High(s) * Base + Low(s)
      /\ High(t) \in Nat /\ Low(t) \in 0 .. Base - 1 /\ t = High(t) * Base + Low(t)
  BY Words
<1>3. High(s) * Base \in Nat /\ High(t) * Base \in Nat
  BY <1>1, <1>2
<1>4. High(s) <= High(t)
  BY HighMonotone
<1>5. High(s) < High(t)
  BY <1>2, <1>4
<1>6. High(s) * Base + Base <= High(t) * Base
  BY <1>1, <1>2, <1>5, HighApart
<1> QED BY <1>1, <1>2, <1>3, <1>6

\* Microseconds are a natural number whatever the ticks.
LEMMA UptimeNat ==
  ASSUME NEW x \in Int
  PROVE  uptime(x) \in Nat
<1> DEFINE m == Base * Base
           r == (x * Mul) % m
<1>1. m \in Nat \ {0}
  BY TimerAssumption
<1>2. x * Mul \in Int
  BY TimerAssumption
<1>3. r \in Nat
  <2> HIDE DEF m
  <2> QED BY <1>1, <1>2
<1>4. r \div Hz \in Nat
  <2> HIDE DEF r
  <2> QED BY <1>3, TimerAssumption
<1> QED BY <1>4 DEF uptime

-----------------------------------------------------------------------------
(***************************************************************************)
(* What read_mtime knows before each of its reads (timer.c lines 12-16):   *)
(* the words it holds are those of times since the call, and a second      *)
(* round runs right after a carry.                                         *)
(***************************************************************************)
BeforeHi0 == pc = "hi0" =>
  started <= mtime /\ (rounds = 2 => Low(mtime) < 3 * Delay)

BeforeLo == pc = "lo" =>
  /\ \E t0 \in Nat :
       /\ started <= t0 /\ t0 <= mtime /\ mtime <= t0 + Delay
       /\ hi0 = High(t0)
  /\ rounds = 2 => High(mtime) = hi0 /\ Low(mtime) < 4 * Delay

BeforeHi1 == pc = "hi1" =>
  /\ \E t0, t1 \in Nat :
       /\ started <= t0 /\ t0 <= t1 /\ t1 <= mtime /\ mtime <= t0 + 2 * Delay
       /\ hi0 = High(t0) /\ lo = Low(t1)
  /\ rounds = 2 => High(mtime) = hi0

TimerInv ==
  TimerTypeOK /\ ReadIsCurrent /\ OneRetry /\ BeforeHi0 /\ BeforeLo /\ BeforeHi1

\* The timer before its first read.
LEMMA InitTimerInv == TimerInit => TimerInv
  BY TimerAssumption
  DEF TimerInit, TimerInv, TimerTypeOK, ReadIsCurrent, OneRetry, BeforeHi0, BeforeLo, BeforeHi1

\* Every step takes between one and Delay cycles.
LEMMA CyclesPass ==
  ASSUME TimerInv, Cycles
  PROVE  \E d \in 1 .. Delay : mtime' = mtime + d
  BY DEF Cycles

\* The first high word is read.
LEMMA ReadHi0Inv == TimerInv /\ ReadHi0 => TimerInv'
<1> SUFFICES ASSUME TimerInv, ReadHi0 PROVE TimerInv'
  OBVIOUS
<1>1. PICK d \in 1 .. Delay : mtime' = mtime + d
  BY CyclesPass DEF ReadHi0
<1>2. Delay \in Nat /\ Base \in Nat /\ 5 * Delay <= Base /\ mtime \in Nat /\ mtime' \in Nat
  BY <1>1, TimerAssumption DEF TimerInv, TimerTypeOK
<1>3. High(mtime) \in Nat /\ Low(mtime) \in 0 .. Base - 1
  BY <1>2, Words
<1>4. TimerTypeOK'
  BY <1>2, <1>3 DEF TimerInv, TimerTypeOK, ReadHi0
<1>5. BeforeLo'
  <2>1. /\ started' <= mtime /\ mtime <= mtime' /\ mtime' <= mtime + Delay
        /\ hi0' = High(mtime)
    BY <1>1, <1>2 DEF TimerInv, TimerTypeOK, BeforeHi0, ReadHi0
  <2>2. ASSUME rounds = 2 PROVE High(mtime') = hi0' /\ Low(mtime') < 4 * Delay
    <3>1. Low(mtime) < 3 * Delay
      BY <2>2 DEF TimerInv, BeforeHi0, ReadHi0
    <3>2. Low(mtime) + d < 4 * Delay /\ Low(mtime) + d < Base /\ d \in Nat
      BY <3>1, <1>1, <1>2, <1>3
    <3>3. High(mtime + d) = High(mtime) /\ Low(mtime + d) = Low(mtime) + d
      BY <3>2, <1>2, NoCarry
    <3> QED BY <3>2, <3>3, <1>1, <2>1
  <2> QED BY <1>2, <2>1, <2>2 DEF BeforeLo, ReadHi0, High, Low
<1>6. (ReadIsCurrent /\ OneRetry /\ BeforeHi0 /\ BeforeHi1)'
  BY DEF ReadHi0, TimerInv, ReadIsCurrent, OneRetry, BeforeHi0, BeforeHi1
<1> QED BY <1>4, <1>5, <1>6 DEF TimerInv

\* The low word is read.
LEMMA ReadLoInv == TimerInv /\ ReadLo => TimerInv'
<1> SUFFICES ASSUME TimerInv, ReadLo PROVE TimerInv'
  OBVIOUS
<1>1. PICK d \in 1 .. Delay : mtime' = mtime + d
  BY CyclesPass DEF ReadLo
<1>2. Delay \in Nat /\ Base \in Nat /\ 5 * Delay <= Base /\ mtime \in Nat /\ mtime' \in Nat
  BY <1>1, TimerAssumption DEF TimerInv, TimerTypeOK
<1>3. High(mtime) \in Nat /\ Low(mtime) \in 0 .. Base - 1
  BY <1>2, Words
<1>4. TimerTypeOK'
  BY <1>2, <1>3 DEF TimerInv, TimerTypeOK, ReadLo
<1>5. BeforeHi1'
  <2>1. PICK t0 \in Nat :
          /\ started <= t0 /\ t0 <= mtime /\ mtime <= t0 + Delay
          /\ hi0 = High(t0)
    BY DEF TimerInv, BeforeLo, ReadLo
  <2>2. /\ started' <= t0 /\ t0 <= mtime /\ mtime <= mtime' /\ mtime' <= t0 + 2 * Delay
        /\ hi0' = High(t0) /\ lo' = Low(mtime)
    BY <1>1, <1>2, <2>1 DEF ReadLo
  <2>3. ASSUME rounds = 2 PROVE High(mtime') = hi0'
    <3>1. High(mtime) = hi0 /\ Low(mtime) < 4 * Delay
      BY <2>3 DEF TimerInv, BeforeLo, ReadLo
    <3>2. Low(mtime) + d < Base /\ d \in Nat
      BY <3>1, <1>1, <1>2, <1>3
    <3>3. High(mtime + d) = High(mtime)
      BY <3>2, <1>2, NoCarry
    <3> QED BY <3>1, <3>3, <1>1 DEF ReadLo
  <2>4. \E s0, s1 \in Nat :
          /\ started' <= s0 /\ s0 <= s1 /\ s1 <= mtime' /\ mtime' <= s0 + 2 * Delay
          /\ hi0' = High(s0) /\ lo' = Low(s1)
    BY <2>2, <1>2
  <2> QED BY <2>3, <2>4 DEF BeforeHi1, ReadLo, High, Low
<1>6. (ReadIsCurrent /\ OneRetry /\ BeforeHi0 /\ BeforeLo)'
  BY DEF ReadLo, TimerInv, ReadIsCurrent, OneRetry, BeforeHi0, BeforeLo
<1> QED BY <1>4, <1>5, <1>6 DEF TimerInv

\* The second high word is read: the call returns, or tries once more.
LEMMA ReadHi1Inv == TimerInv /\ ReadHi1 => TimerInv'
<1> SUFFICES ASSUME TimerInv, ReadHi1 PROVE TimerInv'
  OBVIOUS
<1>1. PICK d \in 1 .. Delay : mtime' = mtime + d
  BY CyclesPass DEF ReadHi1
<1>2. /\ Delay \in Nat \ {0} /\ Base \in Nat \ {0} /\ 5 * Delay <= Base
      /\ mtime \in Nat /\ mtime' \in Nat /\ started \in Nat /\ rounds \in Nat \ {0}
      /\ rounds <= 2 /\ started' = started /\ lo \in Nat
  BY <1>1, TimerAssumption DEF TimerInv, TimerTypeOK, OneRetry, ReadHi1
<1>3. High(mtime) \in Nat /\ Low(mtime) \in 0 .. Base - 1
  BY <1>2, Words
<1>4. PICK t0 \in Nat, t1 \in Nat :
        /\ started <= t0 /\ t0 <= t1 /\ t1 <= mtime /\ mtime <= t0 + 2 * Delay
        /\ hi0 = High(t0) /\ lo = Low(t1)
  BY DEF TimerInv, BeforeHi1, ReadHi1
<1>5. rounds = 2 => High(mtime) = hi0
  BY DEF TimerInv, BeforeHi1, ReadHi1
<1>6. CASE hi0 = High(mtime)
  <2> DEFINE v == High(mtime) * Base + lo
  <2>1. v = t1
    <3>1. High(t0) <= High(t1) /\ High(t1) <= High(mtime)
      BY <1>2, <1>4, HighMonotone
    <3>2. High(t1) \in Nat /\ t1 = High(t1) * Base + Low(t1)
      BY Words
    <3>3. High(t0) \in Nat
      BY Words
    <3>4. High(t1) = High(mtime)
      BY <3>1, <3>2, <3>3, <1>3, <1>4, <1>6
    <3> QED BY <3>2, <3>4, <1>4
  <2>2. Return(v)
    BY <1>6 DEF ReadHi1, while
  <2>3. pc' = "idle" /\ value' = t1 /\ rounds' = rounds
    BY <2>1, <2>2 DEF Return
  <2>4. ReadIsCurrent'
    BY <2>3, <1>1, <1>2, <1>4 DEF ReadIsCurrent
  <2>5. (OneRetry /\ BeforeHi0 /\ BeforeLo /\ BeforeHi1)'
    BY <2>3, <1>2 DEF OneRetry, BeforeHi0, BeforeLo, BeforeHi1
  <2>6. boot_time' \in Nat
    BY <2>1, <2>2 DEF Return, TimerInv, TimerTypeOK
  <2>7. us' \in Nat
    <3>1. uptime(t1 - boot_time) \in Nat
      <4>1. boot_time \in Nat
        BY DEF TimerInv, TimerTypeOK
      <4> QED BY <4>1, UptimeNat
    <3> QED BY <3>1, <2>1, <2>2 DEF Return, TimerInv, TimerTypeOK
  <2>8. TimerTypeOK'
    BY <2>3, <2>6, <2>7, <1>2, <1>3 DEF TimerInv, TimerTypeOK, ReadHi1
  <2> QED BY <2>4, <2>5, <2>8 DEF TimerInv
<1>7. CASE hi0 # High(mtime)
  <2>1. rounds = 1
    BY <1>2, <1>5, <1>7
  <2>2. /\ pc' = "hi0" /\ rounds' = 2
        /\ UNCHANGED <<boot_time, us, value>>
    BY <1>7, <2>1 DEF ReadHi1, while, Retry
  <2>3. Low(mtime) < 2 * Delay
    <3>1. 2 * Delay \in Nat /\ t0 <= mtime
      BY <1>2, <1>4
    <3> QED BY <3>1, <1>2, <1>4, <1>7, AfterCarry
  <2>4. Low(mtime) + d < 3 * Delay /\ Low(mtime) + d < Base /\ d \in Nat
    BY <2>3, <1>1, <1>2, <1>3
  <2>5. Low(mtime + d) = Low(mtime) + d
    BY <2>4, <1>2, NoCarry
  <2>6. Low(mtime') < 3 * Delay
    BY <2>4, <2>5, <1>1
  <2>7. started' <= mtime'
    BY <1>1, <1>2, <1>4
  <2>8. BeforeHi0'
    BY <2>6, <2>7 DEF BeforeHi0, Low
  <2>9. (ReadIsCurrent /\ OneRetry /\ BeforeLo /\ BeforeHi1)'
    BY <2>2 DEF ReadIsCurrent, OneRetry, BeforeLo, BeforeHi1
  <2>10. TimerTypeOK'
    BY <2>2, <1>2, <1>3 DEF TimerInv, TimerTypeOK, ReadHi1
  <2> QED BY <2>8, <2>9, <2>10 DEF TimerInv
<1> QED BY <1>6, <1>7

\* A new call starts.
LEMMA CallInv == TimerInv /\ Call => TimerInv'
<1> SUFFICES ASSUME TimerInv, Call PROVE TimerInv'
  OBVIOUS
<1>1. PICK d \in 1 .. Delay : mtime' = mtime + d
  BY CyclesPass DEF Call
<1>2. mtime' \in Nat
  BY <1>1, TimerAssumption DEF TimerInv, TimerTypeOK
<1> QED BY <1>2 DEF Call, TimerInv, TimerTypeOK, ReadIsCurrent, OneRetry,
                    BeforeHi0, BeforeLo, BeforeHi1

\* Nothing happens.
LEMMA TimerStutter == TimerInv /\ UNCHANGED timerVars => TimerInv'
  BY DEF timerVars, TimerInv, TimerTypeOK, ReadIsCurrent, OneRetry,
         BeforeHi0, BeforeLo, BeforeHi1, High, Low

\* The invariant holds throughout.
LEMMA TimerInvariant == TimerSpec => []TimerInv
<1>1. TimerInv /\ [TimerNext]_timerVars => TimerInv'
  BY ReadHi0Inv, ReadLoInv, ReadHi1Inv, CallInv, TimerStutter DEF TimerNext
<1> QED BY InitTimerInv, <1>1, PTL DEF TimerSpec

(***************************************************************************)
(* For every word size and every run of the clock, read_mtime (timer.c     *)
(* lines 9-18) returns a time between its call and its return.             *)
(***************************************************************************)
THEOREM ReadsCurrentTime == TimerSpec => []ReadIsCurrent
<1>1. TimerInv => ReadIsCurrent
  BY DEF TimerInv
<1> QED BY <1>1, TimerInvariant, PTL

(***************************************************************************)
(* The loop of read_mtime runs at most twice when two rounds take no       *)
(* longer than the low word needs to wrap.                                 *)
(***************************************************************************)
THEOREM ReadsTwiceAtMost == TimerSpec => []OneRetry
<1>1. TimerInv => OneRetry
  BY DEF TimerInv
<1> QED BY <1>1, TimerInvariant, PTL

(***************************************************************************)
(* The counter, the locals of read_mtime and the microseconds keep their   *)
(* types, the low word within one word (timer.c lines 7-27).               *)
(***************************************************************************)
THEOREM TimerTypes == TimerSpec => []TimerTypeOK
<1>1. TimerInv => TimerTypeOK
  BY DEF TimerInv
<1> QED BY <1>1, TimerInvariant, PTL

-----------------------------------------------------------------------------
(***************************************************************************)
(* Uptime.  The microseconds last reported are those of a time not later   *)
(* than the call that is running, and nothing is reported before boot_time *)
(* is set (timer.c lines 20-27).                                           *)
(***************************************************************************)

\* No call that has not yet returned can report an earlier time.
Known == IF pc = "idle" THEN mtime ELSE started

UptimeInv ==
  /\ boot_time <= Known
  /\ caller = "init" /\ pc # "idle" => us = 0
  /\ us = 0 \/ \E t \in Nat : boot_time <= t /\ t <= Known /\ us = uptime(t - boot_time)

\* Products keep the order.
LEMMA TimesMonotone ==
  ASSUME NEW a \in Nat, NEW b \in Nat, NEW m \in Nat, a <= b
  PROVE  a * m <= b * m /\ a * m \in Nat /\ b * m \in Nat
<1>1. PICK d \in Nat : b = a + d
  <2>1. b - a \in Nat /\ b = a + (b - a)
    OBVIOUS
  <2> QED BY <2>1
<1>2. b * m = a * m + d * m /\ d * m \in Nat /\ a * m \in Nat /\ b * m \in Nat
  BY <1>1
<1> QED BY <1>2

\* So do quotients.
LEMMA DivMonotone ==
  ASSUME NEW a \in Nat, NEW b \in Nat, NEW h \in Nat \ {0}, a <= b
  PROVE  a \div h <= b \div h
<1> DEFINE p == a \div h
           q == b \div h
           r == a % h
           s == b % h
<1>1. /\ p \in Nat /\ q \in Nat /\ r \in 0 .. h - 1 /\ s \in 0 .. h - 1
      /\ a = p * h + r /\ b = q * h + s
  OBVIOUS
<1> HIDE DEF p, q, r, s
<1> SUFFICES ASSUME q < p PROVE FALSE
  BY <1>1 DEF p, q
<1>2. q * h + h <= p * h
  BY <1>1, HighApart
<1>3. q * h \in Nat /\ p * h \in Nat
  BY <1>1
<1> QED BY <1>1, <1>2, <1>3

\* Later times have more microseconds while the product fits.
LEMMA UptimeGrows ==
  ASSUME NEW a \in Nat, NEW b \in Nat, a <= b, b * Mul < Base * Base
  PROVE  uptime(a) <= uptime(b)
<1> DEFINE m == Base * Base
           p == a * Mul
           q == b * Mul
<1>1. m \in Nat \ {0} /\ Mul \in Nat /\ Hz \in Nat \ {0}
  BY TimerAssumption
<1>2. p <= q /\ p \in Nat /\ q \in Nat
  BY <1>1, TimesMonotone
<1>3. q < m
  OBVIOUS
<1>4. uptime(a) = (p % m) \div Hz /\ uptime(b) = (q % m) \div Hz
  BY DEF uptime
<1> HIDE DEF m, p, q
<1>5. p % m = p /\ q % m = q
  BY <1>1, <1>2, <1>3
<1>6. p \div Hz <= q \div Hz
  BY <1>1, <1>2, DivMonotone
<1> QED BY <1>4, <1>5, <1>6

\* A call that returns: its time is known to be later than all before.
LEMMA ReturnTime ==
  ASSUME TimerInv, ReadHi1, hi0 = High(mtime)
  PROVE  \E t \in Nat : /\ started <= t /\ t <= mtime /\ Return(t)
                        /\ mtime' \in Nat /\ mtime < mtime'
<1>1. PICK d \in 1 .. Delay : mtime' = mtime + d
  BY CyclesPass DEF ReadHi1
<1>2. mtime \in Nat /\ mtime' \in Nat /\ mtime < mtime' /\ Delay \in Nat
  BY <1>1, TimerAssumption DEF TimerInv, TimerTypeOK
<1>3. PICK t0 \in Nat, t1 \in Nat :
        /\ started <= t0 /\ t0 <= t1 /\ t1 <= mtime
        /\ hi0 = High(t0) /\ lo = Low(t1)
  BY DEF TimerInv, BeforeHi1, ReadHi1
<1>4. /\ High(t1) \in Nat /\ t1 = High(t1) * Base + Low(t1)
      /\ High(t0) \in Nat /\ High(mtime) \in Nat
  BY <1>2, Words
<1>5. High(t0) <= High(t1) /\ High(t1) <= High(mtime)
  BY <1>2, <1>3, HighMonotone
<1>6. High(t1) = High(mtime)
  BY <1>3, <1>4, <1>5
<1>7. Return(t1)
  BY <1>3, <1>4, <1>6 DEF ReadHi1, while
<1>8. started <= t1
  BY <1>2, <1>3 DEF TimerInv, TimerTypeOK
<1> QED BY <1>2, <1>3, <1>7, <1>8

\* One step: the invariant is kept, and uptime does not go back.
LEMMA UptimeStep ==
  ASSUME TimerInv, UptimeInv, [TimerNext]_timerVars
  PROVE  /\ UptimeInv'
         /\ (mtime' - boot_time') * Mul < Base * Base => us <= us'
<1>1. /\ mtime \in Nat /\ started \in Nat /\ boot_time \in Nat /\ us \in Nat /\ Delay \in Nat
      /\ pc \in {"hi0", "lo", "hi1", "idle"}
  BY TimerAssumption DEF TimerInv, TimerTypeOK
<1>2. CASE UNCHANGED timerVars
  BY <1>1, <1>2 DEF timerVars, UptimeInv, Known, uptime
<1>3. CASE ReadHi0 \/ ReadLo
  <2>1. UNCHANGED <<caller, boot_time, us, started>> /\ pc # "idle" /\ pc' # "idle"
    BY <1>3 DEF ReadHi0, ReadLo
  <2> QED BY <1>1, <2>1 DEF UptimeInv, Known, uptime
<1>4. CASE Call
  <2>1. PICK d \in 1 .. Delay : mtime' = mtime + d
    BY <1>4, CyclesPass DEF Call
  <2>2. /\ UNCHANGED <<boot_time, us>> /\ Known = mtime /\ Known' = mtime' /\ caller' # "init"
    BY <1>4 DEF Call, Known
  <2>3. mtime <= mtime' /\ mtime' \in Nat
    BY <1>1, <2>1
  <2> QED BY <1>1, <2>2, <2>3 DEF UptimeInv, uptime
<1>5. CASE ReadHi1 /\ hi0 # High(mtime)
  <2>1. UNCHANGED <<caller, boot_time, us, started>> /\ pc # "idle" /\ pc' # "idle"
    BY <1>5 DEF ReadHi1, while, Retry
  <2> QED BY <1>1, <2>1 DEF UptimeInv, Known, uptime
<1>6. CASE ReadHi1 /\ hi0 = High(mtime)
  <2>1. PICK t \in Nat : started <= t /\ t <= mtime /\ Return(t) /\ mtime' \in Nat /\ mtime < mtime'
    BY <1>6, ReturnTime
  <2>2. pc = "hi1" /\ pc' = "idle" /\ Known = started /\ Known' = mtime' /\ caller' = caller
    BY <1>6, <2>1 DEF ReadHi1, Return, Known
  <2>3. boot_time <= started
    BY <2>2 DEF UptimeInv
  <2>4. CASE caller = "init"
    BY <1>1, <2>1, <2>2, <2>4 DEF UptimeInv, Return
  <2>5. CASE caller = "rtc"
    <3>1. UNCHANGED <<boot_time, us>>
      BY <2>1, <2>5 DEF Return
    <3>2. started <= mtime' /\ boot_time <= mtime'
      BY <1>1, <2>1, <2>3
    <3>3. us = 0 \/ \E s \in Nat : boot_time <= s /\ s <= started /\ us = uptime(s - boot_time)
      BY <2>2 DEF UptimeInv
    <3>4. us' = 0 \/ \E s \in Nat : boot_time <= s /\ s <= mtime' /\ us = uptime(s - boot_time)
      BY <1>1, <2>1, <3>1, <3>2, <3>3
    <3>5. UptimeInv'
      BY <2>2, <3>1, <3>2, <3>4 DEF UptimeInv, uptime
    <3> QED BY <1>1, <3>1, <3>5
  <2>6. CASE caller = "uptime"
    <3>1. boot_time' = boot_time /\ us' = uptime(t - boot_time)
      BY <2>1, <2>6 DEF Return
    <3>2. t - boot_time \in Nat /\ boot_time <= t /\ t <= mtime'
      BY <1>1, <2>1, <2>3
    <3>3. UptimeInv'
      <4>1. \E s \in Nat : boot_time <= s /\ s <= mtime' /\ us' = uptime(s - boot_time)
        BY <3>1, <3>2
      <4>2. boot_time <= mtime'
        BY <1>1, <2>1, <3>2
      <4> QED BY <2>2, <2>6, <3>1, <4>1, <4>2 DEF UptimeInv, uptime
    <3>4. us' \in Nat
      BY <3>1, <3>2, UptimeNat
    <3>5. ASSUME (mtime' - boot_time') * Mul < Base * Base PROVE us <= us'
      <4>1. CASE us = 0
        BY <1>1, <3>4, <4>1
      <4>2. CASE us # 0
        <5>1. PICK s \in Nat : boot_time <= s /\ s <= started /\ us = uptime(s - boot_time)
          BY <2>2, <4>2 DEF UptimeInv
        <5> DEFINE a == s - boot_time
                   b == t - boot_time
                   e == mtime' - boot_time
        <5>2. a \in Nat /\ b \in Nat /\ e \in Nat /\ a <= b /\ b <= e
          <6>1. /\ s \in Nat /\ t \in Nat /\ boot_time \in Nat /\ started \in Nat /\ mtime' \in Nat
                /\ boot_time <= s /\ s <= started /\ started <= t /\ t <= mtime'
            BY <1>1, <2>1, <3>2, <5>1
          <6>2. \A k, i, j, l \in Nat : k <= i /\ i <= j /\ j <= l =>
                  /\ i - k \in Nat /\ j - k \in Nat /\ l - k \in Nat
                  /\ i - k <= j - k /\ j - k <= l - k
            OBVIOUS
          <6>3. s <= t
            BY <6>1
          <6> QED BY <6>1, <6>2, <6>3
        <5>3. e * Mul < Base * Base /\ Mul \in Nat /\ Base * Base \in Nat
          <6>1. Mul \in Nat /\ Base \in Nat
            BY TimerAssumption
          <6> QED BY <3>1, <3>5, <6>1
        <5> HIDE DEF a, b, e
        <5>4. b * Mul <= e * Mul /\ b * Mul \in Nat /\ e * Mul \in Nat
          BY <5>2, <5>3, TimesMonotone
        <5>5. b * Mul < Base * Base
          BY <5>3, <5>4
        <5>6. uptime(a) <= uptime(b)
          BY <5>2, <5>5, UptimeGrows
        <5> QED BY <3>1, <5>1, <5>6 DEF a, b
      <4> QED BY <4>1, <4>2
    <3> QED BY <3>3, <3>5
  <2>7. caller \in {"init", "uptime", "rtc"}
    BY DEF TimerInv, TimerTypeOK
  <2> QED BY <2>4, <2>5, <2>6, <2>7
<1> QED BY <1>2, <1>3, <1>4, <1>5, <1>6 DEF TimerNext

(***************************************************************************)
(* Uptime never goes back while the product of the ticks fits two words    *)
(* (timer.c lines 24-27), whatever calls come in between and for every     *)
(* word size and frequency.                                                *)
(***************************************************************************)
THEOREM UptimeNeverBack == TimerSpec => UptimeMonotone
<1>1. TimerInit => UptimeInv
  BY TimerAssumption DEF TimerInit, UptimeInv, Known
<1>2. TimerInv /\ UptimeInv /\ [TimerNext]_timerVars => UptimeInv'
  BY UptimeStep
<1>3. TimerInv /\ UptimeInv /\ [TimerNext]_timerVars
        => [(mtime' - boot_time') * Mul < Base * Base => us <= us']_timerVars
  BY UptimeStep
<1> QED BY <1>1, <1>2, <1>3, TimerInvariant, PTL DEF TimerSpec, UptimeMonotone
=============================================================================
