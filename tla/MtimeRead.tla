------------------------------ MODULE MtimeRead ------------------------------
(***************************************************************************)
(* The timer of the AM runtime for npc (abstract-machine/am/src/riscv/npc/ *)
(* timer.c): the 64-bit mtime of the CLINT is read as two words while it   *)
(* runs, high, low and high again, until both high words agree.            *)
(***************************************************************************)
EXTENDS Naturals

CONSTANTS
  Base,     \* values of one word, 2^32 in the code
  Delay,    \* the most cycles from one read to the next
  Mul, Hz,  \* 1000000 and PLATFORM_HZ
  MaxTime   \* bound on the time of a run

\* The high word cannot change twice within two rounds of the loop.
ASSUME TimerAssumption ==
  /\ Base \in Nat \ {0} /\ Delay \in Nat \ {0} /\ 5 * Delay <= Base
  /\ Mul \in Nat \ {0} /\ Hz \in Nat \ {0} /\ MaxTime \in Nat

VARIABLES
  mtime,        \* the counter of Clint.v
  pc, caller,   \* the next statement of read_mtime, and who called it
  hi0, lo, hi1, \* its locals
  boot_time, us,
  started,      \* history: mtime at the call
  rounds,       \* history: rounds of the loop
  value         \* history: the value last returned

timerVars == <<mtime, pc, caller, hi0, lo, hi1, boot_time, us, started, rounds, value>>

High(t) == t \div Base
\* Mutant: a read of the whole counter.
Low_whole(t) == t
Low(t) == t % Base

TimerInit ==
  /\ mtime \in 0 .. Base
  /\ pc = "hi0" /\ caller = "init"
  /\ hi0 = 0 /\ lo = 0 /\ hi1 = 0 /\ boot_time = 0 /\ us = 0
  /\ started = mtime /\ rounds = 1 /\ value = 0

\* A statement takes some cycles, in which mtime goes on.
Cycles == \E d \in 1 .. Delay : mtime' = mtime + d /\ mtime' <= MaxTime

ReadHi0 ==
  /\ pc = "hi0" /\ Cycles
  /\ hi0' = High(mtime) /\ pc' = "lo"
  /\ UNCHANGED <<caller, lo, hi1, boot_time, us, started, rounds, value>>

ReadLo ==
  /\ pc = "lo" /\ Cycles
  /\ lo' = Low(mtime) /\ pc' = "hi1"
  /\ UNCHANGED <<caller, hi0, hi1, boot_time, us, started, rounds, value>>

\* The microseconds of ticks; the product has two words.
\* Mutant: a product of one word.
uptime_short(ticks) == ((ticks * Mul) % Base) \div Hz
uptime(ticks) == ((ticks * Mul) % (Base * Base)) \div Hz

\* What the caller does with the time it gets.
Return(t) ==
  /\ pc' = "idle" /\ value' = t
  /\ boot_time' = IF caller = "init" THEN t ELSE boot_time
  /\ us' = IF caller = "uptime" THEN uptime(t - boot_time) ELSE us
  /\ UNCHANGED rounds

\* Mutant: the first high word is not read again.
Retry_keeps_hi0 ==
  /\ pc' = "lo" /\ rounds' = rounds + 1
  /\ UNCHANGED <<boot_time, us, value>>
Retry ==
  /\ pc' = "hi0" /\ rounds' = rounds + 1
  /\ UNCHANGED <<boot_time, us, value>>

\* Mutant: the loop is left whatever the high words are.
while_once(h) == Return(h * Base + lo)
while(h) == IF hi0 = h THEN Return(h * Base + lo) ELSE Retry

ReadHi1 ==
  /\ pc = "hi1" /\ Cycles
  /\ hi1' = High(mtime) /\ while(High(mtime))
  /\ UNCHANGED <<caller, hi0, lo, started>>

\* __am_timer_uptime, and __am_timer_rtc which keeps no state.
Call ==
  /\ pc = "idle" /\ Cycles
  /\ caller' \in {"uptime", "rtc"}
  /\ pc' = "hi0" /\ started' = mtime' /\ rounds' = 1
  /\ UNCHANGED <<hi0, lo, hi1, boot_time, us, value>>

TimerNext == ReadHi0 \/ ReadLo \/ ReadHi1 \/ Call

TimerSpec == TimerInit /\ [][TimerNext]_timerVars

-----------------------------------------------------------------------------
(***************************************************************************)
(* The registers and locals of the timer keep their types (timer.c lines   *)
(* 7-18).                                                                  *)
(***************************************************************************)
TimerTypeOK ==
  /\ mtime \in Nat /\ started \in Nat /\ value \in Nat /\ boot_time \in Nat /\ us \in Nat
  /\ pc \in {"hi0", "lo", "hi1", "idle"} /\ caller \in {"init", "uptime", "rtc"}
  /\ hi0 \in Nat /\ hi1 \in Nat /\ lo \in 0 .. Base - 1
  /\ rounds \in Nat \ {0}

(***************************************************************************)
(* The value returned is a time between the call and the return: the two   *)
(* words never come from different sides of a carry (timer.c lines 12-17). *)
(***************************************************************************)
ReadIsCurrent == pc = "idle" => started <= value /\ value <= mtime

(***************************************************************************)
(* A carry of the low word costs at most one more round of the loop        *)
(* (timer.c line 16), so a call takes bounded time.                        *)
(***************************************************************************)
OneRetry == rounds <= 2

(***************************************************************************)
(* Uptime never goes back, as long as the product of the ticks fits its    *)
(* two words (timer.c line 26).                                            *)
(***************************************************************************)
UptimeMonotone ==
  [][(mtime' - boot_time') * Mul < Base * Base => us <= us']_timerVars
==============================================================================
