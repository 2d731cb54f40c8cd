------------------------------ MODULE RtSched ------------------------------
(***************************************************************************)
(* The uniprocessor scheduler, the thread states and the thread timers of  *)
(* RT-Thread (rt-thread-am/src: scheduler_up.c, thread.c, timer.c,         *)
(* clock.c).  A section of C code that runs with interrupts disabled is an *)
(* operator from a kernel state k to the next one, so that the sections of *)
(* the IPC objects (RtIpc, RtMutex) can be put together from these.        *)
(*                                                                         *)
(* A kernel state is a record; the fields used here are                    *)
(*   cur     rt_current_thread          group  the ready bitmap, as a set  *)
(*   stat    thread->stat, masked       yld    threads with STAT_YIELD     *)
(*   prio    current_priority           init   init_priority               *)
(*   ready   the lists of the priority table                               *)
(*   wait    the suspend list of every IPC object, and the defunct list    *)
(*   timer   the timer list: <<thread, ticks left>>, in list order         *)
(*   slice   remaining_tick             lock   rt_scheduler_lock_nest      *)
(*   err     thread->error              fault  a failed RT_ASSERT or a     *)
(*                                             NULL dereference happened   *)
(* A thread's tlist node is in at most one list, so unlinking needs no     *)
(* list argument, as in rt_list_remove.                                    *)
(***************************************************************************)
EXTENDS Integers, Sequences, FiniteSets, SequencesExt, FiniteSetsExt

CONSTANTS Threads,     \* every thread, the idle thread included
          Idle,        \* the idle thread
          MaxPrio,     \* RT_THREAD_PRIORITY_MAX - 1: the idle priority
          Slice        \* init_tick of every thread

ASSUME SchedAssumption == /\ IsFiniteSet(Threads) /\ Idle \in Threads
                          /\ MaxPrio \in Nat \ {0} /\ Slice \in Nat \ {0}

Prios == 0 .. MaxPrio
Forever == -1                          \* RT_WAITING_FOREVER

rt_list_remove(k, t) ==
  [k EXCEPT !.ready = [p \in Prios |-> RemoveFirst(@[p], t)],
            !.wait  = [w \in DOMAIN @ |-> RemoveFirst(@[w], t)]]

Linked(k, t) == \/ \E p \in Prios : Contains(k.ready[p], t)
                \/ \E w \in DOMAIN k.wait : Contains(k.wait[w], t)

(* Where a list is entered that is walked as far as the first of I *)
place(s, I) == IF I = {} THEN Len(s) + 1 ELSE Min(I)

-----------------------------------------------------------------------------
(* scheduler_up.c *)

rt_schedule_insert_thread(k, t) ==
  IF t = k.cur THEN [k EXCEPT !.stat[t] = "running"]
  ELSE [k EXCEPT !.stat[t] = "ready",
                 !.fault = @ \/ Linked(k, t),     \* the node is in a list
                 !.ready[k.prio[t]] = IF t \in k.yld THEN Append(@, t)
                                                     ELSE Cons(t, @),
                 !.group = @ \cup {k.prio[t]}]

clear_if_empty(k, p) ==
  IF k.ready[p] = << >> THEN [k EXCEPT !.group = @ \ {p}] ELSE k

rt_schedule_remove_thread(k, t) ==
  clear_if_empty(rt_list_remove(k, t), k.prio[t])

(* Of two threads of one priority the running one keeps the processor      *)
(* unless it carries the YIELD flag; the flag is cleared before the thread *)
(* is put back into its list.  A bit of the bitmap whose list is empty     *)
(* makes the list head itself the next thread.                             *)
rt_schedule(k) ==
  IF k.lock # 0 \/ k.group = {} THEN k
  ELSE
  LET from    == k.cur
      highest == Min(k.group)
      running == k.stat[from] = "running"
      stays   == running /\ \/ k.prio[from] < highest
                            \/ k.prio[from] = highest /\ from \notin k.yld
      to == IF stays THEN from ELSE Head(k.ready[highest])
      k1 == [k EXCEPT !.cur = to,
                      !.yld = IF running THEN @ \ {from} ELSE @]
      k2 == IF running /\ ~stays THEN rt_schedule_insert_thread(k1, from)
                                 ELSE k1
  IN  IF ~stays /\ k.ready[highest] = << >> THEN [k EXCEPT !.fault = TRUE]
      ELSE [rt_schedule_remove_thread(k2, to) EXCEPT !.stat[to] = "running"]

rt_enter_critical(k) == [k EXCEPT !.lock = @ + 1]

-----------------------------------------------------------------------------
(* timer.c: only the timers of the threads are kept; the skip list has one *)
(* level.  A new timer goes behind those that expire at the same tick.     *)

rt_timer_stop(k, t) ==
  [k EXCEPT !.timer = RemoveFirstMatch(@, LAMBDA e : e[1] = t)]

timer_insert(tm, t, n) ==
  InsertAt(tm, place(tm, {i \in DOMAIN tm : tm[i][2] > n}), <<t, n>>)

rt_timer_start(k, t, n) ==
  [k EXCEPT !.timer = timer_insert(rt_timer_stop(k, t).timer, t, n)]

-----------------------------------------------------------------------------
(* thread.c *)

rt_thread_suspend(k, t) ==
  IF k.stat[t] \notin {"ready", "running"} THEN k
  ELSE rt_timer_stop([rt_schedule_remove_thread(k, t)
                        EXCEPT !.stat[t] = "suspend"], t)

\* Mutant: the thread stays in the list it waited in.
rt_thread_resume_linked(k, t) ==
  IF k.stat[t] # "suspend" THEN k
  ELSE rt_schedule_insert_thread(rt_timer_stop(k, t), t)
\* Mutant: the timer of a resumed thread goes on.
rt_thread_resume_timed(k, t) ==
  IF k.stat[t] # "suspend" THEN k
  ELSE rt_schedule_insert_thread(rt_list_remove(k, t), t)
rt_thread_resume(k, t) ==
  IF k.stat[t] # "suspend" THEN k
  ELSE rt_schedule_insert_thread(rt_timer_stop(rt_list_remove(k, t), t), t)

change_priority(k, t, p) ==
  IF k.stat[t] = "ready"
  THEN rt_schedule_insert_thread(
         [rt_schedule_remove_thread(k, t) EXCEPT !.prio[t] = p], t)
  ELSE [k EXCEPT !.prio[t] = p]

(* The timeout function of a thread timer, with the assertion it starts by *)
_thread_timeout(k, t) ==
  LET k1 == [rt_list_remove(k, t) EXCEPT
                !.fault = @ \/ k.stat[t] # "suspend", !.err[t] = "ETIMEOUT"]
  IN  rt_schedule(rt_schedule_insert_thread(k1, t))

-----------------------------------------------------------------------------
(* timer.c, clock.c: the tick interrupt.  The expired timers are a prefix  *)
(* of the list; each is taken off and its timeout function called.         *)

expire(k, e) == _thread_timeout(rt_timer_stop(k, e[1]), e[1])

rt_timer_check(k) ==
  LET later == {i \in DOMAIN k.timer : k.timer[i][2] > 0}
  IN  FoldLeft(expire, k, SubSeq(k.timer, 1, place(k.timer, later) - 1))

rt_tick_increase(k) ==
  LET t  == k.cur
      k1 == [k EXCEPT !.timer = [i \in DOMAIN @ |-> <<@[i][1], @[i][2] - 1>>]]
      k2 == IF k.slice[t] > 1 THEN [k1 EXCEPT !.slice[t] = @ - 1]
            ELSE rt_schedule([k1 EXCEPT !.slice[t] = Slice,
                                        !.yld = @ \cup {t}])
  IN  rt_timer_check(k2)

(* _thread_exit and rt_thread_delete put the thread into the defunct list; *)
(* the idle thread frees it from there (idle.c).                           *)
defunct(k, t) == [rt_timer_stop(k, t) EXCEPT !.stat[t] = "close",
                                             !.yld = @ \ {t},
                                             !.wait["defunct"] = Cons(t, @)]

_thread_exit(k, t) == defunct(rt_schedule_remove_thread(k, t), t)
=============================================================================
