------------------------------ MODULE RtKernel -----------------------------
(***************************************************************************)
(* Threads of RT-Thread calling the kernel.  A call is one or more         *)
(* sections with interrupts disabled (RtSched, RtIpc, RtMutex); between    *)
(* them, and before the rt_schedule that ends a call, the tick and other   *)
(* interrupts may come and another thread may run.  Only the current       *)
(* thread takes steps.                                                     *)
(*                                                                         *)
(* A load says which threads there are, with which priorities, and which   *)
(* calls they make; it is chosen once.  The loads without interrupts are   *)
(* those of the abstract-machine port, which never calls rt_tick_increase  *)
(* and stops in rt_hw_context_switch_interrupt; the others are the kernel  *)
(* on a machine whose interrupts work.  Fields of a load:                  *)
(*   order  the threads in the order they are started, prio  their         *)
(*   priorities, ops  the calls each makes, to  their timeouts, isr  the   *)
(*   interrupts, flag  the order of the wait lists, ceils  the ceilings    *)
(*   mutexes are given, any  whether any suspended thread may be resumed   *)
(***************************************************************************)
EXTENDS RtMutex

CONSTANTS Loads,       \* the loads the system is run with
          Vals,        \* mails and messages
          Alarms,      \* those that are sent as urgent ones
          LockMax      \* bound on the nesting of rt_enter_critical

(* Every thread has a priority, no thread is started twice, the idle       *)
(* thread is started and makes no calls.                                   *)
ASSUME LoadsAssumption ==
  \A l \in Loads : /\ l.prio \in [Threads -> Prios] /\ l.ops[Idle] = {}
                   /\ l.order \in Seq(Threads) /\ IsInjective(l.order)
                   /\ \E i \in DOMAIN l.order : l.order[i] = Idle
                   /\ l.to \subseteq Int

(* None is no mail and no message. *)
ASSUME ValsAssumption == None \notin Vals \cup Alarms /\ LockMax \in Nat

VARIABLES load,  \* the load that was chosen
          k,     \* the kernel state
          th,    \* thread -> where it is in which call
          got    \* what the calls have returned so far

vars == <<load, k, th, got>>

WaitLists == {"sem", "ev", "mb_send", "mb_recv", "mq_send", "mq_recv", "mp",
              "defunct"}

Top == [at |-> "top", op |-> None, to |-> 0, el |-> 0, arg |-> None,
        slot |-> Null]

-----------------------------------------------------------------------------
(* Boot: the threads of load.order are started before the scheduler is,    *)
(* when rt_current_thread is still NULL.                                   *)
Fresh(l) ==
  [cur |-> None, group |-> {}, yld |-> {}, lock |-> 0, fault |-> FALSE,
   stat |-> [t \in Threads |-> "init"], prio |-> l.prio, init |-> l.prio,
   ready |-> [p \in Prios |-> << >>],
   wait |-> [w \in WaitLists \cup Mutexes |-> << >>], timer |-> << >>,
   slice |-> [t \in Threads |-> Slice], err |-> [t \in Threads |-> "EOK"],
   flag |-> l.flag, sem |-> 0, ev |-> {}, evset |-> [t \in Threads |-> {}],
   evinfo |-> [t \in Threads |-> NoOption],
   mb |-> [pool |-> [i \in 0 .. MbSize - 1 |-> None],
           in |-> 0, out |-> 0, entry |-> 0],
   mq |-> [head |-> Null, tail |-> Null, free |-> MqSize, entry |-> 0,
           next |-> [s \in 1 .. MqSize |-> s - 1],
           val |-> [s \in 1 .. MqSize |-> None]],
   mp |-> [list |-> SetToSeq(Blocks), free |-> Cardinality(Blocks)],
   m |-> [x \in Mutexes |-> [owner |-> None, hold |-> 0, prio |-> NoPrio,
                             ceil |-> NoPrio]],
   taken |-> [t \in Threads |-> {}], pend |-> [t \in Threads |-> None]]

rt_thread_startup(c, t) == rt_thread_resume([c EXCEPT !.stat[t] = "suspend"], t)

rt_system_scheduler_start(c) ==
  LET t == Head(c.ready[Min(c.group)])
  IN  [rt_schedule_remove_thread([c EXCEPT !.cur = t], t)
         EXCEPT !.stat[t] = "running"]

Init ==
  /\ load \in Loads
  /\ k = rt_system_scheduler_start(
           FoldLeft(rt_thread_startup, Fresh(load), load.order))
  /\ th = [t \in Threads |-> Top]
  /\ got = [bal |-> 0, mtx |-> [t \in Threads |-> [x \in Mutexes |-> 0]],
            blk |-> [t \in Threads |-> {}], mail |-> None, msg |-> None]

-----------------------------------------------------------------------------
(* Thread t enters call o.  A call that may block needs an open scheduler: *)
(* RT_DEBUG_SCHEDULER_AVAILABLE stands at the start of some calls, in      *)
(* others it asks only for a timeout that is not 0, or only where the call *)
(* waits.  Where there is no such assertion the loads keep to the rule.    *)
Enter(t, o) == k.cur = t /\ th[t].at = "top" /\ o \in load.ops[t]
MayBlock == k.lock = 0
MayWait(n) == n # 0 => MayBlock

(* The call o of t goes on as section r says; a message queue call that    *)
(* copies remembers its slot.                                              *)
Go(t, r, o, n, arg) ==
  /\ k' = r.k
  /\ th' = [th EXCEPT ![t] = IF r.at = "top" THEN Top
              ELSE [at |-> r.at, op |-> o, to |-> n, el |-> 0, arg |-> arg,
                    slot |-> IF r.at = "copy" THEN r.val ELSE Null]]
  /\ UNCHANGED load

Same == UNCHANGED got

(* Every call ends, or waits, in rt_schedule.  rt_thread_sleep sets the    *)
(* error number in between, with interrupts enabled.                       *)
Sched(t) ==
  /\ k.cur = t /\ th[t].at \in {"block", "resched"}
  /\ k' = rt_schedule(IF th[t].op = "sleep"
                      THEN [k EXCEPT !.err[t] = "EINTR"] ELSE k)
  /\ th' = [th EXCEPT ![t] = IF @.at = "block" THEN [@ EXCEPT !.at = "woken"]
                                               ELSE Top]
  /\ UNCHANGED <<load, got>>

Woken(t, o) == k.cur = t /\ th[t].at = "woken" /\ th[t].op = o

(* The timeout left after a wake-up in the loops of mailbox, message queue *)
(* and memory pool; el is the time since the thread was suspended.         *)
TimeLeft(t) == IF th[t].to > 0 THEN Max({0, th[t].to - th[t].el})
                               ELSE th[t].to

-----------------------------------------------------------------------------
(* Threads *)
Yield(t) ==
  /\ Enter(t, "yield") /\ Same
  /\ Go(t, Resched([k EXCEPT !.slice[t] = Slice, !.yld = @ \cup {t}], "EOK"),
        "yield", 0, None)

Sleep(t) ==
  /\ Enter(t, "sleep") /\ MayBlock /\ Same
  /\ \E n \in load.to :
       /\ n > 0
       /\ LET k1 == rt_thread_suspend([k EXCEPT !.err[t] = "EOK"], t)
          IN  Go(t, Block(rt_timer_start(k1, t, n)), "sleep", n, None)

SleepWoken(t) ==
  /\ Woken(t, "sleep") /\ Same
  /\ Go(t, Ret([k EXCEPT !.err[t] = IF @ = "ETIMEOUT" THEN "EOK" ELSE @],
               "EOK"), None, 0, None)

SuspendSelf(t) ==
  /\ Enter(t, "suspend") /\ MayBlock /\ Same
  /\ Go(t, Resched(rt_thread_suspend(k, t), "EOK"), "suspend", 0, None)

(* rt_thread_resume checks the state of the thread with interrupts         *)
(* enabled, takes it off its list and off the timer list in one section    *)
(* and puts it into the ready list in another; the callers go on to        *)
(* rt_schedule.  rt_thread_startup writes the state that is checked; a     *)
(* thread in the INIT state has no YIELD flag that this could drop.  In    *)
(* some loads only threads that suspended themselves are resumed.          *)
Between(c, at) == [k |-> c, at |-> at, ret |-> None, val |-> None]
check_suspended(c, u) == IF c.stat[u] = "suspend" THEN Between(c, "unlink")
                                                  ELSE Resched(c, "ERROR")
detach(c, u) == Between(rt_timer_stop(rt_list_remove(c, u), u), "insert")

Resume(t) ==
  /\ Enter(t, "resume") /\ Same
  /\ \E u \in Threads : /\ k.stat[u] = "suspend" /\ u # t
                        /\ th[u].at = "top" \/ load.any
                        /\ Go(t, check_suspended(k, u), "resume", 0, u)

Startup(t) ==
  /\ Enter(t, "startup") /\ Same
  /\ \E u \in Threads : /\ k.stat[u] = "init"
                        /\ Go(t, Between([k EXCEPT !.stat[u] = "suspend"],
                                         "check"), "startup", 0, u)

StartupCheck(t) ==
  /\ k.cur = t /\ th[t].at = "check" /\ Same
  /\ Go(t, check_suspended(k, th[t].arg), th[t].op, 0, th[t].arg)

Unlink(t) ==
  /\ k.cur = t /\ th[t].at = "unlink" /\ Same
  /\ Go(t, detach(k, th[t].arg), th[t].op, 0, th[t].arg)

Insert(t) ==
  /\ k.cur = t /\ th[t].at = "insert" /\ Same
  /\ Go(t, Resched(rt_schedule_insert_thread(k, th[t].arg), "EOK"),
        th[t].op, 0, None)

(* The thread function returns into _thread_exit *)
Exit(t) ==
  /\ Enter(t, "exit") /\ MayBlock /\ Same
  /\ Go(t, Resched(_thread_exit(k, t), "EOK"), "exit", 0, None)

(* rt_thread_control(u, RT_THREAD_CTRL_CLOSE): rt_thread_delete, which     *)
(* checks the state and leaves the scheduler in a section of its own, and  *)
(* rt_schedule                                                             *)
Close(t) ==
  /\ Enter(t, "close") /\ MayBlock /\ Same
  /\ \E u \in Threads \ {Idle} :
       /\ k.stat[u] # "init"
       /\ Go(t, IF k.stat[u] = "close" THEN Resched(k, "EOK")
                ELSE Between(k, "remove"), "close", 0, u)

CloseRemove(t) ==
  /\ k.cur = t /\ th[t].at = "remove" /\ Same
  /\ Go(t, Between(rt_schedule_remove_thread(k, th[t].arg), "closing"),
        "close", 0, th[t].arg)

Closed(t) ==
  /\ k.cur = t /\ th[t].at = "closing" /\ Same
  /\ Go(t, Resched(rt_thread_delete(k, th[t].arg), "EOK"), "close", 0, None)

EnterCritical(t) ==
  /\ Enter(t, "critical") /\ k.lock < LockMax /\ Same
  /\ Go(t, Ret(rt_enter_critical(k), "EOK"), None, 0, None)

rt_exit_critical(t) ==
  /\ Enter(t, "critical") /\ k.lock > 0 /\ Same
  /\ LET c == [k EXCEPT !.lock = @ - 1]
     IN  Go(t, IF c.lock = 0 THEN Resched(c, "EOK") ELSE Ret(c, "EOK"),
            "critical", 0, None)

(* The idle thread takes the defunct threads one by one and frees them; a  *)
(* freed thread can be created again.                                      *)
Reap ==
  /\ k.cur = Idle /\ k.wait["defunct"] # << >>
  /\ LET t == Head(k.wait["defunct"])
     IN  /\ k' = [rt_list_remove(k, t) EXCEPT
                    !.stat[t] = "init", !.yld = @ \ {t},
                    !.prio[t] = k.init[t],
                    !.slice[t] = Slice, !.err[t] = "EOK",
                    !.pend[t] = None, !.taken[t] = {}]
         /\ th' = [th EXCEPT ![t] = Top]
  /\ UNCHANGED <<load, got>>

IdleLoop == k.cur = Idle /\ k.wait["defunct"] = << >> /\ UNCHANGED vars

-----------------------------------------------------------------------------
(* Semaphore.  got.bal counts the releases minus the takes that succeeded. *)
SemTake(t) ==
  /\ Enter(t, "sem_take")
  /\ \E n \in load.to :
       LET r == _rt_sem_take(k, t, n)
       IN  /\ r.at = "block" => MayBlock
           /\ Go(t, r, "sem_take", n, None)
           /\ got' = [got EXCEPT !.bal = IF r.ret = "EOK" THEN @ - 1 ELSE @]

SemWoken(t) ==
  /\ Woken(t, "sem_take")
  /\ Go(t, Ret(k, k.err[t]), None, 0, None)
  /\ got' = [got EXCEPT !.bal = IF k.err[t] = "EOK" THEN @ - 1 ELSE @]

SemRelease(t) ==
  /\ Enter(t, "sem_release")
  /\ LET r == rt_sem_release(k)
     IN  /\ Go(t, r, "sem_release", 0, None)
         /\ got' = [got EXCEPT !.bal = IF r.ret = "EOK" THEN @ + 1 ELSE @]

(* A waiter that rt_sem_release has resumed owns its unit already *)
Granted == {t \in Threads : /\ th[t].op = "sem_take"
                            /\ th[t].at \in {"block", "woken"}
                            /\ k.err[t] = "EOK"}

SemControl(t) ==
  /\ Enter(t, "sem_control")
  /\ Go(t, rt_sem_control(k, 0), "sem_control", 0, None)
  /\ got' = [got EXCEPT !.bal = Cardinality(Granted)]

-----------------------------------------------------------------------------
(* Event *)
Options == [all : BOOLEAN, clear : BOOLEAN]

EventSend(t) ==
  /\ Enter(t, "event_send") /\ Same
  /\ \E set \in SUBSET Bits \ {{}} :
       Go(t, rt_event_send(k, set), "event_send", 0, None)

EventRecv(t) ==
  /\ Enter(t, "event_recv") /\ MayBlock /\ Same
  /\ \E set \in SUBSET Bits \ {{}}, opt \in Options, n \in load.to :
       Go(t, _rt_event_recv([k EXCEPT !.err[t] = "EINTR"], t, set, opt, n),
          "event_recv", n, None)

(* event_set and event_info are not read once the call has returned *)
EventWoken(t) ==
  /\ Woken(t, "event_recv") /\ Same
  /\ Go(t, [Ret([k EXCEPT !.evset[t] = {}, !.evinfo[t] = NoOption], k.err[t])
              EXCEPT !.val = k.evset[t]], None, 0, None)

EventControl(t) ==
  /\ Enter(t, "event_control") /\ Same
  /\ Go(t, rt_event_control(k), "event_control", 0, None)

-----------------------------------------------------------------------------
(* Mailbox: a woken thread goes round the loop again unless it was woken   *)
(* with an error.  got.mail is the last mail received.                     *)
Mail(r) == got' = IF r.val = None THEN got ELSE [got EXCEPT !.mail = r.val]

MbSend(t) ==
  /\ Enter(t, "mb_send") /\ Same
  /\ \E v \in Vals, n \in load.to :
       MayWait(n) /\ Go(t, _rt_mb_send_wait(k, t, v, n), "mb_send", n, v)

MbSendWoken(t) ==
  /\ Woken(t, "mb_send") /\ Same
  /\ LET n == TimeLeft(t)
     IN  Go(t, IF k.err[t] # "EOK" THEN Ret(k, k.err[t])
               ELSE _rt_mb_send_wait(k, t, th[t].arg, n),
            "mb_send", n, th[t].arg)

MbUrgent(t) ==
  /\ Enter(t, "mb_urgent") /\ Same
  /\ \E v \in Alarms : Go(t, rt_mb_urgent(k, v), "mb_urgent", 0, None)

MbRecv(t) ==
  /\ Enter(t, "mb_recv")
  /\ \E n \in load.to : LET r == _rt_mb_recv(k, t, n)
                         IN  MayWait(n) /\ Go(t, r, "mb_recv", n, None) /\ Mail(r)

MbRecvWoken(t) ==
  /\ Woken(t, "mb_recv")
  /\ LET n == TimeLeft(t)
         r == IF k.err[t] # "EOK" THEN Ret(k, k.err[t])
              ELSE _rt_mb_recv(k, t, n)
     IN  Go(t, r, "mb_recv", n, None) /\ Mail(r)

MbControl(t) ==
  /\ Enter(t, "mb_control") /\ Same
  /\ Go(t, rt_mb_control(k), "mb_control", 0, None)

-----------------------------------------------------------------------------
(* Message queue.  got.msg is the last message taken out.                  *)
Msg(r) == got' = IF r.at # "copy" THEN got
                 ELSE [got EXCEPT !.msg = k.mq.val[r.val]]

MqSend(t) ==
  /\ Enter(t, "mq_send") /\ Same
  /\ \E v \in Vals, n \in load.to :
       MayWait(n) /\ Go(t, mq_reserve(k, t, n), "mq_send", n, v)

MqSendWoken(t) ==
  /\ Woken(t, "mq_send") /\ Same
  /\ LET n == TimeLeft(t)
         r == IF k.err[t] # "EOK" THEN Ret(k, k.err[t]) ELSE mq_reserve(k, t, n)
     IN  Go(t, r, "mq_send", n, th[t].arg)

MqUrgent(t) ==
  /\ Enter(t, "mq_urgent") /\ Same
  /\ \E v \in Alarms : Go(t, mq_reserve(k, t, 0), "mq_urgent", 0, v)

MqRecv(t) ==
  /\ Enter(t, "mq_recv")
  /\ \E n \in load.to : LET r == mq_unlink(k, t, n)
                         IN  MayWait(n) /\ Go(t, r, "mq_recv", n, None) /\ Msg(r)

MqRecvWoken(t) ==
  /\ Woken(t, "mq_recv")
  /\ LET n == TimeLeft(t)
         r == IF k.err[t] # "EOK" THEN Ret(k, k.err[t]) ELSE mq_unlink(k, t, n)
     IN  Go(t, r, "mq_recv", n, None) /\ Msg(r)

(* The message has been copied: the second section of the call *)
MqCopied(t) ==
  /\ k.cur = t /\ th[t].at = "copy" /\ Same
  /\ LET o == th[t].op
         s == th[t].slot
     IN  Go(t, CASE o = "mq_send"   -> mq_link(k, s, th[t].arg)
                 [] o = "mq_urgent" -> mq_link_urgent(k, s, th[t].arg)
                 [] o = "mq_recv"   -> mq_free(k, s), o, 0, None)

MqControl(t) ==
  /\ Enter(t, "mq_control") /\ Same
  /\ Go(t, rt_mq_control(k), "mq_control", 0, None)

-----------------------------------------------------------------------------
(* Memory pool.  got.blk holds the blocks each thread has.                 *)
Blk(t, r) == got' = IF r.val = None THEN got
                    ELSE [got EXCEPT !.blk[t] = @ \cup {r.val}]

MpAlloc(t) ==
  /\ Enter(t, "mp_alloc")
  /\ \E n \in load.to : LET r == rt_mp_alloc(k, t, n)
                         IN  MayWait(n) /\ Go(t, r, "mp_alloc", n, None) /\ Blk(t, r)

MpWoken(t) ==
  /\ Woken(t, "mp_alloc")
  /\ LET n == TimeLeft(t)
         r == IF k.err[t] # "EOK" THEN Ret(k, k.err[t]) ELSE rt_mp_alloc(k, t, n)
     IN  Go(t, r, "mp_alloc", n, None) /\ Blk(t, r)

MpFree(t) ==
  /\ Enter(t, "mp_free")
  /\ \E b \in got.blk[t] : /\ Go(t, rt_mp_free(k, b), "mp_free", 0, None)
                           /\ got' = [got EXCEPT !.blk[t] = @ \ {b}]

-----------------------------------------------------------------------------
(* Mutex.  got.mtx counts the successful takes not yet released.           *)
MutexTake(t) ==
  /\ Enter(t, "mutex_take") /\ MayBlock
  /\ \E x \in Mutexes, n \in load.to :
       LET r == _rt_mutex_take(k, t, x, n)
       IN  /\ Go(t, r, "mutex_take", n, x)
           /\ got' = [got EXCEPT !.mtx[t][x] = IF r.ret = "EOK" THEN @ + 1 ELSE @]

MutexWoken(t) ==
  /\ Woken(t, "mutex_take")
  /\ LET x == th[t].arg
         r == take_woken(k, t, x)
     IN  /\ Go(t, r, None, 0, None)
         /\ got' = [got EXCEPT !.mtx[t][x] = IF r.ret = "EOK" THEN @ + 1 ELSE @]

MutexRelease(t) ==
  /\ Enter(t, "mutex_release")
  /\ \E x \in Mutexes :
       LET r == rt_mutex_release(k, t, x)
       IN  /\ Go(t, r, "mutex_release", 0, None)
           /\ got' = [got EXCEPT !.mtx[t][x] = IF r.ret = "EOK" THEN @ - 1 ELSE @]

SetCeiling(t) ==
  /\ Enter(t, "set_ceiling") /\ Same
  /\ \E x \in Mutexes, p \in load.ceils :
       Go(t, rt_mutex_setprioceiling(k, x, p), "set_ceiling", 0, None)

-----------------------------------------------------------------------------
(* Interrupts: the tick, and drivers that release a semaphore, send an     *)
(* event or post a mail from an interrupt handler.  rt_schedule is part of *)
(* the handler.                                                            *)
Tick ==
  /\ "tick" \in load.isr
  /\ k' = rt_tick_increase(k)
  /\ th' = [t \in Threads |->
              IF th[t].to > 0 /\ th[t].at \in {"block", "woken"}
              THEN [th[t] EXCEPT !.el = Min({@ + 1, th[t].to})] ELSE th[t]]
  /\ UNCHANGED <<load, got>>

Handler(o, r) ==
  /\ o \in load.isr
  /\ k' = IF r.at = "resched" THEN rt_schedule(r.k) ELSE r.k
  /\ UNCHANGED <<load, th>>

Isr ==
  \/ LET r == rt_sem_release(k)
     IN  /\ Handler("sem_release", r)
         /\ got' = [got EXCEPT !.bal = IF r.ret = "EOK" THEN @ + 1 ELSE @]
  \/ \E set \in SUBSET Bits \ {{}} : Handler("event_send", rt_event_send(k, set)) /\ Same
  \/ \E v \in Vals : Handler("mb_send", _rt_mb_send_wait(k, k.cur, v, 0)) /\ Same

-----------------------------------------------------------------------------
ThreadStep(t) ==
  \/ Sched(t)
  \/ Yield(t) \/ Sleep(t) \/ SleepWoken(t) \/ SuspendSelf(t) \/ Resume(t)
  \/ Startup(t) \/ StartupCheck(t) \/ Unlink(t) \/ Insert(t)
  \/ Exit(t) \/ Close(t) \/ CloseRemove(t) \/ Closed(t)
  \/ EnterCritical(t) \/ rt_exit_critical(t)
  \/ SemTake(t) \/ SemWoken(t) \/ SemRelease(t) \/ SemControl(t)
  \/ EventSend(t) \/ EventRecv(t) \/ EventWoken(t) \/ EventControl(t)
  \/ MbSend(t) \/ MbSendWoken(t) \/ MbUrgent(t) \/ MbRecv(t) \/ MbRecvWoken(t)
  \/ MbControl(t)
  \/ MqSend(t) \/ MqSendWoken(t) \/ MqUrgent(t) \/ MqRecv(t) \/ MqRecvWoken(t)
  \/ MqCopied(t) \/ MqControl(t)
  \/ MpAlloc(t) \/ MpWoken(t) \/ MpFree(t)
  \/ MutexTake(t) \/ MutexWoken(t) \/ MutexRelease(t) \/ SetCeiling(t)

Next == /\ ~k.fault
        /\ \/ \E t \in Threads : ThreadStep(t)
           \/ Reap \/ IdleLoop \/ Tick \/ Isr

Spec == Init /\ [][Next]_vars

(* The processor keeps executing the current thread, and the tick keeps    *)
(* coming where there is one.                                              *)
FairSpec == /\ Spec
            /\ WF_vars(\E t \in Threads : ThreadStep(t) \/ Reap)
            /\ WF_vars(Tick)
=============================================================================
