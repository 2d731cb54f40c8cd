------------------------------- MODULE RtIpc -------------------------------
(***************************************************************************)
(* Semaphores, events, mailboxes, message queues (rt-thread-am/src/ipc.c)  *)
(* and memory pools (mempool.c): one object of each kind.  The sections    *)
(* between rt_hw_interrupt_disable and rt_hw_interrupt_enable are          *)
(* operators on the kernel state of RtSched, extended by the fields        *)
(*   flag         queueing order of the objects: "FIFO" or "PRIO"          *)
(*   sem          sem->value                                               *)
(*   ev           event->set; evset, evinfo: the same-named thread fields  *)
(*   mb           mailbox: pool, in, out (offsets) and entry               *)
(*   mq           message queue: head, tail, free, next, val and entry     *)
(*   mp           memory pool: block list and block_free_count             *)
(* A section gives the next kernel state, what the caller does next (at),  *)
(* its return code and the value it hands out.                             *)
(***************************************************************************)
EXTENDS RtSched

CONSTANTS SemMax,      \* RT_SEM_VALUE_MAX
          MbSize,      \* mb->size
          MqSize,      \* mq->max_msgs
          Blocks,      \* the blocks of the memory pool
          Bits         \* the bits of the event set

None == "none"                         \* RT_NULL
Null == 0                              \* RT_NULL among message slots

ASSUME IpcAssumption == /\ SemMax \in Nat /\ MbSize \in Nat \ {0}
                        /\ MqSize \in Nat \ {0} /\ IsFiniteSet(Blocks)
                        /\ None \notin Threads /\ None \notin Blocks

(* How a section ends: return, rt_schedule and return, or rt_schedule and  *)
(* look at thread->error when the thread runs again.                       *)
Ret(k, e)     == [k |-> k, at |-> "top", ret |-> e, val |-> None]
Resched(k, e) == [k |-> k, at |-> "resched", ret |-> e, val |-> None]
Block(k)      == [k |-> k, at |-> "block", ret |-> None, val |-> None]

(* The list s with t before the first thread of lower priority (PRIO), or  *)
(* at the end                                                              *)
waiting(s, t, prio, flag) ==
  InsertAt(s, place(s, {i \in DOMAIN s : flag = "PRIO" /\ prio[t] < prio[s[i]]}), t)

enlist(k, t, w, flag) ==
  [k EXCEPT !.wait[w] = waiting(k.wait[w], t, k.prio, flag)]

_ipc_list_suspend(k, t, w, flag) == enlist(rt_thread_suspend(k, t), t, w, flag)

_ipc_list_resume(k, w) ==
  LET t == Head(k.wait[w])
  IN  rt_thread_resume([k EXCEPT !.err[t] = "EOK"], t)

resume_with_error(k, t) == rt_thread_resume([k EXCEPT !.err[t] = "ERROR"], t)

_ipc_list_resume_all(k, w) == FoldLeft(resume_with_error, k, k.wait[w])

(* What every blocking call does when it has to wait for n ticks *)
start_timeout(k, t, n) == IF n > 0 THEN rt_timer_start(k, t, n) ELSE k

suspend_on(k, t, w, n) ==
  LET k1 == _ipc_list_suspend([k EXCEPT !.err[t] = "EINTR"], t, w, k.flag)
  IN  Block(start_timeout(k1, t, n))

(* What it does at its end: resume one thread of the list w, if any *)
\* Mutant: the resumed thread does not get the processor.
finish_no_schedule(k, w, v) ==
  IF k.wait[w] = << >> THEN [Ret(k, "EOK") EXCEPT !.val = v]
  ELSE [Ret(_ipc_list_resume(k, w), "EOK") EXCEPT !.val = v]
finish(k, w, v) ==
  LET r == IF k.wait[w] = << >> THEN Ret(k, "EOK")
           ELSE Resched(_ipc_list_resume(k, w), "EOK")
  IN  [r EXCEPT !.val = v]

-----------------------------------------------------------------------------
_rt_sem_take(k, t, n) ==
  CASE k.sem > 0 -> Ret([k EXCEPT !.sem = @ - 1], "EOK")
    [] k.sem = 0 /\ n = 0 -> Ret(k, "ETIMEOUT")
    [] k.sem = 0 /\ n # 0 -> suspend_on(k, t, "sem", n)

\* Mutant: the count goes up although a waiter takes the unit.
rt_sem_release_both(k) ==
  IF k.wait["sem"] # << >>
  THEN finish([k EXCEPT !.sem = Min({@ + 1, SemMax})], "sem", None)
  ELSE IF k.sem < SemMax THEN Ret([k EXCEPT !.sem = @ + 1], "EOK")
  ELSE Ret(k, "EFULL")
rt_sem_release(k) ==
  CASE k.wait["sem"] # << >> -> finish(k, "sem", None)
    [] k.wait["sem"] = << >> /\ k.sem < SemMax ->
         Ret([k EXCEPT !.sem = @ + 1], "EOK")
    [] k.wait["sem"] = << >> /\ k.sem >= SemMax -> Ret(k, "EFULL")

rt_sem_control(k, v) ==
  Resched([_ipc_list_resume_all(k, "sem") EXCEPT !.sem = v], "EOK")

-----------------------------------------------------------------------------
(* An option is a record: all (EVENT_FLAG_AND or OR) and clear *)
NoOption == [all |-> FALSE, clear |-> FALSE]
Satisfied(ev, set, opt) == IF opt.all THEN set \subseteq ev
                                      ELSE set \cap ev # {}

(* A waiting thread is resumed if the set has what it waits for *)
event_wake(k, t) ==
  LET got == IF k.evinfo[t].all THEN k.evset[t] ELSE k.evset[t] \cap k.ev
  IN  IF ~Satisfied(k.ev, k.evset[t], k.evinfo[t]) THEN k
      ELSE rt_thread_resume(
             [k EXCEPT !.evset[t] = got, !.err[t] = "EOK",
                       !.ev = IF k.evinfo[t].clear THEN @ \ got ELSE @], t)

rt_event_send(k, set) ==
  LET k1 == FoldLeft(event_wake, [k EXCEPT !.ev = @ \cup set], k.wait["ev"])
  IN  IF k1.wait["ev"] = k.wait["ev"] THEN Ret(k1, "EOK")
                                      ELSE Resched(k1, "EOK")

_rt_event_recv(k, t, set, opt, n) ==
  CASE Satisfied(k.ev, set, opt) ->
         [Ret([k EXCEPT !.err[t] = "EOK",
                        !.ev = IF opt.clear THEN @ \ set ELSE @], "EOK")
            EXCEPT !.val = set \cap k.ev]
    [] ~Satisfied(k.ev, set, opt) /\ n = 0 ->
         Ret([k EXCEPT !.err[t] = "ETIMEOUT"], "ETIMEOUT")
    [] ~Satisfied(k.ev, set, opt) /\ n # 0 ->
         suspend_on([k EXCEPT !.evset[t] = set, !.evinfo[t] = opt],
                    t, "ev", n)

rt_event_control(k) ==
  Resched([_ipc_list_resume_all(k, "ev") EXCEPT !.ev = {}], "EOK")

-----------------------------------------------------------------------------
(* Mailbox.  n is the timeout that is left: the section is entered again   *)
(* after a wake-up, as the while loop of the code is.                      *)
_rt_mb_send_wait(k, t, v, n) ==
  CASE k.mb.entry = MbSize /\ n = 0 -> Ret(k, "EFULL")
    [] k.mb.entry = MbSize /\ n # 0 -> suspend_on(k, t, "mb_send", n)
    [] k.mb.entry # MbSize ->
         finish([k EXCEPT !.mb.pool[k.mb.in] = v,
                          !.mb.in = IF @ + 1 >= MbSize THEN 0 ELSE @ + 1,
                          !.mb.entry = @ + 1], "mb_recv", None)

\* Mutant: an urgent mail is put at the end.
rt_mb_urgent_last(k, v) == _rt_mb_send_wait(k, None, v, 0)
rt_mb_urgent(k, v) ==
  IF k.mb.entry = MbSize THEN Ret(k, "EFULL")
  ELSE LET o == IF k.mb.out > 0 THEN k.mb.out - 1 ELSE MbSize - 1
       IN  finish([k EXCEPT !.mb.pool[o] = v, !.mb.out = o,
                            !.mb.entry = @ + 1], "mb_recv", None)

\* Mutant: out wraps one mail late.
_rt_mb_recv_late_wrap(k, t, n) ==
  CASE k.mb.entry = 0 /\ n = 0 -> Ret(k, "ETIMEOUT")
    [] k.mb.entry = 0 /\ n # 0 -> suspend_on(k, t, "mb_recv", n)
    [] k.mb.entry # 0 ->
         finish([k EXCEPT !.mb.out = IF @ + 1 > MbSize THEN 0 ELSE @ + 1,
                          !.mb.entry = @ - 1],
                "mb_send", k.mb.pool[k.mb.out])
\* Mutant: no sender is told of the room.
_rt_mb_recv_silent(k, t, n) ==
  CASE k.mb.entry = 0 /\ n = 0 -> Ret(k, "ETIMEOUT")
    [] k.mb.entry = 0 /\ n # 0 -> suspend_on(k, t, "mb_recv", n)
    [] k.mb.entry # 0 ->
         [Ret([k EXCEPT !.mb.out = IF @ + 1 >= MbSize THEN 0 ELSE @ + 1,
                        !.mb.entry = @ - 1], "EOK")
            EXCEPT !.val = k.mb.pool[k.mb.out]]
_rt_mb_recv(k, t, n) ==
  CASE k.mb.entry = 0 /\ n = 0 -> Ret(k, "ETIMEOUT")
    [] k.mb.entry = 0 /\ n # 0 -> suspend_on(k, t, "mb_recv", n)
    [] k.mb.entry # 0 ->
         finish([k EXCEPT !.mb.out = IF @ + 1 >= MbSize THEN 0 ELSE @ + 1,
                          !.mb.entry = @ - 1],
                "mb_send", k.mb.pool[k.mb.out])

rt_mb_control(k) ==
  LET k1 == _ipc_list_resume_all(_ipc_list_resume_all(k, "mb_recv"),
                                 "mb_send")
  IN  Resched([k1 EXCEPT !.mb.entry = 0, !.mb.in = 0, !.mb.out = 0], "EOK")

-----------------------------------------------------------------------------
(* Message queue.  Sending and receiving have two sections each; between   *)
(* them the message is copied with interrupts enabled and its slot is in   *)
(* no list.                                                                *)
Copy(k, slot) == [k |-> k, at |-> "copy", ret |-> None, val |-> slot]

mq_reserve(k, t, n) ==
  CASE k.mq.free = Null /\ n = 0 -> Ret(k, "EFULL")
    [] k.mq.free = Null /\ n # 0 -> suspend_on(k, t, "mq_send", n)
    [] k.mq.free # Null ->
         Copy([k EXCEPT !.mq.free = k.mq.next[@]], k.mq.free)

mq_link(k, slot, v) ==
  LET tail == k.mq.tail
      next == [k.mq.next EXCEPT ![slot] = Null]
  IN  finish([k EXCEPT
        !.mq.next = IF tail # Null THEN [next EXCEPT ![tail] = slot] ELSE next,
        !.mq.val[slot] = v, !.mq.tail = slot, !.mq.entry = @ + 1,
        !.mq.head = IF @ = Null THEN slot ELSE @], "mq_recv", None)

\* Mutant: the urgent message is put behind the first one.
mq_link_urgent_second(k, slot, v) ==
  LET h == k.mq.head
  IN  IF h = Null THEN mq_link(k, slot, v)
      ELSE finish([k EXCEPT !.mq.next = [k.mq.next EXCEPT ![slot] = k.mq.next[h],
                                                          ![h] = slot],
                            !.mq.val[slot] = v, !.mq.entry = @ + 1,
                            !.mq.tail = IF @ = h THEN slot ELSE @],
                  "mq_recv", None)
mq_link_urgent(k, slot, v) ==
  finish([k EXCEPT !.mq.next[slot] = k.mq.head, !.mq.val[slot] = v,
                   !.mq.head = slot, !.mq.entry = @ + 1,
                   !.mq.tail = IF @ = Null THEN slot ELSE @], "mq_recv", None)

\* Mutant: the tail goes on pointing to the last message taken out.
mq_unlink_keep_tail(k, t, n) ==
  LET h == k.mq.head
  IN  CASE k.mq.entry = 0 /\ n = 0 -> Ret(k, "ETIMEOUT")
        [] k.mq.entry = 0 /\ n # 0 -> suspend_on(k, t, "mq_recv", n)
        [] k.mq.entry # 0 ->
             Copy([k EXCEPT !.mq.head = k.mq.next[h], !.mq.entry = @ - 1], h)
mq_unlink(k, t, n) ==
  LET h == k.mq.head
  IN  CASE k.mq.entry = 0 /\ n = 0 -> Ret(k, "ETIMEOUT")
        [] k.mq.entry = 0 /\ n # 0 -> suspend_on(k, t, "mq_recv", n)
        [] k.mq.entry # 0 ->
             Copy([k EXCEPT !.mq.head = k.mq.next[h], !.mq.entry = @ - 1,
                            !.mq.tail = IF @ = h THEN Null ELSE @], h)

(* The content of a free slot is of no interest and is kept as None *)
mq_free(k, slot) ==
  finish([k EXCEPT !.mq.next[slot] = k.mq.free, !.mq.free = slot,
                   !.mq.val[slot] = None], "mq_send", k.mq.val[slot])

(* The slots from s on along next, at most MqSize of them *)
Chain(next, s) ==
  FoldLeft(LAMBDA c, i : LET e == IF c = << >> THEN s ELSE next[Last(c)]
                         IN  IF e = Null \/ Contains(c, e) THEN c
                             ELSE Append(c, e),
           << >>, [i \in 1 .. MqSize |-> i])

mq_release(k, s) == [k EXCEPT !.mq.next[s] = k.mq.free, !.mq.free = s,
                              !.mq.val[s] = None]

rt_mq_control(k) ==
  LET k1 == _ipc_list_resume_all(_ipc_list_resume_all(k, "mq_recv"),
                                 "mq_send")
  IN  Resched([FoldLeft(mq_release, k1, Chain(k.mq.next, k.mq.head))
                 EXCEPT !.mq.head = Null, !.mq.tail = Null, !.mq.entry = 0],
              "EOK")

-----------------------------------------------------------------------------
(* Memory pool: waiting threads are put at the front of the list *)
rt_mp_alloc(k, t, n) ==
  LET k1 == rt_thread_suspend([k EXCEPT !.err[t] = "EOK"], t)
      k2 == [k1 EXCEPT !.wait["mp"] = Cons(t, @)]
  IN  CASE k.mp.free = 0 /\ n = 0 -> Ret(k, "ETIMEOUT")
        [] k.mp.free = 0 /\ n # 0 ->
             Block(IF n > 0 THEN rt_timer_start(k2, t, n) ELSE k2)
        [] k.mp.free # 0 ->
             [Ret([k EXCEPT !.mp.free = @ - 1, !.mp.list = Tail(@)], "EOK")
                EXCEPT !.val = Head(k.mp.list)]

rt_mp_free(k, b) ==
  finish([k EXCEPT !.mp.free = @ + 1, !.mp.list = Cons(b, @)], "mp", None)
=============================================================================
