------------------------------ MODULE RtProps ------------------------------
(***************************************************************************)
(* Properties of the RT-Thread kernel of RtKernel.                         *)
(***************************************************************************)
EXTENDS RtKernel

Errors == {"EOK", "EINTR", "ETIMEOUT", "ERROR"}
InList(t, s) == \E i \in DOMAIN s : s[i] = t

\* Every field of the kernel state has its type, the offsets of the mailbox
\* and the slots of the message queue are in range (ipc.c), the nesting of
\* rt_enter_critical is counted exactly, and no thread is in a list twice.
RtTypeOK ==
  /\ k.cur \in Threads /\ k.group \subseteq Prios /\ k.yld \subseteq Threads
  /\ k.stat \in [Threads -> {"init", "ready", "running", "suspend", "close"}]
  /\ k.prio \in [Threads -> Prios] /\ k.err \in [Threads -> Errors]
  /\ \A p \in Prios : IsInjective(k.ready[p])
  /\ \A w \in DOMAIN k.wait : IsInjective(k.wait[w])
  /\ k.slice \in [Threads -> 1 .. Slice] /\ k.lock \in 0 .. LockMax
  /\ k.sem \in 0 .. SemMax /\ k.ev \subseteq Bits
  /\ k.mb.in \in 0 .. MbSize - 1 /\ k.mb.out \in 0 .. MbSize - 1
  /\ k.mb.entry \in 0 .. MbSize /\ k.mq.entry \in 0 .. MqSize
  /\ {k.mq.head, k.mq.tail, k.mq.free} \subseteq 0 .. MqSize
  /\ \A x \in Mutexes : /\ k.m[x].owner \in Threads \cup {None}
                        /\ k.m[x].hold \in 0 .. HoldMax

BeingDeleted(t) == \E u \in Threads : th[u].at = "closing" /\ th[u].arg = t
BeingResumed(t) == \E u \in Threads : th[u].at = "insert" /\ th[u].arg = t

\* A thread is in the list its state says and in no other: a ready one in the
\* list of its priority, unless it is just being deleted or a timeout made it
\* ready between the check of rt_thread_resume and its unlink section; a
\* closed one in the defunct list, a waiting one in the list of the object it
\* waits for, a sleeping one in none.  The bitmap is the set of the priorities
\* with a ready thread, up to such a thread on its way back into its list, and
\* a current thread that is not RUNNING is on its way into rt_schedule
\* (scheduler_up.c, thread.c).
ListsMatchStates ==
  /\ \A p \in Prios : k.ready[p] # << >> => p \in k.group
  /\ \A p \in k.group : \/ k.ready[p] # << >>
                        \/ \E t \in Threads : /\ BeingResumed(t) /\ k.prio[t] = p
                                               /\ k.stat[t] = "ready"
  /\ \A t \in Threads :
       LET lists == {w \in DOMAIN k.wait : InList(t, k.wait[w])}
       IN  /\ \A p \in Prios :
                InList(t, k.ready[p]) <=> /\ k.stat[t] = "ready" /\ p = k.prio[t]
                                          /\ ~BeingDeleted(t) /\ ~BeingResumed(t)
           /\ k.stat[t] = "close" <=> lists = {"defunct"}
           /\ lists # {} => \/ lists = {"defunct"}
                            \/ /\ Cardinality(lists) = 1
                               /\ k.stat[t] = "suspend"
                               /\ th[t].op \in {"sem_take", "event_recv",
                                     "mb_send", "mb_recv", "mq_send", "mq_recv",
                                     "mp_alloc", "mutex_take"}
           /\ k.stat[t] = "running" => t = k.cur
  /\ k.stat[k.cur] # "running" => th[k.cur].at \in {"block", "resched"}

\* Unless the scheduler is locked or the current thread is about to call
\* rt_schedule, no ready thread has a higher priority than the current one.
\* rt_mutex_setprioceiling changes priorities and does not call rt_schedule,
\* so the loads that use it are left out.
HighestRuns ==
  /\ k.lock = 0 /\ th[k.cur].at \notin {"block", "resched"}
  /\ ~\E u \in Threads : "set_ceiling" \in load.ops[u]
  => \A t \in Threads : k.stat[t] = "ready" => k.prio[k.cur] <= k.prio[t]

\* The assertions of the kernel hold and it never dereferences NULL or links
\* a node twice; an armed timer belongs to a suspended thread, so that
\* _thread_timeout finds the thread in the state it asserts (thread.c:136).
NoKernelFault ==
  /\ ~k.fault
  /\ \A i \in DOMAIN k.timer : /\ k.stat[k.timer[i][1]] = "suspend"
                               /\ k.timer[i][2] > 0

\* The units of a semaphore are conserved: those released and not yet taken
\* are in the count or on their way to a waiter that was resumed; a timeout
\* or an interrupt neither loses nor duplicates one (ipc.c).
SemUnitsConserved == got.bal = k.sem + Cardinality(Granted)

Resumed(o) == {t \in Threads : th[t].op = o /\ th[t].at \in {"block", "woken"}
                               /\ k.stat[t] # "suspend" /\ k.err[t] = "EOK"}
Chained(s) == Len(Chain(k.mq.next, s))

\* No thread sleeps on what it could have: nobody waits for a semaphore with
\* a positive count or for an event that is set; where a thread waits for a
\* mail, a message, room or a block, whatever of it there is has been
\* announced to a thread that was resumed and has not run yet.
NoLostWakeup ==
  /\ k.sem > 0 => k.wait["sem"] = << >>
  /\ \A i \in DOMAIN k.wait["ev"] :
       LET t == k.wait["ev"][i] IN ~Satisfied(k.ev, k.evset[t], k.evinfo[t])
  /\ \A w \in {<<"mb_recv", k.mb.entry>>, <<"mb_send", MbSize - k.mb.entry>>,
               <<"mq_recv", k.mq.entry>>, <<"mq_send", Chained(k.mq.free)>>} :
       k.wait[w[1]] # << >> => w[2] <= Cardinality(Resumed(w[1]))
  /\ k.wait["mp"] # << >> => k.mp.free <= Cardinality(Resumed("mp_alloc"))

\* A message slot is in the queue, in the free list or being copied by one
\* thread, never two of these and never none; likewise a block of the pool is
\* free or held by one thread.
SlotsApart ==
  LET queue == Chain(k.mq.next, k.mq.head)
      free  == Chain(k.mq.next, k.mq.free)
      busy  == {t \in Threads : th[t].at = "copy"}
  IN  /\ Len(queue) = k.mq.entry
      /\ Len(queue) + Len(free) + Cardinality(busy) = MqSize
      /\ ToSet(queue) \cup ToSet(free) \cup {th[t].slot : t \in busy}
           = 1 .. MqSize
      /\ k.mq.tail = IF queue = << >> THEN Null ELSE Last(queue)
      /\ Len(k.mp.list) = k.mp.free
      /\ \A b \in Blocks :
           Cardinality({t \in Threads : b \in got.blk[t]})
             = IF InList(b, k.mp.list) THEN 0 ELSE 1

MbContents == [i \in 1 .. k.mb.entry |-> k.mb.pool[(k.mb.out + i - 1) % MbSize]]
MqContents == LET c == Chain(k.mq.next, k.mq.head)
              IN  [i \in DOMAIN c |-> k.mq.val[c[i]]]

Mb == INSTANCE MsgQueue WITH q <- MbContents, out <- got.mail,
                             Items <- Vals, UrgentItems <- Alarms,
                             Size <- MbSize, Nothing <- None
Mq == INSTANCE MsgQueue WITH q <- MqContents, out <- got.msg,
                             Items <- Vals, UrgentItems <- Alarms,
                             Size <- MqSize, Nothing <- None

\* The ring buffer of a mailbox and the linked slots of a message queue
\* implement a bounded queue, with senders, receivers, urgent mails and resets
\* at any time (ipc.c).
MessagesInOrder == Mb!QSpec /\ Mq!QSpec

\* A thread whose rt_mutex_take returned RT_EOK is the owner until it has
\* released the mutex as often, and no other thread believes to hold it.
MutexExclusion ==
  \A t \in Threads, x \in Mutexes :
    got.mtx[t][x] > 0 => k.m[x].owner = t /\ k.m[x].hold = got.mtx[t][x]

\* Priority inheritance: mutex->priority is that of the first waiter, which
\* has the highest priority of them; a thread runs at least at its own
\* priority and those of the mutexes it holds, along any chain of owners, and
\* above that only where a ceiling of a mutex it holds allows it.
PriorityInherited ==
  /\ \A x \in Mutexes :
       /\ k.m[x].prio = Min({NoPrio} \cup {k.prio[t] : t \in ToSet(k.wait[x])})
       /\ k.wait[x] # << >> => k.m[x].prio = k.prio[Head(k.wait[x])]
  /\ \A t \in Threads :
       LET inherited == Min({k.init[t]} \cup {k.m[x].prio : x \in k.taken[t]})
       IN  /\ k.prio[t] <= inherited
           /\ k.prio[t] >= Min({inherited} \cup {k.m[x].ceil : x \in k.taken[t]})

\* Threads of one priority that give up the processor take turns: a thread
\* that has used its time slice or yields is put behind the others of its
\* priority (scheduler_up.c:374), so each of them runs again.
TakesTurns == \A t \in Threads \ {Idle} : (k.stat[t] = "ready") ~> (k.stat[t] = "running")
=============================================================================
