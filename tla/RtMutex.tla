------------------------------ MODULE RtMutex ------------------------------
(***************************************************************************)
(* Mutexes with priority inheritance and priority ceilings                 *)
(* (rt-thread-am/src/ipc.c), on the kernel state of RtSched extended by    *)
(*   m      mutex -> owner, hold, prio (mutex->priority) and ceil          *)
(*   taken  thread -> the mutexes of taken_object_list                     *)
(*   pend   thread -> pending_object                                       *)
(* The suspend list of mutex x is k.wait[x].                               *)
(***************************************************************************)
EXTENDS RtIpc

CONSTANTS Mutexes, HoldMax             \* HoldMax: RT_MUTEX_HOLD_MAX

ASSUME HoldAssumption == HoldMax \in Nat

NoPrio == MaxPrio + 1                  \* 0xff

_mutex_update_priority(k, x) ==
  [k EXCEPT !.m[x].prio = IF k.wait[x] = << >> THEN NoPrio
                          ELSE k.prio[Head(k.wait[x])]]

_thread_get_mutex_priority(k, t) ==
  Min({k.init[t]} \cup {k.m[x].prio : x \in k.taken[t]}
                  \cup {k.m[x].ceil : x \in k.taken[t]})

(* _thread_update_priority is tail recursive along the chain of owners: a  *)
(* link of it changes the priority of one thread, moves that thread in the *)
(* list of the mutex it waits for, and says which owner comes next.        *)
\* Mutant: the owner of what the boosted thread waits for is not boosted.
update_link_once(c) ==
  IF c.go THEN [c EXCEPT !.k = change_priority(c.k, c.t, c.p), !.go = FALSE]
          ELSE c
update_link(c) ==
  LET k1 == change_priority(c.k, c.t, c.p)
      x  == k1.pend[c.t]
      k2 == _mutex_update_priority(
              _ipc_list_suspend(rt_list_remove(k1, c.t), c.t, x, "PRIO"), x)
      o  == k2.m[x].owner
      p  == _thread_get_mutex_priority(k2, o)
  IN  CASE ~c.go -> c
        [] c.go /\ (k1.stat[c.t] # "suspend" \/ x = None) ->
             [c EXCEPT !.k = k1, !.go = FALSE]
        [] c.go /\ k1.stat[c.t] = "suspend" /\ x # None /\ o = None ->
             [c EXCEPT !.k = [k2 EXCEPT !.fault = TRUE], !.go = FALSE]
        [] c.go /\ k1.stat[c.t] = "suspend" /\ x # None /\ o # None ->
             [k |-> k2, t |-> o, p |-> p, go |-> p # k2.prio[o]]

_thread_update_priority(k, t, p) ==
  FoldLeft(LAMBDA c, i : update_link(c),
           [k |-> k, t |-> t, p |-> p, go |-> TRUE],
           [i \in 1 .. 2 * Cardinality(Threads) |-> i]).k

(* The priority of x's owner follows x's waiters and ceiling *)
update_owner(k, x) ==
  LET o == k.m[x].owner
      p == _thread_get_mutex_priority(k, o)
  IN  IF p # k.prio[o] THEN _thread_update_priority(k, o, p) ELSE k

(* Thread t has left the list of x without the mutex: the end of a take    *)
(* that failed, and rt_mutex_drop_thread.  The code reads mutex->owner     *)
(* whether there is one or not.                                            *)
leave_mutex(k, t, x) ==
  LET k1 == _mutex_update_priority(k, x)
  IN  CASE k.m[x].owner = None -> [k EXCEPT !.fault = TRUE]
        [] k.m[x].owner # None /\ k.prio[k.m[x].owner] = k.prio[t] ->
             update_owner(k1, x)
        [] k.m[x].owner # None /\ k.prio[k.m[x].owner] # k.prio[t] -> k1

rt_mutex_drop_thread(k, t, x) == leave_mutex(rt_list_remove(k, t), t, x)

rt_mutex_setprioceiling(k, x, p) ==
  LET k1 == [k EXCEPT !.m[x].ceil = p]
  IN  Ret(IF k.m[x].owner = None THEN k1 ELSE update_owner(k1, x), "EOK")

take_free(k, t, x) ==
  LET k1 == [k EXCEPT !.m[x].owner = t, !.m[x].prio = NoPrio, !.m[x].hold = 1]
      k2 == IF k.m[x].ceil < k.prio[t]
            THEN _thread_update_priority(k1, t, k.m[x].ceil) ELSE k1
  IN  Ret([k2 EXCEPT !.taken[t] = @ \cup {x}], "EOK")

(* A waiter of priority p raises the mutex and its owner *)
raise_owner(k, x, p) ==
  LET k1 == [k EXCEPT !.m[x].prio = p]
      o  == k.m[x].owner
  IN  IF p < k.m[x].prio
      THEN IF p < k.prio[o] THEN _thread_update_priority(k1, o, p) ELSE k1
      ELSE k

take_wait(k, t, x, n) ==
  LET k1 == [_ipc_list_suspend(k, t, x, "PRIO") EXCEPT !.pend[t] = x]
  IN  Block(start_timeout(raise_owner(k1, x, k.prio[t]), t, n))

_rt_mutex_take(k, t, x, n) ==
  LET k1 == [k EXCEPT !.err[t] = "EOK"]
      o  == k.m[x].owner
  IN  CASE o = t /\ k.m[x].hold < HoldMax ->
             Ret([k1 EXCEPT !.m[x].hold = @ + 1], "EOK")
        [] o = t /\ k.m[x].hold >= HoldMax -> Ret(k1, "EFULL")
        [] o = None -> take_free(k1, t, x)
        [] o \notin {t, None} /\ n = 0 ->
             Ret([k EXCEPT !.err[t] = "ETIMEOUT"], "ETIMEOUT")
        [] o \notin {t, None} /\ n # 0 -> take_wait(k1, t, x, n)

(* The end of _rt_mutex_take once the thread runs again *)
take_woken(k, t, x) ==
  IF k.err[t] = "EOK" THEN Ret(k, "EOK")
  ELSE Ret(leave_mutex(k, t, x), k.err[t])

\* Mutant: the new owner is not entered into the mutex.
hand_over_ownerless(k, x) ==
  LET t == Head(k.wait[x])
      k1 == [rt_list_remove(k, t) EXCEPT
               !.m[x].owner = None, !.m[x].hold = 1,
               !.taken[t] = @ \cup {x}, !.pend[t] = None]
  IN  _mutex_update_priority(rt_thread_resume(k1, t), x)
hand_over(k, x) ==
  LET t == Head(k.wait[x])
      k1 == [rt_list_remove(k, t) EXCEPT
               !.m[x].owner = t, !.m[x].hold = 1,
               !.taken[t] = @ \cup {x}, !.pend[t] = None]
  IN  _mutex_update_priority(rt_thread_resume(k1, t), x)

rt_mutex_release(k, t, x) ==
  LET lower == k.m[x].ceil # NoPrio \/ k.prio[t] = k.m[x].prio
      k1 == [k EXCEPT !.m[x].hold = 0, !.taken[t] = @ \ {x}]
      k2 == IF lower
            THEN change_priority(k1, t, _thread_get_mutex_priority(k1, t))
            ELSE k1
      k3 == IF k.wait[x] # << >> THEN hand_over(k2, x)
            ELSE [k2 EXCEPT !.m[x].owner = None, !.m[x].prio = NoPrio]
  IN  CASE k.m[x].owner # t -> Ret([k EXCEPT !.err[t] = "ERROR"], "ERROR")
        [] k.m[x].owner = t /\ k.m[x].hold > 1 ->
             Ret([k EXCEPT !.m[x].hold = @ - 1], "EOK")
        [] k.m[x].owner = t /\ k.m[x].hold = 1 ->
             IF lower \/ k.wait[x] # << >> THEN Resched(k3, "EOK")
                                           ELSE Ret(k3, "EOK")

(* rt_thread_delete of t, once t has been taken off its list *)
rt_thread_delete(k, t) ==
  LET k1 == [rt_timer_stop(k, t) EXCEPT !.stat[t] = "close"]
      k2 == IF k.pend[t] = None THEN k1
            ELSE [rt_mutex_drop_thread(k1, t, k.pend[t])
                    EXCEPT !.pend[t] = None]
  IN  defunct(k2, t)
=============================================================================
