---------------------------- MODULE RtIpcProofs -----------------------------
(***************************************************************************)
(* Theorems about the IPC objects of RT-Thread, for any number of threads, *)
(* any priorities, calls, timeouts and interrupts, in the loads of IpcLoad *)
(* (RtProofs): the mailbox and the message queue hold what was sent in its *)
(* order, no slot or block is lost or used twice, and no wake-up is lost.  *)
(***************************************************************************)
EXTENDS RtProofs

-----------------------------------------------------------------------------
(***************************************************************************)
(* What a section leaves alone.  The scheduler, the timers and the lists   *)
(* of the threads never change the objects.                                *)
(***************************************************************************)
Outer == {"lock", "init", "flag", "sem", "ev", "evset", "evinfo", "mb", "mq", "mp", "m"}
Keeps(c, d, F) == DOMAIN c = Fields => DOMAIN d = Fields /\ \A f \in Outer \ F : d[f] = c[f]

\* One section after another.
LEMMA KeepsTrans ==
  ASSUME NEW a, NEW b, NEW c, NEW F, NEW G, Keeps(a, b, F), Keeps(b, c, G)
  PROVE  Keeps(a, c, F \cup G) /\ (G \subseteq F => Keeps(a, c, F)) /\ (F \subseteq G => Keeps(a, c, G))
BY DEF Keeps

\* A section that leaves more alone.
LEMMA KeepsMore ==
  ASSUME NEW a, NEW b, NEW F, NEW G, Keeps(a, b, F), F \subseteq G
  PROVE  Keeps(a, b, G)
BY DEF Keeps

\* scheduler_up.c, timer.c and thread.c.
LEMMA SchedFrames ==
  ASSUME NEW c, NEW t
  PROVE  /\ Keeps(c, c, {}) /\ Keeps(c, rt_list_remove(c, t), {}) /\ Keeps(c, rt_timer_stop(c, t), {})
         /\ Keeps(c, rt_schedule_insert_thread(c, t), {}) /\ Keeps(c, rt_schedule_remove_thread(c, t), {})
         /\ Keeps(c, rt_thread_suspend(c, t), {}) /\ Keeps(c, rt_thread_resume(c, t), {})
         /\ \A n : Keeps(c, rt_timer_start(c, t, n), {})
<1>0. ASSUME NEW d PROVE Keeps(d, d, {})
  BY DEF Keeps
<1>1. ASSUME NEW d PROVE Keeps(d, rt_list_remove(d, t), {})
  BY DEF Keeps, rt_list_remove, Fields, Outer
<1>2. ASSUME NEW d PROVE Keeps(d, rt_timer_stop(d, t), {})
  BY DEF Keeps, rt_timer_stop, Fields, Outer
<1>3. ASSUME NEW d PROVE Keeps(d, rt_schedule_insert_thread(d, t), {})
  BY DEF Keeps, rt_schedule_insert_thread, Fields, Outer
<1>4. ASSUME NEW d PROVE Keeps(d, rt_schedule_remove_thread(d, t), {})
  <2>1. PICK b : b = rt_list_remove(d, t)
    OBVIOUS
  <2>2. Keeps(b, clear_if_empty(b, d.prio[t]), {})
    BY DEF Keeps, clear_if_empty, Fields, Outer
  <2> QED BY <1>1, <2>1, <2>2, KeepsTrans DEF rt_schedule_remove_thread
<1>5. ASSUME NEW d, NEW x PROVE Keeps(d, [d EXCEPT !.stat[t] = x], {})
  BY DEF Keeps, Fields, Outer
<1>6. Keeps(c, rt_thread_suspend(c, t), {})
  <2>1. PICK a, b : a = rt_schedule_remove_thread(c, t) /\ b = [a EXCEPT !.stat[t] = "suspend"]
    OBVIOUS
  <2>2. Keeps(c, a, {}) /\ Keeps(a, b, {}) /\ Keeps(b, rt_timer_stop(b, t), {})
    BY <1>2, <1>4, <1>5, <2>1
  <2>3. Keeps(c, rt_timer_stop(b, t), {})
    BY <2>2, KeepsTrans
  <2> QED BY <1>0, <2>1, <2>3 DEF rt_thread_suspend
<1>7. Keeps(c, rt_thread_resume(c, t), {})
  <2>1. PICK a, b : a = rt_list_remove(c, t) /\ b = rt_timer_stop(a, t)
    OBVIOUS
  <2>2. Keeps(c, a, {}) /\ Keeps(a, b, {}) /\ Keeps(b, rt_schedule_insert_thread(b, t), {})
    BY <1>1, <1>2, <1>3, <2>1
  <2>3. Keeps(c, rt_schedule_insert_thread(b, t), {})
    BY <2>2, KeepsTrans
  <2> QED BY <1>0, <2>1, <2>3 DEF rt_thread_resume
<1>8. ASSUME NEW n PROVE Keeps(c, rt_timer_start(c, t, n), {})
  BY DEF Keeps, rt_timer_start, Fields, Outer
<1> QED BY <1>0, <1>1, <1>2, <1>3, <1>4, <1>6, <1>7, <1>8

\* An assignment to fields of the thread structure.
LEMMA AssignFrames ==
  ASSUME NEW c, NEW t, NEW x
  PROVE  /\ Keeps(c, [c EXCEPT !.err[t] = x], {}) /\ Keeps(c, [c EXCEPT !.stat[t] = x], {})
         /\ Keeps(c, [c EXCEPT !.timer = x], {})
         /\ \A y : Keeps(c, [c EXCEPT !.slice[t] = x, !.yld = y], {}) /\ Keeps(c, [c EXCEPT !.slice[t] = x], {})
BY DEF Keeps, Fields, Outer

\* rt_schedule.
LEMMA ScheduleFrame ==
  ASSUME NEW c
  PROVE  Keeps(c, rt_schedule(c), {})
<1> DEFINE from == c.cur
           highest == Min(c.group)
           running == c.stat[from] = "running"
           stays == running /\ \/ c.prio[from] < highest
                               \/ c.prio[from] = highest /\ from \notin c.yld
           to == IF stays THEN from ELSE Head(c.ready[highest])
           k1 == [c EXCEPT !.cur = to, !.yld = IF running THEN @ \ {from} ELSE @]
           k2 == IF running /\ ~stays THEN rt_schedule_insert_thread(k1, from) ELSE k1
           k3 == rt_schedule_remove_thread(k2, to)
           k4 == [k3 EXCEPT !.stat[to] = "running"]
<1>1. Keeps(c, k1, {})
  BY DEF Keeps, Fields, Outer
<1>2. Keeps(k1, k2, {})
  <2> HIDE DEF k1, stays, running
  <2> QED BY SchedFrames DEF k2
<1>3. Keeps(k2, k3, {})
  <2> HIDE DEF k2
  <2> QED BY SchedFrames
<1>4. Keeps(k3, k4, {})
  <2> HIDE DEF k3
  <2> QED BY AssignFrames
<1>5. rt_schedule(c) \in {c, [c EXCEPT !.fault = TRUE], k4}
  BY DEF rt_schedule
<1> HIDE DEF k1, k2, k3, k4
<1>6. Keeps(c, k4, {})
  BY <1>1, <1>2, <1>3, <1>4, KeepsTrans
<1>7. Keeps(c, [c EXCEPT !.fault = TRUE], {})
  BY DEF Keeps, Fields, Outer
<1> QED BY <1>5, <1>6, <1>7, SchedFrames

\* The threads that are woken change no object.
LEMMA WakesFrame ==
  ASSUME NEW c, NEW d, NEW G, NEW F, Wakes(c, d, G, F)
  PROVE  Keeps(c, d, F)
BY DEF Wakes, SameBut, WakeFields, Keeps, Outer, Fields

\* The sections every call of the IPC objects is made of.
LEMMA IpcFrames ==
  ASSUME NEW c, NEW t, NEW w, NEW n, NEW v
  PROVE  /\ Keeps(c, suspend_on(c, t, w, n).k, {}) /\ suspend_on(c, t, w, n).at = "block"
         /\ suspend_on(c, t, w, n).val = None
         /\ Keeps(c, finish(c, w, v).k, {}) /\ finish(c, w, v).at \in {"top", "resched"}
         /\ finish(c, w, v).val = v
         /\ Keeps(c, Ret(c, v).k, {}) /\ Ret(c, v).at = "top" /\ Ret(c, v).val = None
<1>1. ASSUME NEW x PROVE Keeps(c, [c EXCEPT !.err[x] = "EINTR"], {}) /\ Keeps(c, [c EXCEPT !.err[x] = "EOK"], {})
  BY AssignFrames
<1>2. /\ Keeps(c, suspend_on(c, t, w, n).k, {}) /\ suspend_on(c, t, w, n).at = "block"
      /\ suspend_on(c, t, w, n).val = None
  <2>1. PICK a, b, d, e : /\ a = [c EXCEPT !.err[t] = "EINTR"] /\ b = rt_thread_suspend(a, t)
                          /\ d = enlist(b, t, w, c.flag) /\ e = start_timeout(d, t, n)
    OBVIOUS
  <2>2. suspend_on(c, t, w, n) = Block(e)
    BY <2>1 DEF suspend_on, _ipc_list_suspend
  <2>3. Keeps(c, a, {}) /\ Keeps(a, b, {})
    BY <1>1, <2>1, SchedFrames
  <2>4. Keeps(b, d, {})
    BY <2>1 DEF Keeps, enlist, Fields, Outer
  <2>5. Keeps(d, e, {})
    BY <2>1, SchedFrames DEF start_timeout
  <2>6. Keeps(c, e, {})
    BY <2>3, <2>4, <2>5, KeepsTrans
  <2> QED BY <2>2, <2>6 DEF Block
<1>3. /\ Keeps(c, finish(c, w, v).k, {}) /\ finish(c, w, v).at \in {"top", "resched"}
      /\ finish(c, w, v).val = v
  <2>1. PICK x, a, b : x = Head(c.wait[w]) /\ a = [c EXCEPT !.err[x] = "EOK"] /\ b = rt_thread_resume(a, x)
    OBVIOUS
  <2>2. _ipc_list_resume(c, w) = b
    BY <2>1 DEF _ipc_list_resume
  <2>3. Keeps(c, a, {}) /\ Keeps(a, b, {}) /\ Keeps(c, c, {})
    BY <1>1, <2>1, SchedFrames
  <2>4. Keeps(c, b, {})
    BY <2>3, KeepsTrans
  <2> QED BY <2>2, <2>3, <2>4 DEF finish, Ret, Resched
<1>4. Keeps(c, Ret(c, v).k, {}) /\ Ret(c, v).at = "top" /\ Ret(c, v).val = None
  BY SchedFrames DEF Ret
<1> QED BY <1>2, <1>3, <1>4

\* A section of a call changes no more than its objects.
LEMMA SectionFrame ==
  ASSUME NEW c, NEW r, NEW o, NEW G, NEW F, F \subseteq Objects, Section(c, r, o, G, F)
  PROVE  Keeps(c, r.k, F)
<1>1. CASE r.at \in {"top", "copy", "resched"}
  BY <1>1, SectionEnds, WakesFrame
<1>2. CASE r.at = "block"
  <2>1. PICK w : SuspendsIn(c, r.k, w, F)
    BY <1>2, SectionEnds
  <2>2. PICK a : SameBut(c, a, F) /\ Suspends(a, r.k, c.cur, w)
    BY <2>1 DEF SuspendsIn
  <2>3. Keeps(c, a, F)
    BY <2>2 DEF SameBut, Keeps, Outer, Fields
  <2>4. Keeps(a, r.k, {})
    BY <2>2 DEF Suspends, SameBut, Keeps, Outer, Fields
  <2> QED BY <2>3, <2>4, KeepsTrans
<1> QED BY <1>1, <1>2, SectionEnds

\* thread->error is set first.
LEMMA PresetFrame ==
  ASSUME NEW c, NEW b, Preset(c, b)
  PROVE  Keeps(c, b, {})
BY DEF Preset, SameBut, Keeps, Outer, Fields

-----------------------------------------------------------------------------
(***************************************************************************)
(* Wake-ups.  A section of thread t leaves the threads that can run as     *)
(* they are, but t, and puts no thread into a list, but t into one of W.   *)
(***************************************************************************)
Active == {"ready", "running"}
Gentle(c, d, t, W) ==
  /\ \A u \in Threads : u # t /\ c.stat[u] \in Active => d.stat[u] \in Active /\ d.err[u] = c.err[u]
  /\ \A w \in IpcLists, u \in Threads :
       InList(u, d.wait[w]) => InList(u, c.wait[w]) \/ (u = t /\ w \in W)

\* One section after another.
LEMMA GentleTrans ==
  ASSUME NEW a, NEW b, NEW c, NEW t, NEW W, NEW V, Gentle(a, b, t, W), Gentle(b, c, t, V)
  PROVE  Gentle(a, c, t, W \cup V) /\ (W = {} => Gentle(a, c, t, V)) /\ (V = {} => Gentle(a, c, t, W))
BY DEF Gentle

\* Waking threads is gentle.
LEMMA WakesGentle ==
  ASSUME NEW c, NEW d, NEW G, NEW F, Wakes(c, d, G, F), NEW t, NEW W
  PROVE  Gentle(c, d, t, W)
BY DEF Wakes, Wake, Gentle, Active, IpcLists, Lists

\* So is a change of the objects.
LEMMA SameGentle ==
  ASSUME NEW c, NEW d, NEW F, SameBut(c, d, F), NEW t, NEW W,
         F \cap {"stat", "err", "wait"} = {} \/ (F \cap {"stat", "wait"} = {} /\ \A u \in Threads : u # t => d.err[u] = c.err[u])
  PROVE  Gentle(c, d, t, W)
BY DEF SameBut, Gentle, Fields

\* Thread t changes its state, the others do not.
LEMMA StatGentle ==
  ASSUME NEW c, NEW d, NEW t, NEW x, NEW W, KInv(c), d.err = c.err, d.stat = [c.stat EXCEPT ![t] = x],
         \A w \in IpcLists, u \in Threads : InList(u, d.wait[w]) => InList(u, c.wait[w]) \/ (u = t /\ w \in W)
  PROVE  Gentle(c, d, t, W)
<1>1. DOMAIN c.stat = Threads
  BY DEF KInv, Kernel, KType
<1> QED BY <1>1 DEF Gentle

\* The lists of call o.
ListsOf(o) == {w \in IpcLists : OpOf(w) = o}

\* A section of a call.
LEMMA SectionGentle ==
  ASSUME NEW c, KInv(c), NEW r, NEW o, NEW G, NEW F, F \subseteq Objects, Section(c, r, o, G, F)
  PROVE  Gentle(c, r.k, c.cur, IF r.at = "block" THEN ListsOf(o) ELSE {})
<1>1. CASE r.at \in {"top", "copy", "resched"}
  BY <1>1, SectionEnds, WakesGentle
<1>2. CASE r.at = "block"
  <2>1. PICK w \in IpcLists : OpOf(w) = o /\ SuspendsIn(c, r.k, w, F)
    BY <1>2, SectionEnds
  <2>2. PICK a : SameBut(c, a, F) /\ Suspends(a, r.k, c.cur, w)
    BY <2>1 DEF SuspendsIn
  <2>3. a.stat = c.stat /\ a.err = c.err /\ a.wait = c.wait /\ DOMAIN c.stat = Threads
    BY <2>2 DEF SameBut, Objects, Fields, KInv, Kernel, KType
  <2>4. /\ r.k.stat = [c.stat EXCEPT ![c.cur] = "suspend"] /\ WaitMore(a, r.k, c.cur, w)
        /\ \A u \in Threads : u # c.cur => r.k.err[u] = c.err[u]
    BY <2>2, <2>3 DEF Suspends
  <2>5. w \in ListsOf(o)
    BY <2>1 DEF ListsOf
  <2>6. ASSUME NEW v \in IpcLists, NEW u \in Threads, InList(u, r.k.wait[v])
        PROVE  InList(u, c.wait[v]) \/ (u = c.cur /\ v \in ListsOf(o))
    <3>1. v \in Lists
      BY DEF IpcLists, Lists
    <3> QED BY <2>3, <2>4, <2>5, <2>6, <3>1 DEF WaitMore
  <2>7. ASSUME NEW u \in Threads, u # c.cur, c.stat[u] \in Active
        PROVE  r.k.stat[u] \in Active /\ r.k.err[u] = c.err[u]
    BY <2>3, <2>4, <2>7
  <2> QED BY <1>2, <2>6, <2>7 DEF Gentle
<1> QED BY <1>1, <1>2, SectionEnds

\* thread->error is set first.
LEMMA PresetGentle ==
  ASSUME NEW c, KInv(c), NEW b, Preset(c, b)
  PROVE  Gentle(c, b, c.cur, {})
<1>1. DOMAIN c.err = Threads
  BY DEF KInv, Kernel, KType
<1>2. b.stat = c.stat /\ b.wait = c.wait /\ \E x : b.err = [c.err EXCEPT ![c.cur] = x]
  BY DEF Preset, SameBut, Fields
<1> QED BY <1>1, <1>2 DEF Gentle

-----------------------------------------------------------------------------
(* The threads that have been resumed and have not run yet, by their call *)
Res(c, h, o) == {t \in Threads : h[t].op = o /\ h[t].at \in {"block", "woken"}
                                 /\ c.stat[t] # "suspend" /\ c.err[t] = "EOK"}

\* The threads but t that wait, or have been resumed, go on with their calls.
Waiting == {"block", "woken"}
CallsStay(h, g, t) ==
  \A u \in Threads : u # t /\ h[u].at \in Waiting => g[u].op = h[u].op /\ g[u].at \in Waiting

\* Whoever has been resumed can run.
LEMMA ResActive ==
  ASSUME NEW l, NEW c, NEW h, Base(l, c, h), NEW o, NEW t \in Res(c, h, o)
  PROVE  t \in Threads /\ c.stat[t] \in Active
<1>1. t \in Threads /\ c.stat[t] \in Stats /\ c.stat[t] # "suspend" /\ h[t].at \in {"block", "woken"}
  BY DEF Res, Base, KInv, Kernel, KType
<1>2. c.stat[t] # "close" /\ c.stat[t] # "init"
  BY <1>1 DEF Base, Own
<1> QED BY <1>1, <1>2 DEF Stats, Active

\* They are finitely many.
LEMMA ResFinite ==
  ASSUME NEW c, NEW h, NEW o
  PROVE  IsFiniteSet(Res(c, h, o)) /\ Cardinality(Res(c, h, o)) \in Nat
<1>1. Res(c, h, o) \subseteq Threads
  BY DEF Res
<1>2. IsFiniteSet(Threads)
  BY SchedAssumption
<1> QED BY <1>1, <1>2, FS_Subset, FS_CardinalityType

\* A gentle section loses none of them but its own thread.
LEMMA ResStay ==
  ASSUME NEW l, NEW c, NEW h, Base(l, c, h), NEW d, NEW t, NEW W, Gentle(c, d, t, W), NEW g, CallsStay(h, g, t), NEW o
  PROVE  Res(c, h, o) \ {t} \subseteq Res(d, g, o)
<1> SUFFICES ASSUME NEW u \in Res(c, h, o), u # t PROVE u \in Res(d, g, o)
  OBVIOUS
<1>1. u \in Threads /\ c.stat[u] \in Active
  BY ResActive
<1>2. d.stat[u] \in Active /\ d.err[u] = c.err[u]
  BY <1>1 DEF Gentle
<1>3. h[u].at \in Waiting /\ g[u].op = h[u].op /\ g[u].at \in Waiting
  BY <1>1 DEF CallsStay, Res, Waiting
<1> QED BY <1>1, <1>2, <1>3 DEF Res, Active, Waiting

\* Where threads wait in list w, whatever there is of what they wait for has
\* been announced to a thread that has been resumed.
Claim(c, h, w, n) == c.wait[w] # << >> => n <= Cardinality(Res(c, h, OpOf(w)))

\* A list gets no thread.
LEMMA StaysEmpty ==
  ASSUME NEW c, KInv(c), NEW d, KInv(d), NEW t, NEW W, Gentle(c, d, t, W), NEW w \in IpcLists,
         w \notin W, d.wait[w] # << >>
  PROVE  c.wait[w] # << >>
<1>1. w \in Lists /\ c.wait[w] \in Seq(Threads) /\ d.wait[w] \in Seq(Threads)
  BY DEF IpcLists, Lists, KInv, Kernel, KType
<1>2. PICK u : u \in Threads /\ InList(u, d.wait[w])
  BY <1>1, EmptyFacts
<1>3. InList(u, c.wait[w])
  BY <1>2 DEF Gentle
<1> QED BY <1>1, <1>3, EmptyFacts

\* A section that does not concern w.
LEMMA ClaimKept ==
  ASSUME NEW l, NEW c, NEW h, Base(l, c, h), NEW d, KInv(d), NEW t, NEW W, Gentle(c, d, t, W), NEW g,
         CallsStay(h, g, t), NEW w \in IpcLists, w \notin W, t \notin Res(c, h, OpOf(w)),
         NEW n \in Int, Claim(c, h, w, n), NEW m \in Int, m <= n
  PROVE  Claim(d, g, w, m)
<1> SUFFICES ASSUME d.wait[w] # << >> PROVE m <= Cardinality(Res(d, g, OpOf(w)))
  BY DEF Claim
<1>1. PICK o, A, B : o = OpOf(w) /\ A = Res(c, h, o) /\ B = Res(d, g, o)
  OBVIOUS
<1>2. n <= Cardinality(A)
  BY <1>1, StaysEmpty DEF Claim, Base
<1>3. A \subseteq B
  BY <1>1, ResStay
<1>4. IsFiniteSet(B) /\ Cardinality(B) \in Nat /\ Cardinality(A) \in Nat
  BY <1>1, ResFinite
<1>5. Cardinality(A) <= Cardinality(B)
  BY <1>3, <1>4, FS_Subset
<1> QED BY <1>1, <1>2, <1>4, <1>5

\* A thread that was resumed takes what was announced to it.
LEMMA ClaimTaken ==
  ASSUME NEW l, NEW c, NEW h, Base(l, c, h), NEW d, KInv(d), NEW t, NEW W, Gentle(c, d, t, W), NEW g,
         CallsStay(h, g, t), NEW w \in IpcLists, w \notin W,
         NEW n \in Int, Claim(c, h, w, n)
  PROVE  Claim(d, g, w, n - 1)
<1> SUFFICES ASSUME d.wait[w] # << >> PROVE n - 1 <= Cardinality(Res(d, g, OpOf(w)))
  BY DEF Claim
<1>1. PICK o, A, B : o = OpOf(w) /\ A = Res(c, h, o) /\ B = Res(d, g, o)
  OBVIOUS
<1>2. n <= Cardinality(A)
  BY <1>1, StaysEmpty DEF Claim, Base
<1>3. A \ {t} \subseteq B
  BY <1>1, ResStay
<1>4. IsFiniteSet(A) /\ IsFiniteSet(B) /\ Cardinality(B) \in Nat /\ Cardinality(A) \in Nat
  BY <1>1, ResFinite
<1>5. Cardinality(A \ {t}) >= Cardinality(A) - 1 /\ Cardinality(A \ {t}) \in Nat
  <2>1. CASE t \in A
    <3>1. Cardinality(A \ {t}) = Cardinality(A) - 1
      BY <1>4, <2>1, FS_RemoveElement
    <3>2. IsFiniteSet(A \ {t})
      BY <1>4, FS_RemoveElement
    <3> QED BY <1>4, <3>1, <3>2, FS_CardinalityType
  <2>2. CASE t \notin A
    <3>1. Cardinality(A \ {t}) = Cardinality(A)
      BY <1>4, <2>2, FS_RemoveElement
    <3> QED BY <1>4, <3>1
  <2> QED BY <2>1, <2>2
<1>6. Cardinality(A \ {t}) <= Cardinality(B)
  BY <1>3, <1>4, FS_Subset
<1> QED BY <1>1, <1>2, <1>4, <1>5, <1>6

\* The first thread of a list can run and has RT_EOK after _ipc_list_resume.
LEMMA HeadWoken ==
  ASSUME NEW c, KInv(c), NEW w \in IpcLists, c.wait[w] # << >>, NEW d, d = _ipc_list_resume(c, w), NEW u, u = Head(c.wait[w])
  PROVE  /\ u \in Threads /\ InList(u, c.wait[w]) /\ c.stat[u] = "suspend"
         /\ d.stat[u] \in Active /\ d.err[u] = "EOK"
<1>1. w \in Lists /\ w # "defunct" /\ c.wait[w] \in Seq(Threads) /\ DOMAIN c.err = Threads /\ DOMAIN c.stat = Threads
      /\ DOMAIN c = Fields
  BY DEF IpcLists, Lists, WaitLists, KInv, Kernel, KType
<1>2. u \in Threads /\ InList(u, c.wait[w])
  BY <1>1, EmptyFacts
<1>3. c.stat[u] = "suspend"
  BY <1>1, <1>2 DEF KInv, Kernel, WaitOK
<1>4. PICK b : b = [c EXCEPT !.err[u] = "EOK"]
  OBVIOUS
<1>5. SameBut(c, b, {"err"}) /\ b.err = [c.err EXCEPT ![u] = "EOK"]
  BY <1>1, <1>4 DEF SameBut, Fields
<1>6. "EOK" \in Errors /\ c.err \in [Threads -> Errors]
  BY DEF Errors, KInv, Kernel, KType
<1>7. KInv(b) /\ b.stat = c.stat
  <2>1. b.err \in [Threads -> Errors]
    BY <1>5, <1>6
  <2>2. SameBut(c, b, {"err", "evset", "evinfo", "ev", "slice", "yld", "lock", "sem", "mb", "mq", "mp"})
    BY <1>5 DEF SameBut
  <2>3. b.slice \in [Threads -> 1 .. Slice] /\ b.yld \subseteq Threads /\ b.lock \in Nat
    BY <1>5 DEF SameBut, Fields, KInv, Kernel, KType
  <2> QED BY <2>1, <2>2, <2>3, Prepared
<1>8. d = rt_thread_resume(b, u)
  BY <1>4 DEF _ipc_list_resume
<1>9. SameBut(b, d, {"stat", "ready", "group", "wait", "timer"}) /\ Awake(b, d, u)
  BY <1>2, <1>3, <1>7, <1>8, ThreadResumed
<1>10. d.err = b.err
  BY <1>9 DEF SameBut, Fields
<1>11. d.stat[u] \in Active
  BY <1>1, <1>2, <1>7, <1>9 DEF Awake, Active
<1>12. d.err[u] = "EOK"
  BY <1>1, <1>2, <1>5, <1>10
<1> QED BY <1>2, <1>3, <1>11, <1>12

\* A call that puts something where list w waits for it and resumes one thread.
LEMMA ClaimHanded ==
  ASSUME NEW l, NEW c, NEW h, Base(l, c, h), NEW w \in IpcLists, NEW F, F \subseteq Objects, NEW b, SameBut(c, b, F),
         NEW v, NEW r, r = finish(b, w, v), NEW t, c.stat[t] = "running" \/ t \notin Threads, NEW g, CallsStay(h, g, t),
         t \notin Res(c, h, OpOf(w)), NEW n \in Int, Claim(c, h, w, n)
  PROVE  Claim(r.k, g, w, n + 1) /\ Gentle(c, r.k, t, {}) /\ KInv(r.k) /\ Keeps(b, r.k, {})
<1>1. KInv(c) /\ w \in Lists /\ w # "defunct"
  BY DEF Base, IpcLists, Lists, WaitLists
<1>2. /\ Section(c, r, None, InWait(c, w), F)
      /\ \/ r.at = "top" /\ c.wait[w] = << >> /\ r.k = b
         \/ r.at = "resched" /\ c.wait[w] # << >> /\ Hands(c, r.k, w)
  BY <1>1, Finished
<1>3. PICK G : Wakes(c, r.k, G, F)
  BY <1>2, SectionEnds
<1>4. Gentle(c, r.k, t, {}) /\ KInv(r.k)
  BY <1>3, WakesGentle DEF Wakes
<1>5. Keeps(b, r.k, {})
  BY IpcFrames
<1>6. Claim(r.k, g, w, n + 1)
  <2>1. CASE c.wait[w] = << >>
    <3>1. r.k.wait[w] = << >>
      BY <1>1, <1>4, <2>1, StaysEmpty
    <3> QED BY <3>1 DEF Claim
  <2>2. CASE c.wait[w] # << >>
    <3>1. b.wait = c.wait /\ KInv(b) /\ b.stat = c.stat
      <4>1. Wakes(c, b, {}, F) /\ b.stat = c.stat /\ b.wait = c.wait
        BY <1>1, ObjectsOnly
      <4> QED BY <4>1 DEF Wakes
    <3>2. PICK u, d : u = Head(b.wait[w]) /\ d = _ipc_list_resume(b, w)
      OBVIOUS
    <3>3. /\ u \in Threads /\ InList(u, c.wait[w]) /\ c.stat[u] = "suspend"
          /\ d.stat[u] \in Active /\ d.err[u] = "EOK"
      BY <2>2, <3>1, <3>2, HeadWoken
    <3>4. r.k = d
      BY <2>2, <3>1, <3>2 DEF finish, Resched
    <3>5. h[u].op = OpOf(w) /\ h[u].at \in {"block", "woken"} /\ u # t
      BY <1>1, <3>3 DEF Base, Own
    <3>6. PICK o, A, B : o = OpOf(w) /\ A = Res(c, h, o) /\ B = Res(d, g, o)
      OBVIOUS
    <3>7. u \in B
      BY <3>3, <3>5, <3>6 DEF Res, CallsStay, Waiting, Active
    <3>8. u \notin A /\ t \notin A
      BY <3>3, <3>6 DEF Res
    <3>9. A \ {t} \subseteq B
      BY <1>4, <3>4, <3>6, ResStay
    <3>10. A \cup {u} \subseteq B
      BY <3>7, <3>8, <3>9
    <3>11. IsFiniteSet(A) /\ IsFiniteSet(B) /\ Cardinality(B) \in Nat /\ Cardinality(A) \in Nat
      BY <3>6, ResFinite
    <3>12. Cardinality(A \cup {u}) = Cardinality(A) + 1
      BY <3>8, <3>11, FS_AddElement
    <3>13. Cardinality(A \cup {u}) <= Cardinality(B)
      BY <3>10, <3>11, FS_Subset
    <3>14. n <= Cardinality(A)
      BY <2>2, <3>6 DEF Claim
    <3> QED BY <3>4, <3>6, <3>11, <3>12, <3>13, <3>14 DEF Claim
  <2> QED BY <2>1, <2>2
<1> QED BY <1>4, <1>5, <1>6

-----------------------------------------------------------------------------
(***************************************************************************)
(* The mailbox: a ring of MbSize mails.                                    *)
(***************************************************************************)
Mailed == Vals \cup Alarms
Wrap(a) == IF a < MbSize THEN a ELSE a - MbSize
MbOK(b) ==
  /\ DOMAIN b = {"pool", "in", "out", "entry"} /\ DOMAIN b.pool = 0 .. MbSize - 1
  /\ b.in \in 0 .. MbSize - 1 /\ b.out \in 0 .. MbSize - 1 /\ b.entry \in 0 .. MbSize
  /\ b.in = Wrap(b.out + b.entry)
  /\ \A i \in 1 .. b.entry : b.pool[Wrap(b.out + i - 1)] \in Mailed

\* The mails, oldest first.
Mails(b) == [i \in 1 .. b.entry |-> b.pool[Wrap(b.out + i - 1)]]

\* A position in the ring is a remainder.
LEMMA WrapMod ==
  ASSUME NEW a \in Nat, a < MbSize + MbSize
  PROVE  a % MbSize = Wrap(a)
<1>1. MbSize \in Nat /\ MbSize > 0
  BY IpcAssumption
<1>2. PICK N, q, r : N = MbSize /\ q = a \div MbSize /\ r = a % MbSize
  OBVIOUS
<1>3. a = N * q + r /\ q \in Nat /\ r \in Nat /\ r < N /\ N \in Nat
  BY <1>1, <1>2
<1>4. q = 0 \/ q = 1
  <2>1. CASE q >= 2
    <3>1. N * q >= N * 2
      BY <1>3, <2>1
    <3> QED BY <1>2, <1>3, <3>1
  <2> QED BY <1>3, <2>1
<1>5. CASE q = 0
  <2>1. N * q = 0
    BY <1>3, <1>5
  <2> QED BY <1>2, <1>3, <2>1 DEF Wrap
<1>6. CASE q = 1
  <2>1. N * q = N
    BY <1>3, <1>6
  <2> QED BY <1>2, <1>3, <2>1 DEF Wrap
<1> QED BY <1>4, <1>5, <1>6

\* The positions of e mails, the next one free.
LEMMA RingPut ==
  ASSUME NEW o \in 0 .. MbSize - 1, NEW e \in 0 .. MbSize, e # MbSize, NEW i \in 1 .. e
  PROVE  Wrap(o + i - 1) # Wrap(o + e) /\ Wrap(o + i - 1) \in 0 .. MbSize - 1
<1>1. MbSize \in Nat /\ o \in Nat /\ e \in Nat /\ i \in Nat /\ i >= 1 /\ i <= e /\ e < MbSize /\ o < MbSize
  BY IpcAssumption
<1>2. CASE o + e < MbSize
  BY <1>1, <1>2 DEF Wrap
<1>3. CASE o + e >= MbSize
  BY <1>1, <1>3 DEF Wrap
<1> QED BY <1>1, <1>2, <1>3

\* The mails of a mailbox.
LEMMA MailsSeq ==
  ASSUME NEW b, MbOK(b)
  PROVE  /\ Mails(b) \in Seq(Mailed) /\ Len(Mails(b)) = b.entry /\ b.entry \in Nat /\ b.entry <= MbSize
         /\ \A i \in 1 .. b.entry : Mails(b)[i] = b.pool[Wrap(b.out + i - 1)]
<1>1. b.entry \in Nat /\ b.entry <= MbSize
  BY IpcAssumption DEF MbOK
<1>2. Mails(b) \in [1 .. b.entry -> Mailed]
  BY DEF MbOK, Mails
<1>3. PICK S, e : S = Mails(b) /\ e = b.entry
  OBVIOUS
<1>4. S \in Seq(Mailed) /\ Len(S) = e
  BY <1>1, <1>2, <1>3
<1>5. \A i \in 1 .. b.entry : Mails(b)[i] = b.pool[Wrap(b.out + i - 1)]
  BY DEF Mails
<1> QED BY <1>1, <1>3, <1>4, <1>5

\* Sequences with the same elements are the same.
LEMMA SameSeq ==
  ASSUME NEW A, NEW S \in Seq(A), NEW T \in Seq(A), Len(S) = Len(T), \A i \in 1 .. Len(S) : S[i] = T[i]
  PROVE  S = T
OBVIOUS

\* A mail is put in.
LEMMA MailPut ==
  ASSUME NEW b, MbOK(b), b.entry # MbSize, NEW v \in Mailed, NEW d, DOMAIN d = DOMAIN b,
         d.pool = [b.pool EXCEPT ![b.in] = v], d.in = (IF b.in + 1 >= MbSize THEN 0 ELSE b.in + 1),
         d.out = b.out, d.entry = b.entry + 1
  PROVE  MbOK(d) /\ Mails(d) = Append(Mails(b), v) /\ Len(Mails(b)) < MbSize
<1>1. /\ MbSize \in Nat /\ MbSize > 0 /\ b.in \in Nat /\ b.in < MbSize /\ b.out \in Nat /\ b.out < MbSize
      /\ b.entry \in Nat /\ b.entry < MbSize /\ b.in = Wrap(b.out + b.entry)
      /\ DOMAIN b.pool = 0 .. MbSize - 1
  BY IpcAssumption DEF MbOK
<1>2. PICK N, i0, o0, e0 : N = MbSize /\ i0 = b.in /\ o0 = b.out /\ e0 = b.entry
  OBVIOUS
<1>3. d.in \in 0 .. MbSize - 1 /\ d.out \in 0 .. MbSize - 1 /\ d.entry \in 0 .. MbSize
  BY <1>1
<1>4. d.in = Wrap(d.out + d.entry)
  BY <1>1, SMTT(30) DEF Wrap
<1>5. \A i \in 1 .. b.entry : Wrap(b.out + i - 1) # b.in /\ Wrap(b.out + i - 1) \in 0 .. MbSize - 1
  <2>1. b.out \in 0 .. MbSize - 1 /\ b.entry \in 0 .. MbSize
    BY DEF MbOK
  <2>2. \A O \in 0 .. MbSize - 1, E \in 0 .. MbSize : E # MbSize => \A i \in 1 .. E :
          Wrap(O + i - 1) # Wrap(O + E) /\ Wrap(O + i - 1) \in 0 .. MbSize - 1
    BY RingPut
  <2>3. PICK O, E : O = b.out /\ E = b.entry
    OBVIOUS
  <2>4. O \in 0 .. MbSize - 1 /\ E \in 0 .. MbSize /\ E # MbSize /\ b.in = Wrap(O + E)
    BY <1>1, <2>1, <2>3
  <2>5. \A i \in 1 .. E : Wrap(O + i - 1) # Wrap(O + E) /\ Wrap(O + i - 1) \in 0 .. MbSize - 1
    BY ONLY <2>2, <2>4
  <2> QED BY <2>3, <2>4, <2>5
<1>6. \A i \in 1 .. b.entry : d.pool[Wrap(b.out + i - 1)] = b.pool[Wrap(b.out + i - 1)]
  BY <1>1, <1>5
<1>7. Wrap(d.out + d.entry - 1) = b.in /\ d.pool[b.in] = v
  <2>1. d.out + d.entry - 1 = b.out + b.entry /\ b.in \in DOMAIN b.pool
    BY <1>1
  <2> QED BY <1>1, <2>1
<1>8. ASSUME NEW i \in 1 .. d.entry
      PROVE  d.pool[Wrap(d.out + i - 1)] = IF i <= b.entry THEN b.pool[Wrap(b.out + i - 1)] ELSE v
  <2>1. CASE i <= b.entry
    BY <1>1, <1>6, <2>1, SMTT(30)
  <2>2. CASE i > b.entry
    <3>1. i = d.entry
      BY <1>1, <2>2
    <3> QED BY <1>1, <1>7, <2>2, <3>1
  <2> QED BY <1>1, <2>1, <2>2
<1>9. MbOK(d)
  <2>1. \A i \in 1 .. d.entry : d.pool[Wrap(d.out + i - 1)] \in Mailed
    BY <1>1, <1>8 DEF MbOK
  <2>2. DOMAIN d.pool = 0 .. MbSize - 1 /\ DOMAIN d = {"pool", "in", "out", "entry"}
    BY <1>1 DEF MbOK
  <2> QED BY <1>3, <1>4, <2>1, <2>2 DEF MbOK
<1>10. PICK S, T : S = Mails(b) /\ T = Mails(d)
  OBVIOUS
<1>s. S \in Seq(Mailed) /\ Len(S) = b.entry /\ \A i \in 1 .. b.entry : S[i] = b.pool[Wrap(b.out + i - 1)]
  BY ONLY MbOK(b), <1>10, MailsSeq
<1>t. T \in Seq(Mailed) /\ Len(T) = d.entry /\ \A i \in 1 .. d.entry : T[i] = d.pool[Wrap(d.out + i - 1)]
  BY ONLY <1>9, <1>10, MailsSeq
<1>11. S \in Seq(Mailed) /\ Len(S) = b.entry /\ T \in Seq(Mailed) /\ Len(T) = d.entry
  BY <1>s, <1>t
<1>12. \A i \in 1 .. d.entry : T[i] = IF i <= b.entry THEN S[i] ELSE v
  BY <1>1, <1>8, <1>s, <1>t
<1>13. T = Append(S, v)
  <2>0. \A i \in 1 .. Len(S) + 1 : T[i] = IF i <= Len(S) THEN S[i] ELSE v
    BY <1>11, <1>12
  <2>1. Append(S, v) \in Seq(Mailed) /\ Len(Append(S, v)) = Len(S) + 1
    BY <1>11
  <2>2. \A i \in 1 .. Len(S) + 1 : Append(S, v)[i] = IF i <= Len(S) THEN S[i] ELSE v
    BY <1>11
  <2>3. \A i \in 1 .. Len(T) : T[i] = Append(S, v)[i]
    BY <1>11, <2>0, <2>2
  <2>4. Len(T) = Len(S) + 1
    BY <1>11
  <2> QED BY ONLY <1>11, <2>1, <2>3, <2>4, SameSeq
<1> QED BY <1>1, <1>9, <1>10, <1>11, <1>13

\* An urgent mail is put in front.
LEMMA MailFirst ==
  ASSUME NEW b, MbOK(b), b.entry # MbSize, NEW v \in Mailed, NEW d, DOMAIN d = DOMAIN b,
         NEW o, o = (IF b.out > 0 THEN b.out - 1 ELSE MbSize - 1),
         d.pool = [b.pool EXCEPT ![o] = v], d.in = b.in, d.out = o, d.entry = b.entry + 1
  PROVE  MbOK(d) /\ Mails(d) = <<v>> \o Mails(b) /\ Len(Mails(b)) < MbSize
<1>1. /\ MbSize \in Nat /\ MbSize > 0 /\ b.in \in Nat /\ b.in < MbSize /\ b.out \in Nat /\ b.out < MbSize
      /\ b.entry \in Nat /\ b.entry < MbSize /\ b.in = Wrap(b.out + b.entry)
      /\ DOMAIN b.pool = 0 .. MbSize - 1
  BY IpcAssumption DEF MbOK
<1>2. /\ o \in 0 .. MbSize - 1 /\ Wrap(b.out + b.entry) = Wrap(o + (b.entry + 1)) /\ Wrap(o) = o
      /\ \A i \in 1 .. b.entry : Wrap(b.out + i - 1) # o /\ Wrap(b.out + i - 1) \in 0 .. MbSize - 1
      /\ \A i \in 1 .. b.entry + 1 : i # 1 => Wrap(o + i - 1) = Wrap(b.out + (i - 1) - 1)
  <2>1. b.out \in 0 .. MbSize - 1 /\ b.entry \in 0 .. MbSize
    BY DEF MbOK
  <2>2. PICK O, E : O = b.out /\ E = b.entry
    OBVIOUS
  <2>3. O \in 0 .. MbSize - 1 /\ E \in 0 .. MbSize /\ E # MbSize /\ (O > 0 => o = O - 1) /\ (O = 0 => o = MbSize - 1)
        /\ o \in 0 .. MbSize - 1
    BY <1>1, <2>1, <2>2
  <2>4. /\ o \in 0 .. MbSize - 1 /\ Wrap(O + E) = Wrap(o + (E + 1)) /\ Wrap(o) = o
        /\ \A i \in 1 .. E : Wrap(O + i - 1) # o /\ Wrap(O + i - 1) \in 0 .. MbSize - 1
        /\ \A i \in 1 .. E + 1 : i # 1 => Wrap(o + i - 1) = Wrap(O + (i - 1) - 1)
    <3>1. MbSize \in Nat /\ MbSize > 0 /\ O \in Nat /\ E \in Nat /\ E < MbSize /\ O < MbSize /\ o \in Int
      BY <1>1, <2>3
    <3>2. CASE O > 0
      BY ONLY <2>3, <3>1, <3>2 DEF Wrap
    <3>3. CASE O = 0
      <4>1. o = MbSize - 1
        BY <2>3, <3>3
      <4>2. \A i \in 1 .. E : Wrap(O + i - 1) # o /\ Wrap(O + i - 1) \in 0 .. MbSize - 1
        BY ONLY <3>1, <3>3, <4>1 DEF Wrap
      <4>3. \A i \in 1 .. E + 1 : i # 1 => Wrap(o + i - 1) = Wrap(O + (i - 1) - 1)
        BY ONLY <3>1, <3>3, <4>1 DEF Wrap
      <4>4. Wrap(O + E) = Wrap(o + (E + 1)) /\ Wrap(o) = o
        BY ONLY <3>1, <3>3, <4>1 DEF Wrap
      <4> QED BY <2>3, <4>2, <4>3, <4>4
    <3> QED BY <3>1, <3>2, <3>3
  <2> QED BY <2>2, <2>4
<1>3. d.in \in 0 .. MbSize - 1 /\ d.out \in 0 .. MbSize - 1 /\ d.entry \in 0 .. MbSize
  BY <1>1, <1>2, SMTT(30)
<1>4. d.in = Wrap(d.out + d.entry)
  BY <1>1, <1>2
<1>5. \A i \in 1 .. b.entry : Wrap(b.out + i - 1) # o /\ Wrap(b.out + i - 1) \in 0 .. MbSize - 1
  BY <1>2
<1>6. \A i \in 1 .. b.entry : d.pool[Wrap(b.out + i - 1)] = b.pool[Wrap(b.out + i - 1)]
  BY <1>1, <1>5
<1>7. Wrap(d.out + 1 - 1) = o /\ d.pool[o] = v
  <2>1. d.out + 1 - 1 = o
    BY <1>2
  <2> QED BY <1>1, <1>2, <2>1
<1>8. ASSUME NEW i \in 1 .. d.entry
      PROVE  d.pool[Wrap(d.out + i - 1)] = IF i = 1 THEN v ELSE b.pool[Wrap(b.out + (i - 1) - 1)]
  <2>1. CASE i = 1
    BY <1>7, <2>1
  <2>2. CASE i # 1
    <3>1. i - 1 \in 1 .. b.entry
      BY <1>1, <2>2
    <3>2. Wrap(d.out + i - 1) = Wrap(b.out + (i - 1) - 1)
      BY <1>2, <2>2
    <3> QED BY <1>6, <2>2, <3>1, <3>2
  <2> QED BY <2>1, <2>2
<1>9. MbOK(d)
  <2>1. \A i \in 1 .. d.entry : d.pool[Wrap(d.out + i - 1)] \in Mailed
    BY <1>1, <1>8, SMTT(30) DEF MbOK
  <2>2. DOMAIN d.pool = 0 .. MbSize - 1 /\ DOMAIN d = {"pool", "in", "out", "entry"}
    BY <1>1 DEF MbOK
  <2> QED BY <1>3, <1>4, <2>1, <2>2 DEF MbOK
<1>10. PICK S, T : S = Mails(b) /\ T = Mails(d)
  OBVIOUS
<1>s. S \in Seq(Mailed) /\ Len(S) = b.entry /\ \A i \in 1 .. b.entry : S[i] = b.pool[Wrap(b.out + i - 1)]
  BY ONLY MbOK(b), <1>10, MailsSeq
<1>t. T \in Seq(Mailed) /\ Len(T) = d.entry /\ \A i \in 1 .. d.entry : T[i] = d.pool[Wrap(d.out + i - 1)]
  BY ONLY <1>9, <1>10, MailsSeq
<1>11. S \in Seq(Mailed) /\ Len(S) = b.entry /\ T \in Seq(Mailed) /\ Len(T) = d.entry
  BY <1>s, <1>t
<1>12. \A i \in 1 .. d.entry : T[i] = IF i = 1 THEN v ELSE S[i - 1]
  BY <1>1, <1>8, <1>s, <1>t, SMTT(30)
<1>13. T = <<v>> \o S
  <2>0. v \in Mailed /\ Len(S) \in Nat /\ Len(T) = Len(S) + 1
    BY <1>1, <1>11
  <2>1. PICK U : U = <<v>> \o S
    OBVIOUS
  <2>2. U \in Seq(Mailed) /\ Len(U) = Len(S) + 1
    BY ONLY <1>11, <2>0, <2>1
  <2>3. \A i \in 1 .. Len(S) + 1 : U[i] = IF i = 1 THEN v ELSE S[i - 1]
    BY ONLY <1>11, <2>0, <2>1
  <2>4. \A i \in 1 .. Len(T) : T[i] = U[i]
    BY ONLY <1>11, <1>12, <2>0, <2>3
  <2>5. T = U
    BY ONLY <1>11, <2>0, <2>2, <2>4, SeqEqual
  <2> QED BY ONLY <2>1, <2>5
<1> QED BY <1>1, <1>9, <1>10, <1>11, <1>13

\* A mail is taken out.
LEMMA MailGot ==
  ASSUME NEW b, MbOK(b), b.entry # 0, NEW d, DOMAIN d = DOMAIN b,
         d.pool = b.pool, d.in = b.in, d.out = (IF b.out + 1 >= MbSize THEN 0 ELSE b.out + 1), d.entry = b.entry - 1
  PROVE  /\ MbOK(d) /\ Mails(d) = Tail(Mails(b)) /\ Mails(b) # << >> /\ b.pool[b.out] = Head(Mails(b))
         /\ b.pool[b.out] \in Mailed
<1>1. /\ MbSize \in Nat /\ MbSize > 0 /\ b.in \in Nat /\ b.in < MbSize /\ b.out \in Nat /\ b.out < MbSize
      /\ b.entry \in Nat /\ b.entry <= MbSize /\ b.entry > 0 /\ b.in = Wrap(b.out + b.entry)
      /\ DOMAIN b.pool = 0 .. MbSize - 1
  BY IpcAssumption DEF MbOK
<1>3. d.in \in 0 .. MbSize - 1 /\ d.out \in 0 .. MbSize - 1 /\ d.entry \in 0 .. MbSize
  BY <1>1
<1>4. d.in = Wrap(d.out + d.entry)
  BY <1>1 DEF Wrap
<1>8. ASSUME NEW i \in 1 .. d.entry
      PROVE  d.pool[Wrap(d.out + i - 1)] = b.pool[Wrap(b.out + (i + 1) - 1)] /\ i + 1 \in 1 .. b.entry
  <2>1. Wrap(d.out + i - 1) = Wrap(b.out + (i + 1) - 1)
    BY <1>1, SMTT(30) DEF Wrap
  <2> QED BY <1>1, <2>1
<1>9. MbOK(d)
  <2>1. \A i \in 1 .. d.entry : d.pool[Wrap(d.out + i - 1)] \in Mailed
    BY <1>1, <1>8 DEF MbOK
  <2>2. DOMAIN d.pool = 0 .. MbSize - 1 /\ DOMAIN d = {"pool", "in", "out", "entry"}
    BY <1>1 DEF MbOK
  <2> QED BY <1>3, <1>4, <2>1, <2>2 DEF MbOK
<1>10. PICK S, T : S = Mails(b) /\ T = Mails(d)
  OBVIOUS
<1>s. S \in Seq(Mailed) /\ Len(S) = b.entry /\ \A i \in 1 .. b.entry : S[i] = b.pool[Wrap(b.out + i - 1)]
  BY ONLY MbOK(b), <1>10, MailsSeq
<1>t. T \in Seq(Mailed) /\ Len(T) = d.entry /\ \A i \in 1 .. d.entry : T[i] = d.pool[Wrap(d.out + i - 1)]
  BY ONLY <1>9, <1>10, MailsSeq
<1>11. S \in Seq(Mailed) /\ Len(S) = b.entry /\ T \in Seq(Mailed) /\ Len(T) = d.entry
  BY <1>s, <1>t
<1>12. \A i \in 1 .. d.entry : T[i] = S[i + 1]
  BY <1>1, <1>8, <1>s, <1>t
<1>13. T = Tail(S) /\ S # << >>
  BY <1>1, <1>11, <1>12
<1>14. S[1] = b.pool[b.out]
  <2>1. 1 \in 1 .. b.entry /\ Wrap(b.out + 1 - 1) = b.out
    BY <1>1 DEF Wrap
  <2>2. S[1] = b.pool[Wrap(b.out + 1 - 1)]
    BY <2>1, <1>s
  <2> QED BY <2>1, <2>2
<1>15. S[1] \in Mailed /\ Head(S) = S[1]
  BY <1>1, <1>11
<1> QED BY <1>9, <1>10, <1>13, <1>14, <1>15

\* The mailbox is empty after a reset.
LEMMA MailNone ==
  ASSUME NEW b, MbOK(b), NEW d, DOMAIN d = DOMAIN b, d.pool = b.pool, d.in = 0, d.out = 0, d.entry = 0
  PROVE  MbOK(d) /\ Mails(d) = << >>
<1>1. MbSize \in Nat /\ MbSize > 0
  BY IpcAssumption
<1>2. MbOK(d)
  BY <1>1 DEF MbOK, Wrap
<1>3. Mails(d) \in Seq(Mailed) /\ Len(Mails(d)) = 0
  BY <1>2, MailsSeq
<1>4. PICK S : S = Mails(d)
  OBVIOUS
<1>5. S = << >>
  BY <1>3, <1>4
<1> QED BY <1>2, <1>4, <1>5

-----------------------------------------------------------------------------
(***************************************************************************)
(* The memory pool: every block is in the list or held by one thread.      *)
(***************************************************************************)
MpOK(p, held) ==
  /\ DOMAIN p = {"list", "free"} /\ IsList(Blocks, p.list) /\ p.free = Len(p.list)
  /\ held \in [Threads -> SUBSET Blocks]
  /\ \A b \in Blocks : InList(b, p.list) \/ \E t \in Threads : b \in held[t]
  /\ \A b \in Blocks, t \in Threads : b \in held[t] => ~InList(b, p.list)
  /\ \A b \in Blocks, t, u \in Threads : b \in held[t] /\ b \in held[u] => t = u

\* A block is taken from the list.
LEMMA BlockTaken ==
  ASSUME NEW p, NEW a, MpOK(p, a), p.free # 0, NEW q, DOMAIN q = DOMAIN p,
         q.free = p.free - 1, q.list = Tail(p.list), NEW t \in Threads,
         NEW d, d = [a EXCEPT ![t] = @ \cup {Head(p.list)}]
  PROVE  MpOK(q, d) /\ Head(p.list) \in Blocks /\ p.free \in Nat
<1>1. /\ DOMAIN p = {"list", "free"} /\ p.list \in Seq(Blocks) /\ Distinct(p.list) /\ p.free = Len(p.list)
      /\ a \in [Threads -> SUBSET Blocks]
  BY DEF MpOK, IsList
<1>2. PICK s, x : s = p.list /\ x = Head(p.list)
  OBVIOUS
<1>3. s \in Seq(Blocks) /\ Len(s) \in Nat /\ Len(s) > 0 /\ s # << >> /\ x = s[1] /\ x \in Blocks
  BY <1>1, <1>2
<1>4. Tail(s) \in Seq(Blocks) /\ Len(Tail(s)) = Len(s) - 1 /\ \A i \in 1 .. Len(s) - 1 : Tail(s)[i] = s[i + 1]
  BY <1>3
<1>5. IsList(Blocks, Tail(s))
  BY <1>1, <1>2, <1>3, <1>4 DEF IsList, Distinct
<1>6. \A e : InList(e, Tail(s)) <=> InList(e, s) /\ e # x
  <2>1. \A e : InList(e, s) <=> \E i \in 1 .. Len(s) : s[i] = e
    BY <1>3, InListDef
  <2>2. \A e : InList(e, Tail(s)) <=> \E i \in 1 .. Len(s) - 1 : s[i + 1] = e
    <3>1. PICK T : T = Tail(s)
      OBVIOUS
    <3>2. \A e : InList(e, T) <=> \E i \in 1 .. Len(T) : T[i] = e
      BY <1>4, <3>1, InListDef, ZenonT(60)
    <3> QED BY <1>4, <3>1, <3>2
  <2>3. ASSUME NEW e, InList(e, Tail(s)) PROVE InList(e, s) /\ e # x
    BY <1>1, <1>2, <1>3, <2>1, <2>2, <2>3 DEF Distinct
  <2>4. ASSUME NEW e, InList(e, s), e # x PROVE InList(e, Tail(s))
    <3>1. PICK i \in 1 .. Len(s) : s[i] = e
      BY <2>1, <2>4
    <3>2. i - 1 \in 1 .. Len(s) - 1 /\ (i - 1) + 1 = i
      BY <1>3, <2>4, <3>1
    <3> QED BY <2>2, <3>1, <3>2
  <2> QED BY <2>3, <2>4
<1>7. InList(x, s)
  BY <1>3, InListDef
<1>8. d \in [Threads -> SUBSET Blocks]
  BY <1>1, <1>2, <1>3
<1>9. \A u \in Threads, b \in Blocks : b \in d[u] <=> b \in a[u] \/ (u = t /\ b = x)
  BY <1>1, <1>2
<1>10. q.free = Len(q.list) /\ DOMAIN q = {"list", "free"} /\ q.list = Tail(s)
  BY <1>1, <1>2, <1>3, <1>4
<1>11. \A b \in Blocks : InList(b, s) \/ \E u \in Threads : b \in a[u]
  BY <1>2 DEF MpOK
<1>12. \A b \in Blocks, u \in Threads : b \in a[u] => ~InList(b, s)
  BY <1>2 DEF MpOK
<1>13. \A b \in Blocks, v, u \in Threads : b \in a[v] /\ b \in a[u] => v = u
  BY DEF MpOK
<1>14. \A b \in Blocks : InList(b, q.list) \/ \E u \in Threads : b \in d[u]
  BY <1>6, <1>9, <1>10, <1>11
<1>15. \A b \in Blocks, u \in Threads : b \in d[u] => ~InList(b, q.list)
  <2>1. \A b \in Blocks, u \in Threads : b \in d[u] => ~InList(b, Tail(s))
    BY ONLY <1>6, <1>9, <1>12
  <2> QED BY <1>10, <2>1
<1>16. \A b \in Blocks, v, u \in Threads : b \in d[v] /\ b \in d[u] => v = u
  BY <1>7, <1>9, <1>12, <1>13
<1>17. MpOK(q, d)
  BY <1>5, <1>8, <1>10, <1>14, <1>15, <1>16 DEF MpOK
<1> QED BY <1>1, <1>2, <1>3, <1>17

\* A block is given back.
LEMMA BlockFreed ==
  ASSUME NEW p, NEW a, MpOK(p, a), NEW t \in Threads, NEW x \in a[t], NEW q, DOMAIN q = DOMAIN p,
         q.free = p.free + 1, q.list = Cons(x, p.list), NEW d, d = [a EXCEPT ![t] = @ \ {x}]
  PROVE  MpOK(q, d)
<1>1. /\ DOMAIN p = {"list", "free"} /\ IsList(Blocks, p.list) /\ p.free = Len(p.list)
      /\ a \in [Threads -> SUBSET Blocks] /\ p.list \in Seq(Blocks)
  BY DEF MpOK, IsList
<1>2. x \in Blocks /\ ~InList(x, p.list)
  BY <1>1 DEF MpOK
<1>3. IsList(Blocks, q.list) /\ \A u : InList(u, q.list) <=> InList(u, p.list) \/ u = x
  BY <1>1, <1>2, ConsFacts
<1>4. q.free = Len(q.list)
  BY <1>1, <1>2 DEF Cons
<1>5. d \in [Threads -> SUBSET Blocks]
  BY <1>1
<1>6. \A u \in Threads, b \in Blocks : b \in d[u] <=> b \in a[u] /\ ~(u = t /\ b = x)
  BY <1>1
<1>7. \A b \in Blocks, u \in Threads : b \in a[u] => ~InList(b, p.list)
  BY DEF MpOK
<1>8. \A b \in Blocks, v, u \in Threads : b \in a[v] /\ b \in a[u] => v = u
  BY DEF MpOK
<1>9. \A b \in Blocks : InList(b, p.list) \/ \E u \in Threads : b \in a[u]
  BY DEF MpOK
<1>10. \A b \in Blocks : InList(b, q.list) \/ \E u \in Threads : b \in d[u]
  BY <1>3, <1>6, <1>9
<1>11. \A b \in Blocks, u \in Threads : b \in d[u] => ~InList(b, q.list)
  BY <1>2, <1>3, <1>6, <1>7, <1>8
<1>12. \A b \in Blocks, v, u \in Threads : b \in d[v] /\ b \in d[u] => v = u
  BY <1>6, <1>8
<1> QED BY <1>1, <1>3, <1>4, <1>5, <1>10, <1>11, <1>12 DEF MpOK

-----------------------------------------------------------------------------
(***************************************************************************)
(* What the objects hold.  Tagged: a thread that is sending carries a mail *)
(* or a message.                                                           *)
(***************************************************************************)
Tagged(e) ==
  /\ e.at \in {"block", "woken", "copy"} /\ e.op \in {"mb_send", "mq_send"} => e.arg \in Vals
  /\ e.at = "copy" /\ e.op = "mq_urgent" => e.arg \in Alarms

MqOK(q, h) ==
  /\ DOMAIN q = {"head", "tail", "free", "entry", "next", "val"}
  /\ \E Q, R : SlotUse(q, h, Q, R) /\ Covered(h, Q, R)

\* The calls of the threads go on without a message.
Calm(h, g) == SameCopies(h, g) /\ \A t \in Threads : Tagged(h[t]) => Tagged(g[t])

\* The fields of the mailbox, the message queue and the memory pool.
Store == {"mb", "mq", "mp"}
Aside(c, d) == Keeps(c, d, Outer \ Store)

\* A thread goes on to e, which has nothing to do with messages.
LEMMA GoesCalm ==
  ASSUME NEW h, NEW g, NEW t \in Threads, NEW e, Goes(h, g, t, e), h[t].at # "copy", e.at # "copy",
         e.at \in {"block", "woken"} /\ e.op \in {"mb_send", "mq_send"} => e.arg \in Vals
  PROVE  Calm(h, g)
<1>1. SameCopies(h, g)
  BY DEF SameCopies, Goes, Copies
<1>2. ASSUME NEW u \in Threads, Tagged(h[u]) PROVE Tagged(g[u])
  BY <1>2 DEF Tagged, Goes
<1> QED BY <1>1, <1>2 DEF Calm

\* A call of the current thread that has nothing to do with messages.
LEMMA GoCalm ==
  ASSUME NEW t \in Threads, NEW r, NEW o, NEW n, NEW arg, Go(t, r, o, n, arg), DOMAIN th = Threads,
         th[t].at # "copy", r.at # "copy",
         r.at \in {"block", "woken"} /\ o \in {"mb_send", "mq_send"} => arg \in Vals
  PROVE  Calm(th, th') /\ k' = r.k
<1>1. k' = r.k /\ th' = Moved(th, t, After(r, o, n, arg))
  BY Going
<1>2. PICK e : e = After(r, o, n, arg)
  OBVIOUS
<1>3. Goes(th, th', t, e)
  BY <1>1, <1>2, AfterGoes
<1>4. e.at # "copy" /\ (e.at \in {"block", "woken"} /\ e.op \in {"mb_send", "mq_send"} => e.arg \in Vals)
  <2>1. CASE r.at = "top"
    BY <1>2, <2>1 DEF After, Top
  <2>2. CASE r.at # "top"
    BY <1>2, <2>2 DEF After
  <2> QED BY <2>1, <2>2
<1>5. Calm(th, th')
  BY <1>3, <1>4, GoesCalm
<1> QED BY <1>1, <1>5

\* The step leaves mailbox, message queue and memory pool aside.
StepAside == Aside(k, k') /\ Calm(th, th')

\* A section of a call on another object.
LEMMA SectionAside ==
  ASSUME NEW c, NEW r, NEW o, NEW G, NEW F, F \subseteq Objects \ Store, Section(c, r, o, G, F)
  PROVE  Aside(c, r.k)
<1>1. Keeps(c, r.k, F)
  BY SectionFrame
<1>2. F \subseteq Outer \ Store
  BY DEF Objects, Outer, Store
<1> QED BY <1>1, <1>2, KeepsMore DEF Aside

\* What leaves every object alone.
LEMMA NoneAside ==
  ASSUME NEW c, NEW d, Keeps(c, d, {})
  PROVE  Aside(c, d)
BY KeepsMore DEF Aside

\* A record that differs in other fields.
LEMMA SameAside ==
  ASSUME NEW c, NEW d, NEW F, SameBut(c, d, F), F \cap Store = {}
  PROVE  Aside(c, d)
BY DEF Aside, Keeps, SameBut, Store, Outer, Fields

\* One section after another.
LEMMA AsideTrans ==
  ASSUME NEW a, NEW b, NEW c, Aside(a, b), Aside(b, c)
  PROVE  Aside(a, c)
BY KeepsTrans DEF Aside

\* rt_schedule ends a call or gives up the processor.
LEMMA SchedAside ==
  ASSUME Safe, NEW t, Sched(t)
  PROVE  StepAside
<1>1. k.cur = t /\ th[t].at \in {"block", "resched"} /\ Base(load, k, th) /\ t \in Threads /\ DOMAIN th = Threads
  BY DEF Safe, System, Base, Sched
<1>2. PICK b : b = IF th[t].op = "sleep" THEN [k EXCEPT !.err[t] = "EINTR"] ELSE k
  OBVIOUS
<1>3. Aside(k, b)
  BY <1>2, AssignFrames, SchedFrames, NoneAside
<1>4. k' = rt_schedule(b)
  BY <1>2 DEF Sched
<1>5. Aside(k, k')
  BY <1>3, <1>4, ScheduleFrame, NoneAside, AsideTrans
<1>6. PICK e : e = IF th[t].at = "block" THEN [th[t] EXCEPT !.at = "woken"] ELSE Top
  OBVIOUS
<1>7. th' = [th EXCEPT ![t] = e]
  BY <1>6 DEF Sched
<1>8. Own(load, k, th[t], t)
  BY <1>1 DEF Base
<1>9. Calm(th, th')
  <2>1. SameCopies(th, th')
    BY <1>1, <1>6, <1>7, <1>8 DEF SameCopies, Copies, Top, Own
  <2>2. ASSUME NEW u \in Threads, Tagged(th[u]) PROVE Tagged(th'[u])
    <3>1. CASE u # t
      BY <1>1, <1>7, <2>2, <3>1
    <3>2. CASE u = t /\ th[t].at = "block"
      BY <1>1, <1>6, <1>7, <1>8, <2>2, <3>2 DEF Tagged, Own
    <3>3. CASE u = t /\ th[t].at # "block"
      BY <1>1, <1>6, <1>7, <3>3 DEF Tagged, Top
    <3> QED BY <3>1, <3>2, <3>3
  <2> QED BY <2>1, <2>2 DEF Calm
<1> QED BY <1>5, <1>9 DEF StepAside

\* The calls of thread.c.
LEMMA ThreadAside ==
  ASSUME Safe, NEW t, \/ Yield(t) \/ Sleep(t) \/ SleepWoken(t) \/ SuspendSelf(t) \/ Resume(t)
                      \/ Startup(t) \/ StartupCheck(t) \/ Unlink(t) \/ Insert(t) \/ Exit(t)
  PROVE  StepAside
<1>1. CASE Yield(t)
  <2>1. Enter(t, "yield") /\ Go(t, Resched(Yielding(k, t), "EOK"), "yield", 0, None)
    BY <1>1 DEF Yield, Yielding
  <2>2. t \in Threads /\ DOMAIN th = Threads /\ th[t].at = "top" /\ KInv(k) /\ t = k.cur
    BY <2>1, Entering
  <2>3. Calm(th, th') /\ k' = Yielding(k, t)
    BY <2>1, <2>2, GoCalm DEF Resched
  <2>4. Keeps(k, k', {})
    BY <2>3, AssignFrames DEF Yielding
  <2> QED BY <2>3, <2>4, NoneAside DEF StepAside
<1>2. CASE Sleep(t)
  <2>1. PICK n, b, c : /\ Enter(t, "sleep") /\ b = [k EXCEPT !.err[t] = "EOK"] /\ c = rt_thread_suspend(b, t)
                       /\ Go(t, Block(rt_timer_start(c, t, n)), "sleep", n, None)
    BY <1>2 DEF Sleep
  <2>2. t \in Threads /\ DOMAIN th = Threads /\ th[t].at = "top"
    BY <2>1, Entering
  <2>3. Calm(th, th') /\ k' = rt_timer_start(c, t, n)
    BY <2>1, <2>2, GoCalm DEF Block
  <2>4. Keeps(k, b, {}) /\ Keeps(b, c, {}) /\ Keeps(c, k', {})
    BY <2>1, <2>3, AssignFrames, SchedFrames
  <2> QED BY <2>3, <2>4, NoneAside, AsideTrans DEF StepAside
<1>3. CASE SleepWoken(t)
  <2>1. Woken(t, "sleep") /\ \E x : Go(t, Ret([k EXCEPT !.err[t] = x], "EOK"), None, 0, None)
    BY <1>3 DEF SleepWoken
  <2>2. t \in Threads /\ th[t].at = "woken" /\ Base(load, k, th)
    BY <2>1, Waking
  <2>3. DOMAIN th = Threads
    BY <2>2 DEF Base
  <2>4. PICK x : Go(t, Ret([k EXCEPT !.err[t] = x], "EOK"), None, 0, None)
    BY <2>1
  <2>5. Calm(th, th') /\ k' = [k EXCEPT !.err[t] = x]
    BY <2>2, <2>3, <2>4, GoCalm DEF Ret
  <2> QED BY <2>5, AssignFrames, NoneAside DEF StepAside
<1>4. CASE SuspendSelf(t)
  <2>1. Enter(t, "suspend") /\ Go(t, Resched(rt_thread_suspend(k, t), "EOK"), "suspend", 0, None)
    BY <1>4 DEF SuspendSelf
  <2>2. t \in Threads /\ DOMAIN th = Threads /\ th[t].at = "top"
    BY <2>1, Entering
  <2>3. Calm(th, th') /\ k' = rt_thread_suspend(k, t)
    BY <2>1, <2>2, GoCalm DEF Resched
  <2> QED BY <2>3, SchedFrames, NoneAside DEF StepAside
<1>5. CASE Resume(t) \/ StartupCheck(t)
  <2>1. PICK u, o : /\ k.cur = t /\ th[t].at \in {"top", "check"} /\ Go(t, check_suspended(k, u), o, 0, u)
    BY <1>5 DEF Resume, StartupCheck, Enter
  <2>2. t \in Threads /\ DOMAIN th = Threads
    BY <2>1 DEF Safe, System, Base
  <2>3. check_suspended(k, u).k = k /\ check_suspended(k, u).at \in {"unlink", "resched"}
    BY DEF check_suspended, Between, Resched
  <2>4. Calm(th, th') /\ k' = k
    BY <2>1, <2>2, <2>3, GoCalm
  <2> QED BY <2>4, SchedFrames, NoneAside DEF StepAside
<1>6. CASE Startup(t)
  <2>1. PICK u, b : /\ Enter(t, "startup") /\ b = [k EXCEPT !.stat[u] = "suspend"]
                    /\ Go(t, Between(b, "check"), "startup", 0, u)
    BY <1>6 DEF Startup
  <2>2. t \in Threads /\ DOMAIN th = Threads /\ th[t].at = "top"
    BY <2>1, Entering
  <2>3. Calm(th, th') /\ k' = b
    BY <2>1, <2>2, GoCalm DEF Between
  <2> QED BY <2>1, <2>3, AssignFrames, NoneAside DEF StepAside
<1>7. CASE Unlink(t)
  <2>1. k.cur = t /\ th[t].at = "unlink" /\ Go(t, detach(k, th[t].arg), th[t].op, 0, th[t].arg)
    BY <1>7 DEF Unlink
  <2>2. t \in Threads /\ DOMAIN th = Threads
    BY <2>1 DEF Safe, System, Base
  <2>3. PICK u, b : u = th[t].arg /\ b = rt_list_remove(k, u)
    OBVIOUS
  <2>4. Calm(th, th') /\ k' = rt_timer_stop(b, u)
    BY <2>1, <2>2, <2>3, GoCalm DEF detach, Between
  <2>5. Keeps(k, b, {}) /\ Keeps(b, k', {})
    BY <2>3, <2>4, SchedFrames
  <2> QED BY <2>4, <2>5, NoneAside, AsideTrans DEF StepAside
<1>8. CASE Insert(t)
  <2>1. k.cur = t /\ th[t].at = "insert"
        /\ Go(t, Resched(rt_schedule_insert_thread(k, th[t].arg), "EOK"), th[t].op, 0, None)
    BY <1>8 DEF Insert
  <2>2. t \in Threads /\ DOMAIN th = Threads
    BY <2>1 DEF Safe, System, Base
  <2>3. Calm(th, th') /\ k' = rt_schedule_insert_thread(k, th[t].arg)
    BY <2>1, <2>2, GoCalm DEF Resched
  <2> QED BY <2>3, SchedFrames, NoneAside DEF StepAside
<1>9. CASE Exit(t)
  <2>1. Enter(t, "exit") /\ Go(t, Resched(_thread_exit(k, t), "EOK"), "exit", 0, None)
    BY <1>9 DEF Exit
  <2>2. t \in Threads /\ DOMAIN th = Threads /\ th[t].at = "top" /\ KInv(k) /\ t = k.cur /\ k.stat[t] = "running"
    BY <2>1, Entering
  <2>3. Calm(th, th') /\ k' = _thread_exit(k, t)
    BY <2>1, <2>2, GoCalm DEF Resched
  <2>4. SameBut(k, k', {"ready", "group", "timer", "stat", "yld", "wait"})
    BY <2>2, <2>3, Exited
  <2>5. Aside(k, k')
    BY <2>4, SameAside DEF Store
  <2> QED BY <2>3, <2>5 DEF StepAside
<1> QED BY <1>1, <1>2, <1>3, <1>4, <1>5, <1>6, <1>7, <1>8, <1>9

\* rt_enter_critical and rt_exit_critical.
LEMMA LockAside ==
  ASSUME Safe, NEW t, EnterCritical(t) \/ rt_exit_critical(t)
  PROVE  StepAside /\ (k.lock \in 0 .. LockMax => k'.lock \in 0 .. LockMax)
<1>1. CASE EnterCritical(t)
  <2>1. Enter(t, "critical") /\ k.lock < LockMax /\ Go(t, Ret(rt_enter_critical(k), "EOK"), None, 0, None)
    BY <1>1 DEF EnterCritical
  <2>2. t \in Threads /\ DOMAIN th = Threads /\ th[t].at = "top" /\ KInv(k) /\ k.lock \in Nat
    BY <2>1, Entering
  <2>3. Calm(th, th') /\ k' = [k EXCEPT !.lock = @ + 1]
    BY <2>1, <2>2, GoCalm DEF Ret, rt_enter_critical
  <2>4. SameBut(k, k', {"lock"}) /\ k'.lock = k.lock + 1
    BY <2>2, <2>3 DEF SameBut, KInv, Kernel, KType, Fields
  <2> QED BY <2>1, <2>2, <2>3, <2>4, SameAside, ValsAssumption DEF StepAside, Store
<1>2. CASE rt_exit_critical(t)
  <2>1. PICK r, c : /\ Enter(t, "critical") /\ k.lock > 0 /\ c = [k EXCEPT !.lock = @ - 1]
                    /\ r = (IF c.lock = 0 THEN Resched(c, "EOK") ELSE Ret(c, "EOK")) /\ Go(t, r, "critical", 0, None)
    BY <1>2 DEF rt_exit_critical
  <2>2. t \in Threads /\ DOMAIN th = Threads /\ th[t].at = "top" /\ KInv(k) /\ k.lock \in Nat
    BY <2>1, Entering
  <2>3. r.k = c /\ r.at \in {"top", "resched"}
    BY <2>1 DEF Ret, Resched
  <2>4. Calm(th, th') /\ k' = c
    BY <2>1, <2>2, <2>3, GoCalm
  <2>5. SameBut(k, k', {"lock"}) /\ k'.lock = k.lock - 1
    BY <2>1, <2>2, <2>4 DEF SameBut, KInv, Kernel, KType, Fields
  <2> QED BY <2>1, <2>2, <2>4, <2>5, SameAside, ValsAssumption DEF StepAside, Store
<1> QED BY <1>1, <1>2

\* A call on the semaphore or the event object.
LEMMA CallAside ==
  ASSUME NEW t \in Threads, NEW r, NEW o, NEW n, NEW arg, Go(t, r, o, n, arg), DOMAIN th = Threads,
         th[t].at # "copy", r.at # "copy", o \notin {"mb_send", "mq_send"}, Aside(k, r.k)
  PROVE  StepAside
BY GoCalm DEF StepAside

\* The semaphore.
LEMMA SemAside ==
  ASSUME Safe, NEW t, SemTake(t) \/ SemWoken(t) \/ SemRelease(t) \/ SemControl(t)
  PROVE  StepAside
<1>0. k.sem \in Nat /\ DOMAIN th = Threads /\ {"sem"} \subseteq Objects \ Store
  BY DEF Safe, System, Base, Objects, Store
<1>1. CASE SemTake(t)
  <2>1. PICK n \in load.to : Enter(t, "sem_take") /\ Go(t, _rt_sem_take(k, t, n), "sem_take", n, None)
    BY <1>1 DEF SemTake
  <2>2. /\ t \in Threads /\ th[t].at = "top" /\ KInv(k) /\ n \in Int /\ t = k.cur /\ k.cur \in Threads
        /\ k.stat[k.cur] = "running"
    BY <2>1, Entering
  <2>3. PICK r : r = _rt_sem_take(k, t, n)
    OBVIOUS
  <2>4. Section(k, r, "sem_take", {}, {"sem"}) /\ r.at # "copy"
    BY <1>0, <2>2, <2>3, SemTaken
  <2>5. Aside(k, r.k)
    BY <1>0, <2>4, SectionAside
  <2> QED BY <1>0, <2>1, <2>2, <2>3, <2>4, <2>5, CallAside
<1>2. CASE SemWoken(t)
  <2>1. Woken(t, "sem_take") /\ Go(t, Ret(k, k.err[t]), None, 0, None)
    BY <1>2 DEF SemWoken
  <2>2. t \in Threads /\ th[t].at = "woken"
    BY <2>1, Waking
  <2>3. Ret(k, k.err[t]).at = "top" /\ Ret(k, k.err[t]).k = k
    BY DEF Ret
  <2>4. Aside(k, k)
    BY SchedFrames, NoneAside
  <2> QED BY <1>0, <2>1, <2>2, <2>3, <2>4, CallAside DEF None
<1>3. CASE SemRelease(t)
  <2>1. Enter(t, "sem_release") /\ Go(t, rt_sem_release(k), "sem_release", 0, None)
    BY <1>3 DEF SemRelease
  <2>2. t \in Threads /\ th[t].at = "top" /\ KInv(k)
    BY <2>1, Entering
  <2>3. PICK r : r = rt_sem_release(k)
    OBVIOUS
  <2>4. Section(k, r, "sem_release", InWait(k, "sem"), {"sem"}) /\ r.at # "copy"
    BY <1>0, <2>2, <2>3, SemReleased
  <2>5. Aside(k, r.k)
    BY <1>0, <2>4, SectionAside
  <2> QED BY <1>0, <2>1, <2>2, <2>3, <2>4, <2>5, CallAside
<1>4. CASE SemControl(t)
  <2>1. Enter(t, "sem_control") /\ Go(t, rt_sem_control(k, 0), "sem_control", 0, None)
    BY <1>4 DEF SemControl
  <2>2. t \in Threads /\ th[t].at = "top" /\ KInv(k)
    BY <2>1, Entering
  <2>3. PICK r : r = rt_sem_control(k, 0)
    OBVIOUS
  <2>4. Section(k, r, "sem_control", {}, {"sem"}) /\ r.at = "resched"
    BY <2>2, <2>3, SemEventReset
  <2>5. Aside(k, r.k)
    BY <1>0, <2>4, SectionAside
  <2> QED BY <1>0, <2>1, <2>2, <2>3, <2>4, <2>5, CallAside
<1> QED BY <1>1, <1>2, <1>3, <1>4

\* The event object.
LEMMA EventAside ==
  ASSUME Safe, NEW t, EventSend(t) \/ EventRecv(t) \/ EventWoken(t) \/ EventControl(t)
  PROVE  StepAside
<1>0. DOMAIN th = Threads /\ EvWait \subseteq Objects \ Store /\ EvFields \subseteq Objects \ Store
      /\ {"ev"} \subseteq Objects \ Store
  BY DEF Safe, System, Base, Objects, Store, EvWait, EvFields
<1>1. CASE EventSend(t)
  <2>1. PICK set : Enter(t, "event_send") /\ Go(t, rt_event_send(k, set), "event_send", 0, None)
    BY <1>1 DEF EventSend
  <2>2. t \in Threads /\ th[t].at = "top" /\ KInv(k)
    BY <2>1, Entering
  <2>3. PICK r : r = rt_event_send(k, set)
    OBVIOUS
  <2>4. Section(k, r, "event_send", InWait(k, "ev"), EvFields) /\ r.at # "copy"
    BY <2>2, <2>3, EventSent
  <2>5. Aside(k, r.k)
    BY <1>0, <2>4, SectionAside
  <2> QED BY <1>0, <2>1, <2>2, <2>3, <2>4, <2>5, CallAside
<1>2. CASE EventRecv(t)
  <2>1. PICK set, opt, n : /\ n \in load.to /\ Enter(t, "event_recv")
          /\ Go(t, _rt_event_recv([k EXCEPT !.err[t] = "EINTR"], t, set, opt, n), "event_recv", n, None)
    BY <1>2 DEF EventRecv
  <2>2. /\ t \in Threads /\ th[t].at = "top" /\ KInv(k) /\ n \in Int /\ t = k.cur /\ k.cur \in Threads
        /\ k.stat[k.cur] = "running"
    BY <2>1, Entering
  <2>3. PICK c, r : c = [k EXCEPT !.err[t] = "EINTR"] /\ r = _rt_event_recv(c, t, set, opt, n)
    OBVIOUS
  <2>4. Preset(k, c)
    BY <2>2, <2>3, PresetMade DEF Errors
  <2>5. KInv(c) /\ c.cur = k.cur /\ c.stat = k.stat
    BY <2>2, <2>4, PresetFacts
  <2>6. PICK b : Preset(c, b) /\ Section(b, r, "event_recv", {}, EvWait) /\ r.at \in {"top", "block"}
    BY <2>2, <2>3, <2>5, EventReceived
  <2>7. Aside(k, c) /\ Aside(c, b) /\ Aside(b, r.k)
    BY <1>0, <2>4, <2>6, PresetFrame, NoneAside, SectionAside
  <2>8. Aside(k, r.k)
    BY <2>7, AsideTrans
  <2> QED BY <1>0, <2>1, <2>2, <2>3, <2>6, <2>8, CallAside
<1>3. CASE EventWoken(t)
  <2>1. PICK r : /\ Woken(t, "event_recv") /\ Go(t, r, None, 0, None) /\ r.at = "top"
                 /\ r.k = [k EXCEPT !.evset[t] = {}, !.evinfo[t] = NoOption]
    BY <1>3 DEF EventWoken, Ret
  <2>2. t \in Threads /\ th[t].at = "woken" /\ KInv(k)
    BY <2>1, Waking
  <2>3. SameBut(k, r.k, {"evset", "evinfo"})
    BY <2>1, <2>2 DEF SameBut, KInv, Kernel, KType, Fields
  <2>4. Aside(k, r.k)
    BY <2>3, SameAside DEF Store
  <2> QED BY <1>0, <2>1, <2>2, <2>4, CallAside DEF None
<1>4. CASE EventControl(t)
  <2>1. Enter(t, "event_control") /\ Go(t, rt_event_control(k), "event_control", 0, None)
    BY <1>4 DEF EventControl
  <2>2. t \in Threads /\ th[t].at = "top" /\ KInv(k)
    BY <2>1, Entering
  <2>3. PICK r : r = rt_event_control(k)
    OBVIOUS
  <2>4. Section(k, r, "event_control", {}, {"ev"}) /\ r.at = "resched"
    BY <2>2, <2>3, SemEventReset
  <2>5. Aside(k, r.k)
    BY <1>0, <2>4, SectionAside
  <2> QED BY <1>0, <2>1, <2>2, <2>3, <2>4, <2>5, CallAside
<1> QED BY <1>1, <1>2, <1>3, <1>4

\* The idle thread frees a thread.
LEMMA ReapAside ==
  ASSUME Safe, Reap
  PROVE  StepAside
<1>1. Base(load, k, th) /\ KInv(k) /\ k.init \in [Threads -> Prios] /\ DOMAIN th = Threads
  BY SMTT(30) DEF Safe, System, Base
<1>2. PICK t : /\ t = Head(k.wait["defunct"]) /\ k.wait["defunct"] # << >> /\ k' = Reaping(k, t)
               /\ th' = Moved(th, t, Top)
  BY DEF Reap, Reaping, Moved
<1>3. IsList(Threads, k.wait["defunct"]) /\ "defunct" \in Lists
  BY <1>1 DEF KInv, Kernel, WaitOK, Lists, WaitLists
<1>4. t \in Threads /\ InList(t, k.wait["defunct"])
  BY <1>2, <1>3, EmptyFacts DEF IsList
<1>5. k.stat[t] = "close"
  BY <1>1, <1>3, <1>4 DEF KInv, Kernel, WaitOK
<1>6. SameBut(k, k', {"ready", "wait", "stat", "yld", "prio", "slice", "err", "pend", "taken"})
  BY <1>1, <1>2, <1>4, <1>5, Reaped
<1>7. Aside(k, k')
  BY <1>6, SameAside DEF Store
<1>8. th[t].at \in {"resched", "top"}
  BY <1>1, <1>4, <1>5 DEF Base, Own
<1>9. Goes(th, th', t, Top)
  BY <1>1, <1>2, <1>4, AfterGoes
<1>10. Calm(th, th')
  BY <1>4, <1>8, <1>9, GoesCalm DEF Top
<1> QED BY <1>7, <1>10 DEF StepAside

\* The tick leaves the objects alone and only wakes threads.
LEMMA TickGentle ==
  ASSUME NEW l, NEW c, NEW h, System(l, c, h), NEW d, d = rt_tick_increase(c), NEW t, NEW W
  PROVE  Keeps(c, d, {}) /\ Gentle(c, d, t, W)
<1>2. Base(l, c, h) /\ DOMAIN c = Fields
  BY DEF System, Base, KInv, Kernel, KType
<1>3. PICK a : a = [c EXCEPT !.timer = Sooner(@)]
  OBVIOUS
<1>4. SameBut(c, a, {"timer"}) /\ a.timer = Sooner(c.timer) /\ a.cur = c.cur /\ a.slice = c.slice
  BY <1>2, <1>3 DEF SameBut, Fields
<1>5. Base(l, a, h) /\ Keeps(c, a, {}) /\ Gentle(c, a, t, W)
  <2>1. Base(l, a, h)
    BY <1>2, <1>4, ForwardBase
  <2>2. Keeps(c, a, {})
    BY <1>3, AssignFrames
  <2>3. {"timer"} \cap {"stat", "err", "wait"} = {}
    OBVIOUS
  <2>4. Gentle(c, a, t, W)
    BY <1>4, <2>3, SameGentle
  <2> QED BY <2>1, <2>2, <2>4
<1>6. PICK b : b = Sliced(a, a.cur)
  OBVIOUS
<1>7. Base(l, b, h)
  BY <1>5, <1>6, SliceTicked
<1>8. Keeps(a, b, {}) /\ Gentle(a, b, t, W)
  <2>1. KInv(a) /\ a.cur \in Threads /\ a.stat[Idle] \in {"ready", "running"} /\ DOMAIN a = Fields
    BY <1>5 DEF Base, KInv, Kernel, KType
  <2>2. CASE a.slice[a.cur] > 1
    <3>1. b = [a EXCEPT !.slice[a.cur] = a.slice[a.cur] - 1]
      BY <1>6, <2>2 DEF Sliced, Spent
    <3>2. Keeps(a, b, {})
      BY <3>1, AssignFrames
    <3>3. SameBut(a, b, {"slice"}) /\ {"slice"} \cap {"stat", "err", "wait"} = {}
      BY <2>1, <3>1 DEF SameBut, Fields
    <3> QED BY <3>2, <3>3, SameGentle
  <2>3. CASE ~(a.slice[a.cur] > 1)
    <3>1. b = rt_schedule(Yielding(a, a.cur))
      BY <1>6, <2>3 DEF Sliced
    <3>2. PICK y : y = Yielding(a, a.cur)
      OBVIOUS
    <3>3. Wakes(a, y, {}, {}) /\ y.cur = a.cur
      BY <2>1, <3>2, Yielded
    <3>4. Wakes(a, b, {}, {})
      BY <2>1, <3>1, <3>2, <3>3, WakesSched
    <3> QED BY <3>4, WakesFrame, WakesGentle
  <2> QED BY <2>2, <2>3
<1>9. d = rt_timer_check(b)
  BY <1>3, <1>4, <1>6 DEF rt_tick_increase, Sliced, Spent, Yielding, Sooner
<1>10. KInv(b) /\ b.cur \in Threads /\ b.stat[Idle] \in {"ready", "running"}
  BY <1>7 DEF Base
<1>11. \E i : Ticked(b, i, d)
  BY <1>9, <1>10, TimersChecked
<1>12. Wakes(b, d, {}, {})
  BY <1>11 DEF Ticked
<1>13. Keeps(b, d, {}) /\ Gentle(b, d, t, W)
  BY <1>12, WakesFrame, WakesGentle
<1>14. Keeps(c, d, {})
  <2>1. Keeps(c, b, {})
    BY <1>5, <1>8, KeepsTrans
  <2> QED BY <1>13, <2>1, KeepsTrans
<1>15. Gentle(c, d, t, W)
  <2>1. W \cup W = W
    OBVIOUS
  <2>2. Gentle(c, b, t, W)
    BY <1>5, <1>8, <2>1, GentleTrans
  <2> QED BY <1>13, <2>1, <2>2, GentleTrans
<1> QED BY <1>14, <1>15

\* The tick.
LEMMA TickAside ==
  ASSUME Safe, Tick
  PROVE  StepAside /\ Gentle(k, k', None, {}) /\ Keeps(k, k', {})
         /\ \A u \in Threads : \A f \in {"at", "op", "to", "arg", "slot"} : th'[u][f] = th[u][f]
<1>1. System(load, k, th) /\ k' = rt_tick_increase(k)
  BY DEF Safe, Tick
<1>2. Keeps(k, k', {}) /\ Gentle(k, k', None, {})
  BY <1>1, TickGentle
<1>3. ASSUME NEW u \in Threads, NEW f \in {"at", "op", "to", "arg", "slot"} PROVE th'[u][f] = th[u][f]
  <2>1. DOMAIN th[u] = {"at", "op", "to", "el", "arg", "slot"}
    BY <1>1 DEF System, Base, Own
  <2>2. PICK x : th'[u] = th[u] \/ th'[u] = [th[u] EXCEPT !.el = x]
    BY DEF Tick
  <2> QED BY <2>1, <2>2
<1>4. Calm(th, th')
  BY <1>3 DEF Calm, SameCopies, Copies, Tagged
<1> QED BY <1>2, <1>3, <1>4, NoneAside DEF StepAside

\* Nobody goes on.
LEMMA SameCalm ==
  ASSUME th' = th
  PROVE  Calm(th, th')
BY DEF Calm, SameCopies, Copies

\* An interrupt handler that releases the semaphore or sends an event.
LEMMA IsrAside ==
  ASSUME Safe, \/ Handler("sem_release", rt_sem_release(k))
               \/ \E set \in SUBSET Bits \ {{}} : Handler("event_send", rt_event_send(k, set))
  PROVE  StepAside
<1>1. KInv(k) /\ k.sem \in Nat
  BY DEF Safe, System, Base
<1>2. {"sem"} \subseteq Objects \ Store /\ EvFields \subseteq Objects \ Store
  BY DEF Objects, Store, EvFields
<1>3. PICK r, q : Handler(q, r) /\ Aside(k, r.k)
  <2>1. CASE Handler("sem_release", rt_sem_release(k))
    <3>1. PICK r : r = rt_sem_release(k)
      OBVIOUS
    <3>2. Section(k, r, "sem_release", InWait(k, "sem"), {"sem"})
      BY <1>1, <3>1, SemReleased
    <3> QED BY <1>2, <2>1, <3>1, <3>2, SectionAside
  <2>2. CASE \E set \in SUBSET Bits \ {{}} : Handler("event_send", rt_event_send(k, set))
    <3>1. PICK set, r : r = rt_event_send(k, set) /\ Handler("event_send", r)
      BY <2>2
    <3>2. Section(k, r, "event_send", InWait(k, "ev"), EvFields)
      BY <1>1, <3>1, EventSent
    <3> QED BY <1>2, <3>1, <3>2, SectionAside
  <2> QED BY <2>1, <2>2
<1>4. th' = th /\ (k' = rt_schedule(r.k) \/ k' = r.k)
  BY <1>3 DEF Handler
<1>5. Aside(k, k')
  BY <1>3, <1>4, ScheduleFrame, NoneAside, AsideTrans
<1> QED BY <1>4, <1>5, SameCalm DEF StepAside

-----------------------------------------------------------------------------
(***************************************************************************)
(* The sections of the mailbox.                                            *)
(***************************************************************************)

\* What a section does to the mails: nothing, a mail is put last or first, the
\* first is taken out as value x, or all are thrown away.
Put(b, d, V) == \E v \in V : Mails(d) = Append(Mails(b), v) /\ Len(Mails(b)) < MbSize
First(b, d, V) == \E v \in V : Mails(d) = <<v>> \o Mails(b) /\ Len(Mails(b)) < MbSize
Out(b, d, x) == Mails(b) # << >> /\ x = Head(Mails(b)) /\ Mails(d) = Tail(Mails(b)) /\ x # None

\* _rt_mb_send_wait.
LEMMA MbSent ==
  ASSUME NEW c, DOMAIN c = Fields, MbOK(c.mb), NEW t, NEW v \in Vals, NEW n, NEW r, r = _rt_mb_send_wait(c, t, v, n)
  PROVE  /\ MbOK(r.k.mb) /\ (r.k.mb = c.mb \/ Put(c.mb, r.k.mb, Vals)) /\ Keeps(c, r.k, {"mb"})
         /\ r.at # "copy" /\ r.val = None
<1>1. CASE c.mb.entry = MbSize
  <2>1. \/ r = Ret(c, "EFULL") \/ r = suspend_on(c, t, "mb_send", n)
    BY <1>1 DEF _rt_mb_send_wait
  <2>2. Keeps(c, r.k, {}) /\ r.at # "copy" /\ r.val = None
    BY <2>1, IpcFrames
  <2>3. r.k.mb = c.mb
    BY <2>2 DEF Keeps, Outer
  <2> QED BY <2>2, <2>3, KeepsMore
<1>2. CASE c.mb.entry # MbSize
  <2>1. PICK b : b = [c EXCEPT !.mb.pool[c.mb.in] = v,
                          !.mb.in = IF @ + 1 >= MbSize THEN 0 ELSE @ + 1, !.mb.entry = @ + 1]
    OBVIOUS
  <2>2. r = finish(b, "mb_recv", None)
    BY <1>2, <2>1 DEF _rt_mb_send_wait
  <2>3. Keeps(b, r.k, {}) /\ r.at # "copy" /\ r.val = None
    BY <2>2, IpcFrames
  <2>4. DOMAIN c.mb = {"pool", "in", "out", "entry"}
    BY DEF MbOK
  <2>5. /\ DOMAIN b = Fields /\ \A f \in Fields \ {"mb"} : b[f] = c[f]
        /\ DOMAIN b.mb = DOMAIN c.mb /\ b.mb.pool = [c.mb.pool EXCEPT ![c.mb.in] = v]
        /\ b.mb.in = (IF c.mb.in + 1 >= MbSize THEN 0 ELSE c.mb.in + 1)
        /\ b.mb.out = c.mb.out /\ b.mb.entry = c.mb.entry + 1
    BY <2>1, <2>4 DEF Fields
  <2>6. r.k.mb = b.mb
    BY <2>3, <2>5 DEF Keeps, Outer
  <2>7. v \in Mailed
    BY DEF Mailed
  <2>8. MbOK(b.mb) /\ Mails(b.mb) = Append(Mails(c.mb), v) /\ Len(Mails(c.mb)) < MbSize
    BY <1>2, <2>5, <2>7, MailPut
  <2>9. Keeps(c, b, {"mb"})
    BY <2>5 DEF Keeps, Outer, Fields
  <2>10. Keeps(c, r.k, {"mb"})
    BY <2>3, <2>9, KeepsTrans
  <2> QED BY <2>3, <2>6, <2>8, <2>10 DEF Put
<1> QED BY <1>1, <1>2

\* rt_mb_urgent.
LEMMA MbUrged ==
  ASSUME NEW c, DOMAIN c = Fields, MbOK(c.mb), NEW v \in Alarms, NEW r, r = rt_mb_urgent(c, v)
  PROVE  /\ MbOK(r.k.mb) /\ (r.k.mb = c.mb \/ First(c.mb, r.k.mb, Alarms)) /\ Keeps(c, r.k, {"mb"})
         /\ r.at \in {"top", "resched"} /\ r.val = None
<1>1. CASE c.mb.entry = MbSize
  <2>1. r = Ret(c, "EFULL")
    BY <1>1 DEF rt_mb_urgent
  <2>2. Keeps(c, r.k, {}) /\ r.at = "top" /\ r.val = None
    BY <2>1, IpcFrames
  <2>3. r.k.mb = c.mb
    BY <2>2 DEF Keeps, Outer
  <2> QED BY <2>2, <2>3, KeepsMore
<1>2. CASE c.mb.entry # MbSize
  <2>1. PICK o, b : /\ o = (IF c.mb.out > 0 THEN c.mb.out - 1 ELSE MbSize - 1)
                    /\ b = [c EXCEPT !.mb.pool[o] = v, !.mb.out = o, !.mb.entry = @ + 1]
    OBVIOUS
  <2>2. r = finish(b, "mb_recv", None)
    BY <1>2, <2>1 DEF rt_mb_urgent
  <2>3. Keeps(b, r.k, {}) /\ r.at \in {"top", "resched"} /\ r.val = None
    BY <2>2, IpcFrames
  <2>4. DOMAIN c.mb = {"pool", "in", "out", "entry"}
    BY DEF MbOK
  <2>5. /\ DOMAIN b = Fields /\ \A f \in Fields \ {"mb"} : b[f] = c[f]
        /\ DOMAIN b.mb = DOMAIN c.mb /\ b.mb.pool = [c.mb.pool EXCEPT ![o] = v]
        /\ b.mb.in = c.mb.in /\ b.mb.out = o /\ b.mb.entry = c.mb.entry + 1
    BY <2>1, <2>4 DEF Fields
  <2>6. r.k.mb = b.mb
    BY <2>3, <2>5 DEF Keeps, Outer
  <2>7. v \in Mailed
    BY DEF Mailed
  <2>8. MbOK(b.mb) /\ Mails(b.mb) = <<v>> \o Mails(c.mb) /\ Len(Mails(c.mb)) < MbSize
    <3>1. PICK p, q : p = c.mb /\ q = b.mb
      OBVIOUS
    <3>2. o = (IF p.out > 0 THEN p.out - 1 ELSE MbSize - 1)
      BY <2>1, <3>1
    <3>3. /\ MbOK(p) /\ p.entry # MbSize /\ DOMAIN q = DOMAIN p /\ q.pool = [p.pool EXCEPT ![o] = v]
          /\ q.in = p.in /\ q.out = o /\ q.entry = p.entry + 1
      BY <1>2, <2>5, <3>1
    <3>4. MbOK(q) /\ Mails(q) = <<v>> \o Mails(p) /\ Len(Mails(p)) < MbSize
      BY ONLY <2>7, <3>2, <3>3, MailFirst
    <3> QED BY <3>1, <3>4
  <2>9. Keeps(c, b, {"mb"})
    BY <2>5 DEF Keeps, Outer, Fields
  <2>10. Keeps(c, r.k, {"mb"})
    BY <2>3, <2>9, KeepsTrans
  <2> QED BY <2>3, <2>6, <2>8, <2>10 DEF First
<1> QED BY <1>1, <1>2

\* _rt_mb_recv.
LEMMA MbGot ==
  ASSUME NEW c, DOMAIN c = Fields, MbOK(c.mb), NEW t, NEW n, NEW r, r = _rt_mb_recv(c, t, n)
  PROVE  /\ MbOK(r.k.mb) /\ ((r.k.mb = c.mb /\ r.val = None) \/ Out(c.mb, r.k.mb, r.val)) /\ Keeps(c, r.k, {"mb"})
         /\ r.at # "copy"
<1>1. CASE c.mb.entry = 0
  <2>1. \/ r = Ret(c, "ETIMEOUT") \/ r = suspend_on(c, t, "mb_recv", n)
    BY <1>1 DEF _rt_mb_recv
  <2>2. Keeps(c, r.k, {}) /\ r.at # "copy" /\ r.val = None
    BY <2>1, IpcFrames
  <2>3. r.k.mb = c.mb
    BY <2>2 DEF Keeps, Outer
  <2> QED BY <2>2, <2>3, KeepsMore
<1>2. CASE c.mb.entry # 0
  <2>1. PICK b : b = [c EXCEPT !.mb.out = IF @ + 1 >= MbSize THEN 0 ELSE @ + 1, !.mb.entry = @ - 1]
    OBVIOUS
  <2>2. r = finish(b, "mb_send", c.mb.pool[c.mb.out])
    BY <1>2, <2>1 DEF _rt_mb_recv
  <2>3. Keeps(b, r.k, {}) /\ r.at # "copy" /\ r.val = c.mb.pool[c.mb.out]
    BY <2>2, IpcFrames
  <2>4. DOMAIN c.mb = {"pool", "in", "out", "entry"}
    BY DEF MbOK
  <2>5. /\ DOMAIN b = Fields /\ \A f \in Fields \ {"mb"} : b[f] = c[f]
        /\ DOMAIN b.mb = DOMAIN c.mb /\ b.mb.pool = c.mb.pool /\ b.mb.in = c.mb.in
        /\ b.mb.out = (IF c.mb.out + 1 >= MbSize THEN 0 ELSE c.mb.out + 1) /\ b.mb.entry = c.mb.entry - 1
    BY <2>1, <2>4 DEF Fields
  <2>6. r.k.mb = b.mb
    BY <2>3, <2>5 DEF Keeps, Outer
  <2>8. /\ MbOK(b.mb) /\ Mails(b.mb) = Tail(Mails(c.mb)) /\ Mails(c.mb) # << >>
        /\ r.val = Head(Mails(c.mb)) /\ r.val \in Mailed
    BY <1>2, <2>3, <2>5, MailGot
  <2>9. Keeps(c, b, {"mb"})
    BY <2>5 DEF Keeps, Outer, Fields
  <2>10. Keeps(c, r.k, {"mb"})
    BY <2>3, <2>9, KeepsTrans
  <2>11. r.val # None
    BY <2>8, ValsAssumption DEF Mailed
  <2> QED BY <2>3, <2>6, <2>8, <2>10, <2>11 DEF Out
<1> QED BY <1>1, <1>2

\* rt_mb_control.
LEMMA MbReset ==
  ASSUME NEW c, KInv(c), MbOK(c.mb), NEW r, r = rt_mb_control(c)
  PROVE  /\ MbOK(r.k.mb) /\ Mails(r.k.mb) = << >> /\ Keeps(c, r.k, {"mb"}) /\ r.at = "resched" /\ r.val = None
<1>1. PICK a, b : a = _ipc_list_resume_all(c, "mb_recv") /\ b = _ipc_list_resume_all(a, "mb_send")
  OBVIOUS
<1>2. "mb_recv" \in Lists /\ "mb_send" \in Lists
  BY DEF Lists, WaitLists
<1>3. Wakes(c, a, {}, {})
  BY <1>1, <1>2, AllResumed
<1>4. Wakes(a, b, {}, {})
  BY <1>1, <1>2, <1>3, AllResumed DEF Wakes
<1>5. Keeps(c, a, {}) /\ Keeps(a, b, {})
  BY <1>3, <1>4, WakesFrame
<1>6. DOMAIN c = Fields /\ DOMAIN b = Fields /\ b.mb = c.mb
  <2>1. DOMAIN c = Fields
    BY DEF KInv, Kernel, KType
  <2> QED BY <1>5, <2>1 DEF Keeps, Outer
<1>7. r.k = [b EXCEPT !.mb.entry = 0, !.mb.in = 0, !.mb.out = 0] /\ r.at = "resched" /\ r.val = None
  BY <1>1 DEF rt_mb_control, Resched
<1>8. DOMAIN c.mb = {"pool", "in", "out", "entry"}
  BY DEF MbOK
<1>9. /\ DOMAIN r.k = Fields /\ \A f \in Fields \ {"mb"} : r.k[f] = b[f]
      /\ DOMAIN r.k.mb = DOMAIN c.mb /\ r.k.mb.pool = c.mb.pool /\ r.k.mb.in = 0 /\ r.k.mb.out = 0
      /\ r.k.mb.entry = 0
  <2>1. PICK d : d = r.k
    OBVIOUS
  <2>2. d = [b EXCEPT !.mb.entry = 0, !.mb.in = 0, !.mb.out = 0]
    BY <1>7, <2>1
  <2>3. DOMAIN b = Fields /\ DOMAIN b.mb = {"pool", "in", "out", "entry"}
    BY <1>6, <1>8
  <2>4. /\ DOMAIN d = Fields /\ \A f \in Fields \ {"mb"} : d[f] = b[f]
        /\ DOMAIN d.mb = DOMAIN b.mb /\ d.mb.pool = b.mb.pool /\ d.mb.in = 0 /\ d.mb.out = 0
        /\ d.mb.entry = 0
    BY ONLY <2>2, <2>3 DEF Fields
  <2> QED BY <1>6, <2>1, <2>4
<1>10. MbOK(r.k.mb) /\ Mails(r.k.mb) = << >>
  BY <1>9, MailNone
<1>11. Keeps(b, r.k, {"mb"})
  BY <1>9 DEF Keeps, Outer, Fields
<1>12. Keeps(c, b, {})
  BY <1>5, KeepsTrans
<1>13. Keeps(c, r.k, {"mb"})
  BY <1>11, <1>12, KeepsTrans
<1> QED BY <1>7, <1>10, <1>13

-----------------------------------------------------------------------------
(***************************************************************************)
(* What a step does to the mailbox, the message queue and the memory pool. *)
(***************************************************************************)

\* A bounded queue goes from A to B; x and y are the items last taken out.
Moves(A, B, x, y, n) ==
  \/ B = A /\ y = x
  \/ B = << >> /\ y = x
  \/ A # << >> /\ y = Head(A) /\ B = Tail(A)
  \/ Len(A) < n /\ y = x /\ \E v \in Vals : B = Append(A, v)
  \/ Len(A) < n /\ y = x /\ \E v \in Alarms : B = <<v>> \o A

\* The messages in the queue.
Msgs(q) == Texts(q.val, Chain(q.next, q.head))

MailMove == MbOK(k'.mb) /\ Moves(Mails(k.mb), Mails(k'.mb), got.mail, got'.mail, MbSize)
MsgMove ==
  /\ MqOK(k'.mq, th') /\ \A t \in Threads : Tagged(th'[t])
  /\ Moves(Msgs(k.mq), Msgs(k'.mq), got.msg, got'.msg, MqSize)
PoolMove == MpOK(k'.mp, got'.blk)

GotFields == {"bal", "mtx", "blk", "mail", "msg"}
GotSame(F) == DOMAIN got' = GotFields /\ \A f \in GotFields \ F : got'[f] = got[f]

\* The mailbox holds mails, the message queue messages, and no slot or block
\* is lost or used twice.
Stocked ==
  /\ MbOK(k.mb) /\ MqOK(k.mq, th) /\ MpOK(k.mp, got.blk) /\ DOMAIN got = GotFields
  /\ \A t \in Threads : Tagged(th[t])
Shift == MailMove /\ MsgMove /\ PoolMove /\ DOMAIN got' = GotFields

\* The message queue in a step of the others.
LEMMA MsgsAside ==
  ASSUME Stocked, k'.mq = k.mq, Calm(th, th'), got'.msg = got.msg
  PROVE  MsgMove
<1>1. PICK Q, R : SlotUse(k.mq, th, Q, R) /\ Covered(th, Q, R)
  BY DEF Stocked, MqOK
<1>2. SameCopies(th, th')
  BY DEF Calm
<1>3. SlotUse(k.mq, th', Q, R) /\ Covered(th', Q, R)
  <2>1. \A t \in Threads : Copies(th', t) => Copies(th, t) /\ th'[t].slot = th[t].slot
    BY <1>2 DEF SameCopies
  <2> QED BY <1>1, <1>2, <2>1, SlotsSame
<1>4. MqOK(k'.mq, th')
  BY <1>3 DEF MqOK, Stocked
<1>5. \A t \in Threads : Tagged(th'[t])
  BY DEF Calm, Stocked
<1> QED BY <1>4, <1>5 DEF MsgMove, Moves

\* A step that leaves them all aside.
LEMMA AsideShift ==
  ASSUME Safe, Stocked, StepAside, GotSame({"bal"})
  PROVE  Shift
<1>1. DOMAIN k = Fields
  BY DEF Safe, System, Base, KInv, Kernel, KType
<1>2. k'.mb = k.mb /\ k'.mq = k.mq /\ k'.mp = k.mp
  BY <1>1 DEF StepAside, Aside, Keeps, Outer, Store
<1>3. got'.mail = got.mail /\ got'.msg = got.msg /\ got'.blk = got.blk
  BY DEF GotSame, GotFields
<1>4. MsgMove
  BY <1>2, <1>3, MsgsAside DEF StepAside
<1> QED BY <1>2, <1>3, <1>4 DEF Shift, MailMove, PoolMove, Moves, Stocked, GotSame

\* A call on the mailbox.
LEMMA MailShift ==
  ASSUME Safe, Stocked, Keeps(k, k', {"mb"}), Calm(th, th'), GotSame({"mail"}), MbOK(k'.mb),
         Moves(Mails(k.mb), Mails(k'.mb), got.mail, got'.mail, MbSize)
  PROVE  Shift
<1>1. DOMAIN k = Fields
  BY DEF Safe, System, Base, KInv, Kernel, KType
<1>2. k'.mq = k.mq /\ k'.mp = k.mp
  BY <1>1 DEF Keeps, Outer
<1>3. got'.msg = got.msg /\ got'.blk = got.blk
  BY DEF GotSame, GotFields
<1>4. MsgMove
  BY <1>2, <1>3, MsgsAside
<1> QED BY <1>2, <1>3, <1>4 DEF Shift, MailMove, PoolMove, Stocked, GotSame

\* got stays.
LEMMA GotStays ==
  ASSUME Stocked, got' = got, NEW F
  PROVE  GotSame(F)
BY DEF GotSame, Stocked

\* A mail is sent, or is to be sent.
LEMMA SendShift ==
  ASSUME Safe, Stocked, NEW t \in Threads, th[t].at # "copy", NEW v \in Vals, NEW n, NEW m,
         NEW r, r = _rt_mb_send_wait(k, t, v, n), Go(t, r, "mb_send", m, v), got' = got
  PROVE  Shift
<1>1. DOMAIN k = Fields /\ DOMAIN th = Threads /\ MbOK(k.mb)
  BY DEF Safe, System, Base, KInv, Kernel, KType, Stocked
<1>2. /\ MbOK(r.k.mb) /\ (r.k.mb = k.mb \/ Put(k.mb, r.k.mb, Vals)) /\ Keeps(k, r.k, {"mb"})
      /\ r.at # "copy" /\ r.val = None
  BY <1>1, MbSent
<1>3. Calm(th, th') /\ k' = r.k
  BY <1>1, <1>2, GoCalm
<1>4. Moves(Mails(k.mb), Mails(k'.mb), got.mail, got'.mail, MbSize)
  BY <1>2, <1>3 DEF Moves, Put
<1> QED BY <1>2, <1>3, <1>4, MailShift, GotStays

\* A call that returns or fails at once.
LEMMA ReturnShift ==
  ASSUME Safe, Stocked, NEW t \in Threads, th[t].at # "copy", NEW x, NEW o, NEW n, NEW arg,
         NEW r, r = Ret(k, x), Go(t, r, o, n, arg), got' = got
  PROVE  Shift
<1>1. DOMAIN th = Threads /\ r.at = "top" /\ r.k = k
  BY DEF Safe, System, Base, Ret
<1>2. Calm(th, th') /\ k' = r.k
  BY <1>1, GoCalm
<1>3. Aside(k, k')
  BY <1>1, <1>2, SchedFrames, NoneAside
<1> QED BY <1>2, <1>3, AsideShift, GotStays DEF StepAside

\* A mail is received, or is to be received.
LEMMA RecvShift ==
  ASSUME Safe, Stocked, NEW t \in Threads, th[t].at # "copy", NEW n, NEW m,
         NEW r, r = _rt_mb_recv(k, t, n), Go(t, r, "mb_recv", m, None), Mail(r)
  PROVE  Shift
<1>1. DOMAIN k = Fields /\ DOMAIN th = Threads /\ MbOK(k.mb) /\ DOMAIN got = GotFields
  BY DEF Safe, System, Base, KInv, Kernel, KType, Stocked
<1>2. /\ MbOK(r.k.mb) /\ ((r.k.mb = k.mb /\ r.val = None) \/ Out(k.mb, r.k.mb, r.val)) /\ Keeps(k, r.k, {"mb"})
      /\ r.at # "copy"
  BY <1>1, MbGot
<1>3. Calm(th, th') /\ k' = r.k
  BY <1>1, <1>2, GoCalm
<1>4. CASE r.k.mb = k.mb /\ r.val = None
  <2>1. got' = got
    BY <1>4 DEF Mail
  <2>2. Moves(Mails(k.mb), Mails(k'.mb), got.mail, got'.mail, MbSize)
    BY <1>3, <1>4, <2>1 DEF Moves
  <2> QED BY <1>2, <1>3, <2>1, <2>2, MailShift, GotStays
<1>5. CASE Out(k.mb, r.k.mb, r.val)
  <2>1. got' = [got EXCEPT !.mail = r.val]
    BY <1>5 DEF Mail, Out
  <2>2. GotSame({"mail"}) /\ got'.mail = r.val
    BY <1>1, <2>1 DEF GotSame, GotFields
  <2>3. Moves(Mails(k.mb), Mails(k'.mb), got.mail, got'.mail, MbSize)
    BY <1>3, <1>5, <2>2 DEF Moves, Out
  <2> QED BY <1>2, <1>3, <2>2, <2>3, MailShift
<1> QED BY <1>2, <1>4, <1>5

\* The calls on the mailbox.
LEMMA MailShifts ==
  ASSUME Safe, Stocked, NEW t, \/ MbSend(t) \/ MbSendWoken(t) \/ MbUrgent(t) \/ MbRecv(t) \/ MbRecvWoken(t)
                               \/ MbControl(t)
  PROVE  Shift
<1>1. DOMAIN k = Fields /\ DOMAIN th = Threads /\ MbOK(k.mb) /\ KInv(k)
  BY DEF Safe, System, Base, KInv, Kernel, KType, Stocked
<1>2. CASE MbSend(t)
  <2>1. PICK v, n : v \in Vals /\ Enter(t, "mb_send") /\ Go(t, _rt_mb_send_wait(k, t, v, n), "mb_send", n, v) /\ got' = got
    BY <1>2 DEF MbSend, Same
  <2>2. t \in Threads /\ th[t].at = "top"
    BY <2>1, Entering
  <2> QED BY <2>1, <2>2, SendShift
<1>3. CASE MbSendWoken(t)
  <2>1. PICK r, n : /\ Woken(t, "mb_send") /\ Go(t, r, "mb_send", n, th[t].arg) /\ got' = got
                    /\ r = (IF k.err[t] # "EOK" THEN Ret(k, k.err[t]) ELSE _rt_mb_send_wait(k, t, th[t].arg, n))
    BY <1>3 DEF MbSendWoken, Same
  <2>2. t \in Threads /\ th[t].at = "woken" /\ th[t].op = "mb_send"
    BY <2>1, Waking
  <2>3. th[t].arg \in Vals
    BY <2>2 DEF Stocked, Tagged
  <2> QED BY <2>1, <2>2, <2>3, SendShift, ReturnShift
<1>4. CASE MbUrgent(t)
  <2>1. PICK v, r : /\ v \in Alarms /\ Enter(t, "mb_urgent") /\ r = rt_mb_urgent(k, v) /\ got' = got
                    /\ Go(t, r, "mb_urgent", 0, None)
    BY <1>4 DEF MbUrgent, Same
  <2>2. t \in Threads /\ th[t].at = "top"
    BY <2>1, Entering
  <2>3. /\ MbOK(r.k.mb) /\ (r.k.mb = k.mb \/ First(k.mb, r.k.mb, Alarms)) /\ Keeps(k, r.k, {"mb"})
        /\ r.at \in {"top", "resched"}
    BY <1>1, <2>1, MbUrged
  <2>4. Calm(th, th') /\ k' = r.k
    BY <1>1, <2>1, <2>2, <2>3, GoCalm
  <2>5. Moves(Mails(k.mb), Mails(k'.mb), got.mail, got'.mail, MbSize)
    BY <2>1, <2>3, <2>4 DEF Moves, First
  <2> QED BY <2>1, <2>3, <2>4, <2>5, MailShift, GotStays
<1>5. CASE MbRecv(t)
  <2>1. PICK n, r : /\ Enter(t, "mb_recv") /\ r = _rt_mb_recv(k, t, n) /\ Go(t, r, "mb_recv", n, None)
                    /\ Mail(r)
    BY <1>5 DEF MbRecv
  <2>2. t \in Threads /\ th[t].at = "top"
    BY <2>1, Entering
  <2> QED BY <2>1, <2>2, RecvShift
<1>6. CASE MbRecvWoken(t)
  <2>1. PICK r, n : /\ Woken(t, "mb_recv") /\ Go(t, r, "mb_recv", n, None) /\ Mail(r)
                    /\ r = (IF k.err[t] # "EOK" THEN Ret(k, k.err[t]) ELSE _rt_mb_recv(k, t, n))
    BY <1>6 DEF MbRecvWoken
  <2>2. t \in Threads /\ th[t].at = "woken"
    BY <2>1, Waking
  <2>3. r = Ret(k, k.err[t]) => got' = got
    BY <2>1 DEF Mail, Ret
  <2> QED BY <2>1, <2>2, <2>3, RecvShift, ReturnShift
<1>7. CASE MbControl(t)
  <2>1. PICK r : Enter(t, "mb_control") /\ r = rt_mb_control(k) /\ Go(t, r, "mb_control", 0, None) /\ got' = got
    BY <1>7 DEF MbControl, Same
  <2>2. t \in Threads /\ th[t].at = "top"
    BY <2>1, Entering
  <2>3. MbOK(r.k.mb) /\ Mails(r.k.mb) = << >> /\ Keeps(k, r.k, {"mb"}) /\ r.at = "resched"
    BY <1>1, <2>1, MbReset
  <2>4. Calm(th, th') /\ k' = r.k
    BY <1>1, <2>1, <2>2, <2>3, GoCalm
  <2>5. Moves(Mails(k.mb), Mails(k'.mb), got.mail, got'.mail, MbSize)
    BY <2>1, <2>3, <2>4 DEF Moves
  <2> QED BY <2>1, <2>3, <2>4, <2>5, MailShift, GotStays
<1> QED BY <1>2, <1>3, <1>4, <1>5, <1>6, <1>7

\* A mail is sent by an interrupt handler.
LEMMA IsrMailShift ==
  ASSUME Safe, Stocked, NEW v \in Vals, NEW r, r = _rt_mb_send_wait(k, k.cur, v, 0), Handler("mb_send", r), got' = got
  PROVE  Shift
<1>1. DOMAIN k = Fields /\ MbOK(k.mb)
  BY DEF Safe, System, Base, KInv, Kernel, KType, Stocked
<1>2. /\ MbOK(r.k.mb) /\ (r.k.mb = k.mb \/ Put(k.mb, r.k.mb, Vals)) /\ Keeps(k, r.k, {"mb"})
  BY <1>1, MbSent
<1>3. th' = th /\ (k' = rt_schedule(r.k) \/ k' = r.k)
  BY DEF Handler
<1>4. Keeps(r.k, k', {})
  BY <1>3, ScheduleFrame, SchedFrames
<1>5. Keeps(k, k', {"mb"})
  BY <1>2, <1>4, KeepsTrans
<1>6. k'.mb = r.k.mb
  BY <1>1, <1>2, <1>4, SMTT(30) DEF Keeps, Outer
<1>7. Moves(Mails(k.mb), Mails(k'.mb), got.mail, got'.mail, MbSize)
  BY <1>2, <1>6 DEF Moves, Put
<1> QED BY <1>2, <1>3, <1>5, <1>6, <1>7, SameCalm, MailShift, GotStays

-----------------------------------------------------------------------------
(***************************************************************************)
(* The sections of the message queue.                                      *)
(***************************************************************************)
MqFields == {"head", "tail", "free", "entry", "next", "val"}

\* The queue q is p but for the fields F.
QSame(q, p, F) == DOMAIN p = MqFields /\ \A f \in MqFields \ F : p[f] = q[f]

\* mq_reserve.
LEMMA MqReserved ==
  ASSUME NEW c, DOMAIN c = Fields, DOMAIN c.mq = MqFields, NEW t, NEW n, NEW r, r = mq_reserve(c, t, n)
  PROVE  \/ r.at \in {"top", "block"} /\ Keeps(c, r.k, {}) /\ (n = 0 => r.at = "top")
         \/ /\ r.at = "copy" /\ r.val = c.mq.free /\ c.mq.free # Null /\ Keeps(c, r.k, {"mq"})
            /\ QSame(c.mq, r.k.mq, {"free"}) /\ r.k.mq.free = c.mq.next[c.mq.free]
<1>1. CASE c.mq.free = Null
  <2>1. (n = 0 /\ r = Ret(c, "EFULL")) \/ (n # 0 /\ r = suspend_on(c, t, "mq_send", n))
    BY <1>1 DEF mq_reserve
  <2> QED BY <2>1, IpcFrames
<1>2. CASE c.mq.free # Null
  <2>1. PICK b : b = [c EXCEPT !.mq.free = c.mq.next[@]]
    OBVIOUS
  <2>2. r = Copy(b, c.mq.free)
    BY <1>2, <2>1 DEF mq_reserve
  <2>3. r.k = b /\ r.at = "copy" /\ r.val = c.mq.free
    BY <2>2 DEF Copy
  <2>4. /\ DOMAIN b = Fields /\ \A f \in Fields \ {"mq"} : b[f] = c[f]
        /\ DOMAIN b.mq = MqFields /\ b.mq.free = c.mq.next[c.mq.free]
        /\ \A f \in MqFields \ {"free"} : b.mq[f] = c.mq[f]
    BY <2>1 DEF Fields, MqFields
  <2>5. Keeps(c, b, {"mq"})
    BY <2>4 DEF Keeps, Outer, Fields
  <2> QED BY <1>2, <2>3, <2>4, <2>5 DEF QSame
<1> QED BY <1>1, <1>2

\* mq_unlink.
LEMMA MqUnlinked ==
  ASSUME NEW c, DOMAIN c = Fields, DOMAIN c.mq = MqFields, NEW t, NEW n, NEW r, r = mq_unlink(c, t, n)
  PROVE  \/ r.at \in {"top", "block"} /\ Keeps(c, r.k, {})
         \/ /\ r.at = "copy" /\ r.val = c.mq.head /\ c.mq.entry # 0 /\ Keeps(c, r.k, {"mq"})
            /\ QSame(c.mq, r.k.mq, {"head", "tail", "entry"}) /\ r.k.mq.head = c.mq.next[c.mq.head]
            /\ r.k.mq.entry = c.mq.entry - 1
            /\ r.k.mq.tail = (IF c.mq.tail = c.mq.head THEN Null ELSE c.mq.tail)
<1>1. CASE c.mq.entry = 0
  <2>1. r = Ret(c, "ETIMEOUT") \/ r = suspend_on(c, t, "mq_recv", n)
    BY <1>1, SMTT(30) DEF mq_unlink
  <2> QED BY <2>1, IpcFrames
<1>2. CASE c.mq.entry # 0
  <2>1. PICK h, b : /\ h = c.mq.head
                    /\ b = [c EXCEPT !.mq.head = c.mq.next[h], !.mq.entry = @ - 1,
                                     !.mq.tail = IF @ = h THEN Null ELSE @]
    OBVIOUS
  <2>2. r = Copy(b, h)
    BY <1>2, <2>1 DEF mq_unlink
  <2>3. r.k = b /\ r.at = "copy" /\ r.val = h
    BY <2>2 DEF Copy
  <2>4. /\ DOMAIN b = Fields /\ \A f \in Fields \ {"mq"} : b[f] = c[f]
        /\ DOMAIN b.mq = MqFields /\ b.mq.head = c.mq.next[h] /\ b.mq.entry = c.mq.entry - 1
        /\ b.mq.tail = (IF c.mq.tail = h THEN Null ELSE c.mq.tail)
        /\ b.mq.free = c.mq.free /\ b.mq.next = c.mq.next /\ b.mq.val = c.mq.val
    BY <2>1 DEF Fields, MqFields
  <2>5. Keeps(c, b, {"mq"})
    BY <2>4 DEF Keeps, Outer, Fields
  <2>6. QSame(c.mq, b.mq, {"head", "tail", "entry"})
    BY <2>4 DEF QSame, MqFields
  <2> QED BY <1>2, <2>1, <2>3, <2>4, <2>5, <2>6
<1> QED BY <1>1, <1>2

\* mq_link.
LEMMA MqLinked ==
  ASSUME NEW c, DOMAIN c = Fields, DOMAIN c.mq = MqFields, DOMAIN c.mq.next = Slots, DOMAIN c.mq.val = Slots,
         NEW x \in Slots, NEW v, NEW r, r = mq_link(c, x, v), c.mq.tail # x
  PROVE  r.at \in {"top", "resched"} /\ Keeps(c, r.k, {"mq"}) /\ Behind(c.mq, r.k.mq, x, v) /\ DOMAIN r.k.mq = MqFields
<1>1. PICK nx, ny, b : /\ nx = [c.mq.next EXCEPT ![x] = Null]
                       /\ ny = IF c.mq.tail # Null THEN [nx EXCEPT ![c.mq.tail] = x] ELSE nx
                       /\ b = [c EXCEPT !.mq.next = ny, !.mq.val[x] = v, !.mq.tail = x, !.mq.entry = @ + 1,
                                        !.mq.head = IF @ = Null THEN x ELSE @]
  OBVIOUS
<1>2. r = finish(b, "mq_recv", None)
  BY <1>1 DEF mq_link
<1>3. Keeps(b, r.k, {}) /\ r.at \in {"top", "resched"}
  BY <1>2, IpcFrames, SMTT(30)
<1>4. /\ DOMAIN b = Fields /\ \A f \in Fields \ {"mq"} : b[f] = c[f]
      /\ DOMAIN b.mq = MqFields /\ b.mq.tail = x /\ b.mq.entry = c.mq.entry + 1
      /\ b.mq.val = [c.mq.val EXCEPT ![x] = v] /\ b.mq.next = ny /\ b.mq.free = c.mq.free
      /\ b.mq.head = (IF c.mq.head = Null THEN x ELSE c.mq.head)
  BY <1>1, ZenonT(60) DEF Fields, MqFields
<1>5. r.k.mq = b.mq /\ Keeps(c, r.k, {"mq"})
  <2>1. Keeps(c, b, {"mq"})
    BY <1>4 DEF Keeps, Outer, Fields
  <2> QED BY <1>3, <1>4, <2>1, KeepsTrans, ZenonT(60) DEF Keeps, Outer
<1>6. DOMAIN ny = Slots /\ ny[x] = Null /\ \A i \in Slots : i # x => ny[i] = IF i = c.mq.tail THEN x ELSE c.mq.next[i]
  <2>1. DOMAIN nx = Slots /\ nx[x] = Null /\ \A i \in Slots : i # x => nx[i] = c.mq.next[i]
    BY <1>1
  <2>2. \A i \in Slots : i # Null
    BY IpcAssumption DEF Slots, Null
  <2> QED BY <1>1, <2>1, <2>2
<1> QED BY <1>3, <1>4, <1>5, <1>6, SMTT(30) DEF Behind

\* mq_link_urgent.
LEMMA MqUrged ==
  ASSUME NEW c, DOMAIN c = Fields, DOMAIN c.mq = MqFields,
         NEW x, NEW v, NEW r, r = mq_link_urgent(c, x, v)
  PROVE  r.at \in {"top", "resched"} /\ Keeps(c, r.k, {"mq"}) /\ Fronted(c.mq, r.k.mq, x, v) /\ DOMAIN r.k.mq = MqFields
<1>1. PICK b : b = [c EXCEPT !.mq.next[x] = c.mq.head, !.mq.val[x] = v,
                             !.mq.head = x, !.mq.entry = @ + 1, !.mq.tail = IF @ = Null THEN x ELSE @]
  OBVIOUS
<1>2. r = finish(b, "mq_recv", None)
  BY <1>1 DEF mq_link_urgent
<1>3. Keeps(b, r.k, {}) /\ r.at \in {"top", "resched"}
  BY <1>2, IpcFrames
<1>4. /\ DOMAIN b = Fields /\ \A f \in Fields \ {"mq"} : b[f] = c[f]
      /\ DOMAIN b.mq = MqFields /\ b.mq.head = x /\ b.mq.entry = c.mq.entry + 1
      /\ b.mq.val = [c.mq.val EXCEPT ![x] = v] /\ b.mq.next = [c.mq.next EXCEPT ![x] = c.mq.head]
      /\ b.mq.free = c.mq.free /\ b.mq.tail = (IF c.mq.tail = Null THEN x ELSE c.mq.tail)
  BY <1>1, ZenonT(60) DEF Fields, MqFields
<1>5. r.k.mq = b.mq /\ Keeps(c, r.k, {"mq"})
  <2>1. Keeps(c, b, {"mq"})
    BY <1>4 DEF Keeps, Outer, Fields
  <2> QED BY <1>3, <1>4, <2>1, KeepsTrans, ZenonT(60) DEF Keeps, Outer
<1> QED BY <1>3, <1>4, <1>5 DEF Fronted

\* mq_free.
LEMMA MqFreed ==
  ASSUME NEW c, DOMAIN c = Fields, DOMAIN c.mq = MqFields, NEW x, NEW r, r = mq_free(c, x)
  PROVE  r.at \in {"top", "resched"} /\ Keeps(c, r.k, {"mq"}) /\ Freed(c.mq, r.k.mq, x) /\ DOMAIN r.k.mq = MqFields
<1>1. PICK b : b = [c EXCEPT !.mq.next[x] = c.mq.free, !.mq.free = x, !.mq.val[x] = None]
  OBVIOUS
<1>2. r = finish(b, "mq_send", c.mq.val[x])
  BY <1>1 DEF mq_free
<1>3. Keeps(b, r.k, {}) /\ r.at \in {"top", "resched"}
  BY <1>2, IpcFrames
<1>4. /\ DOMAIN b = Fields /\ \A f \in Fields \ {"mq"} : b[f] = c[f]
      /\ DOMAIN b.mq = MqFields /\ b.mq.head = c.mq.head /\ b.mq.entry = c.mq.entry
      /\ b.mq.val = [c.mq.val EXCEPT ![x] = None] /\ b.mq.next = [c.mq.next EXCEPT ![x] = c.mq.free]
      /\ b.mq.free = x /\ b.mq.tail = c.mq.tail
  BY <1>1 DEF Fields, MqFields
<1>5. r.k.mq = b.mq /\ Keeps(c, r.k, {"mq"})
  <2>1. Keeps(c, b, {"mq"})
    BY <1>4 DEF Keeps, Outer, Fields
  <2> QED BY <1>3, <1>4, <2>1, KeepsTrans, ZenonT(60) DEF Keeps, Outer
<1> QED BY <1>3, <1>4, <1>5 DEF Freed

\* The messages are those of the slots that are queued.
LEMMA MsgsAre ==
  ASSUME NEW q, NEW h, NEW Q, NEW R, SlotUse(q, h, Q, R)
  PROVE  Msgs(q) = Texts(q.val, Q) /\ Len(Texts(q.val, Q)) = Len(Q)
<1>1. Path(q.next, q.head, Q)
  BY DEF SlotUse
<1>2. Chain(q.next, q.head) = Q
  BY <1>1, PathIsChain
<1>3. Len(Q) \in Nat
  BY <1>1, PathEmpty
<1>4. Len(Texts(q.val, Q)) = Len(Q)
  BY <1>3 DEF Texts
<1> QED BY <1>2, <1>4 DEF Msgs

\* A call on the message queue.
LEMMA MsgShift ==
  ASSUME Safe, Stocked, Keeps(k, k', {"mq"}), GotSame({"msg"}), MsgMove
  PROVE  Shift
<1>1. DOMAIN k = Fields
  BY DEF Safe, System, Base, KInv, Kernel, KType
<1>2. k'.mb = k.mb /\ k'.mp = k.mp
  BY <1>1 DEF Keeps, Outer
<1>3. got'.mail = got.mail /\ got'.blk = got.blk
  BY DEF GotSame, GotFields
<1> QED BY <1>2, <1>3 DEF Shift, MailMove, PoolMove, Stocked, GotSame, Moves

\* What Go leaves of a call that copies.
LEMMA GoCopies ==
  ASSUME Safe, NEW t \in Threads, NEW r, NEW o, NEW m, NEW arg, Go(t, r, o, m, arg), r.at = "copy"
  PROVE  /\ k' = r.k
         /\ \E e : Goes(th, th', t, e) /\ e.at = "copy" /\ e.slot = r.val /\ e.op = o /\ e.arg = arg
<1>1. k' = r.k /\ th' = Moved(th, t, After(r, o, m, arg)) /\ DOMAIN th = Threads
  BY Going DEF Safe, System, Base
<1>2. PICK e : e = After(r, o, m, arg)
  OBVIOUS
<1>3. Goes(th, th', t, e)
  BY <1>1, <1>2, AfterGoes
<1>4. e.at = "copy" /\ e.slot = r.val /\ e.op = o /\ e.arg = arg
  BY <1>2 DEF After
<1> QED BY <1>1, <1>3, <1>4

\* A slot is reserved for a message, or the thread waits for one.
LEMMA ReserveShift ==
  ASSUME Safe, Stocked, NEW t \in Threads, th[t].at # "copy", NEW n, NEW m, NEW o, NEW arg,
         (o = "mq_send" /\ arg \in Vals) \/ (o = "mq_urgent" /\ arg \in Alarms),
         NEW r, r = mq_reserve(k, t, n), Go(t, r, o, m, arg), got' = got
  PROVE  Shift
<1>1. DOMAIN k = Fields /\ DOMAIN th = Threads /\ DOMAIN k.mq = MqFields
  BY DEF Safe, System, Base, KInv, Kernel, KType, Stocked, MqOK, MqFields
<1>2. CASE r.at \in {"top", "block"} /\ Keeps(k, r.k, {})
  <2>1. Calm(th, th') /\ k' = r.k
    BY <1>1, <1>2, GoCalm
  <2>2. Aside(k, k')
    BY <1>2, <2>1, NoneAside
  <2> QED BY <2>1, <2>2, AsideShift, GotStays DEF StepAside
<1>3. CASE /\ r.at = "copy" /\ r.val = k.mq.free /\ k.mq.free # Null /\ Keeps(k, r.k, {"mq"})
           /\ QSame(k.mq, r.k.mq, {"free"}) /\ r.k.mq.free = k.mq.next[k.mq.free]
  <2>1. PICK e : /\ k' = r.k /\ Goes(th, th', t, e) /\ e.at = "copy" /\ e.slot = r.val /\ e.op = o
                 /\ e.arg = arg
    BY <1>3, GoCopies
  <2>2. PICK Q, R : SlotUse(k.mq, th, Q, R) /\ Covered(th, Q, R)
    BY DEF Stocked, MqOK
  <2>3. PICK q, p : q = k.mq /\ p = k'.mq
    OBVIOUS
  <2>4. /\ p.next = q.next /\ p.val = q.val /\ p.head = q.head /\ p.tail = q.tail /\ p.entry = q.entry
        /\ p.free = q.next[q.free] /\ DOMAIN p = MqFields /\ q.free # Null /\ e.slot = q.free
    BY <1>3, <2>1, <2>3 DEF QSame, MqFields
  <2>5. ~Copies(th, t)
    BY DEF Copies
  <2>6. SlotUse(p, th', Q, Tail(R)) /\ Covered(th', Q, Tail(R))
    BY <2>1, <2>2, <2>3, <2>4, <2>5, SlotReserved
  <2>7. MqOK(k'.mq, th')
    BY <2>3, <2>4, <2>6 DEF MqOK, MqFields
  <2>8. Msgs(k'.mq) = Msgs(k.mq)
    BY <2>2, <2>3, <2>4, <2>6, MsgsAre
  <2>9. Tagged(e)
    BY <2>1 DEF Tagged
  <2>10. \A u \in Threads : Tagged(th'[u])
    BY <2>1, <2>9 DEF Goes, Stocked
  <2>11. MsgMove
    BY <2>7, <2>8, <2>10 DEF MsgMove, Moves
  <2>12. Keeps(k, k', {"mq"})
    BY <1>3, <2>1
  <2> QED BY <2>11, <2>12, MsgShift, GotStays
<1> QED BY <1>1, <1>2, <1>3, MqReserved

\* A message is taken out, or the thread waits for one.
LEMMA UnlinkShift ==
  ASSUME Safe, Stocked, NEW t \in Threads, th[t].at # "copy", NEW n, NEW m,
         NEW r, r = mq_unlink(k, t, n), Go(t, r, "mq_recv", m, None), Msg(r)
  PROVE  Shift
<1>1. DOMAIN k = Fields /\ DOMAIN th = Threads /\ DOMAIN k.mq = MqFields /\ DOMAIN got = GotFields
  BY DEF Safe, System, Base, KInv, Kernel, KType, Stocked, MqOK, MqFields
<1>2. CASE r.at \in {"top", "block"} /\ Keeps(k, r.k, {})
  <2>1. Calm(th, th') /\ k' = r.k
    BY <1>1, <1>2, GoCalm
  <2>2. Aside(k, k') /\ got' = got
    BY <1>2, <2>1, NoneAside DEF Msg
  <2> QED BY <2>1, <2>2, AsideShift, GotStays DEF StepAside
<1>3. CASE /\ r.at = "copy" /\ r.val = k.mq.head /\ k.mq.entry # 0 /\ Keeps(k, r.k, {"mq"})
           /\ QSame(k.mq, r.k.mq, {"head", "tail", "entry"}) /\ r.k.mq.head = k.mq.next[k.mq.head]
           /\ r.k.mq.entry = k.mq.entry - 1
           /\ r.k.mq.tail = (IF k.mq.tail = k.mq.head THEN Null ELSE k.mq.tail)
  <2>1. PICK e : /\ k' = r.k /\ Goes(th, th', t, e) /\ e.at = "copy" /\ e.slot = r.val /\ e.op = "mq_recv"
    BY <1>3, GoCopies
  <2>2. PICK Q, R : SlotUse(k.mq, th, Q, R) /\ Covered(th, Q, R)
    BY DEF Stocked, MqOK
  <2>3. PICK q, p : q = k.mq /\ p = k'.mq
    OBVIOUS
  <2>4. /\ p.next = q.next /\ p.val = q.val /\ p.free = q.free /\ p.entry = q.entry - 1
        /\ p.head = q.next[q.head] /\ p.tail = (IF q.tail = q.head THEN Null ELSE q.tail)
        /\ DOMAIN p = MqFields /\ q.entry # 0 /\ e.slot = q.head
    BY <1>3, <2>1, <2>3 DEF QSame, MqFields
  <2>5. ~Copies(th, t)
    BY DEF Copies
  <2>6. /\ SlotUse(p, th', Tail(Q), R) /\ Covered(th', Tail(Q), R)
        /\ Texts(q.val, Q) # << >> /\ q.val[q.head] = Head(Texts(q.val, Q))
        /\ Texts(p.val, Tail(Q)) = Tail(Texts(q.val, Q))
    BY <2>1, <2>2, <2>3, <2>4, <2>5, SlotTaken
  <2>7. MqOK(k'.mq, th')
    BY <2>3, <2>4, <2>6 DEF MqOK, MqFields
  <2>8. Msgs(q) = Texts(q.val, Q) /\ Msgs(p) = Texts(p.val, Tail(Q))
    BY <2>2, <2>3, <2>6, MsgsAre
  <2>9. Tagged(e)
    BY <2>1 DEF Tagged
  <2>10. \A u \in Threads : Tagged(th'[u])
    BY <2>1, <2>9 DEF Goes, Stocked
  <2>11. got' = [got EXCEPT !.msg = q.val[q.head]]
    BY <1>3, <2>3 DEF Msg
  <2>12. GotSame({"msg"}) /\ got'.msg = q.val[q.head]
    BY <1>1, <2>11 DEF GotSame, GotFields
  <2>13. Moves(Msgs(k.mq), Msgs(k'.mq), got.msg, got'.msg, MqSize)
    BY <2>3, <2>6, <2>8, <2>12 DEF Moves
  <2>14. MsgMove
    BY <2>7, <2>10, <2>13 DEF MsgMove
  <2>15. Keeps(k, k', {"mq"})
    BY <1>3, <2>1
  <2> QED BY <2>12, <2>14, <2>15, MsgShift
<1> QED BY <1>1, <1>2, <1>3, MqUnlinked

\* A thread stops copying.
LEMMA GoLeaves ==
  ASSUME Safe, Stocked, NEW t \in Threads, th[t].at = "copy", NEW r, NEW o,
         Go(t, r, o, 0, None), r.at \in {"top", "resched"}
  PROVE  /\ k' = r.k /\ SlotLeaves(th, th', t, th[t].slot) /\ \A u \in Threads : Tagged(th'[u])
<1>1. k' = r.k /\ th' = Moved(th, t, After(r, o, 0, None)) /\ DOMAIN th = Threads
  BY Going DEF Safe, System, Base
<1>2. PICK e : e = After(r, o, 0, None)
  OBVIOUS
<1>3. Goes(th, th', t, e)
  BY <1>1, <1>2, AfterGoes
<1>4. e.at \in {"top", "resched"}
  BY <1>2 DEF After, Top
<1>5. Tagged(e)
  BY <1>4 DEF Tagged
<1>6. SlotLeaves(th, th', t, th[t].slot)
  BY <1>3, <1>4 DEF SlotLeaves, Copies, Goes
<1> QED BY <1>1, <1>3, <1>5, <1>6 DEF Goes, Stocked

\* A queue that has room for one more slot.
LEMMA RoomFor ==
  ASSUME NEW q, NEW h, NEW Q, NEW R, SlotUse(q, h, Q, R), NEW p, NEW g, NEW P, NEW S, SlotUse(p, g, P, S),
         Len(P) = Len(Q) + 1
  PROVE  Len(Texts(q.val, Q)) < MqSize
<1>1. Path(q.next, q.head, Q) /\ Path(p.next, p.head, P)
  BY DEF SlotUse
<1>2. Len(Q) \in Nat /\ Len(P) <= MqSize /\ MqSize \in Nat
  BY <1>1, SlotCount DEF Path
<1>3. Len(Texts(q.val, Q)) = Len(Q)
  BY MsgsAre
<1> QED BY <1>2, <1>3

\* The message has been copied: its slot goes into the queue, or into the free
\* list.
LEMMA CopiedShift ==
  ASSUME Safe, Stocked, NEW t, MqCopied(t)
  PROVE  Shift
<1>1. /\ DOMAIN k = Fields /\ DOMAIN th = Threads /\ DOMAIN k.mq = MqFields /\ t \in Threads
      /\ th[t].at = "copy" /\ got' = got /\ th[t].op \in {"mq_send", "mq_urgent", "mq_recv"}
  <2>1. k.cur = t /\ th[t].at = "copy" /\ got' = got
    BY DEF MqCopied, Same
  <2>2. Base(load, k, th) /\ k.cur \in Threads
    BY DEF Safe, System, Base
  <2>3. Own(load, k, th[t], t)
    BY <2>1, <2>2 DEF Base
  <2> QED BY <2>1, <2>2, <2>3 DEF Base, KInv, Kernel, KType, Stocked, MqOK, MqFields, Own
<1>2. PICK x, q, p : x = th[t].slot /\ q = k.mq /\ p = k'.mq
  OBVIOUS
<1>3. PICK Q, R : SlotUse(q, th, Q, R) /\ Covered(th, Q, R)
  BY <1>2 DEF Stocked, MqOK
<1>4. /\ x \in Slots /\ ~InList(x, Q) /\ ~InList(x, R) /\ DOMAIN q.next = Slots /\ DOMAIN q.val = Slots
  BY <1>1, <1>2, <1>3 DEF SlotUse, Copies
<1>5. Msgs(q) = Texts(q.val, Q) /\ Len(Q) \in Nat
  BY <1>3, MsgsAre, PathEmpty DEF SlotUse
<1>6. CASE th[t].op = "mq_send"
  <2>1. PICK r : r = mq_link(k, x, th[t].arg) /\ Go(t, r, th[t].op, 0, None)
    BY <1>2, <1>6 DEF MqCopied
  <2>2. q.tail # x
    <3>1. Path(q.next, q.head, Q) /\ q.tail = At(Q, Len(Q))
      BY <1>3 DEF SlotUse
    <3>2. Q \in Seq(Slots)
      BY <3>1 DEF Path, IsList
    <3>3. \A i \in 1 .. Len(Q) : Q[i] # x
      BY <1>4, <3>2, InListDef
    <3>4. x # Null
      BY <1>4, IpcAssumption DEF Slots, Null
    <3> QED BY <3>1, <3>3, <3>4 DEF At
  <2>3. /\ r.at \in {"top", "resched"} /\ Keeps(k, r.k, {"mq"}) /\ DOMAIN r.k.mq = MqFields
        /\ Behind(k.mq, r.k.mq, x, th[t].arg)
    BY <1>1, <1>2, <1>4, <2>1, <2>2, MqLinked
  <2>4. k' = r.k /\ SlotLeaves(th, th', t, x) /\ \A u \in Threads : Tagged(th'[u])
    BY <1>1, <1>2, <2>1, <2>3, GoLeaves
  <2>5. PICK v : v = th[t].arg
    OBVIOUS
  <2>6. Behind(q, p, x, v) /\ DOMAIN p = MqFields
    BY <1>2, <2>3, <2>4, <2>5
  <2>7. SlotUse(p, th', Append(Q, x), R) /\ Covered(th', Append(Q, x), R)
        /\ Texts(p.val, Append(Q, x)) = Append(Texts(q.val, Q), v)
    BY <1>3, <2>4, <2>6, SlotQueued
  <2>8. Len(Append(Q, x)) = Len(Q) + 1
    BY <1>3, <1>4 DEF SlotUse, Path, IsList
  <2>9. Len(Texts(q.val, Q)) < MqSize
    BY <1>3, <2>7, <2>8, RoomFor
  <2>10. v \in Vals
    BY <1>1, <1>6, <2>5 DEF Stocked, Tagged
  <2>11. Moves(Msgs(k.mq), Msgs(k'.mq), got.msg, got'.msg, MqSize)
    BY <1>1, <1>2, <1>5, <2>7, <2>9, <2>10, MsgsAre DEF Moves
  <2>12. MqOK(k'.mq, th')
    BY <1>2, <2>6, <2>7 DEF MqOK, MqFields
  <2>13. MsgMove /\ Keeps(k, k', {"mq"})
    BY <2>3, <2>4, <2>11, <2>12 DEF MsgMove
  <2> QED BY <1>1, <2>13, MsgShift, GotStays
<1>7. CASE th[t].op = "mq_urgent"
  <2>1. PICK r : r = mq_link_urgent(k, x, th[t].arg) /\ Go(t, r, th[t].op, 0, None)
    BY <1>2, <1>7 DEF MqCopied
  <2>3. /\ r.at \in {"top", "resched"} /\ Keeps(k, r.k, {"mq"}) /\ DOMAIN r.k.mq = MqFields
        /\ Fronted(k.mq, r.k.mq, x, th[t].arg)
    BY <1>1, <2>1, MqUrged
  <2>4. k' = r.k /\ SlotLeaves(th, th', t, x) /\ \A u \in Threads : Tagged(th'[u])
    BY <1>1, <1>2, <2>1, <2>3, GoLeaves
  <2>5. PICK v : v = th[t].arg
    OBVIOUS
  <2>6. Fronted(q, p, x, v) /\ DOMAIN p = MqFields
    BY <1>2, <2>3, <2>4, <2>5
  <2>7. SlotUse(p, th', Cons(x, Q), R) /\ Covered(th', Cons(x, Q), R)
        /\ Texts(p.val, Cons(x, Q)) = <<v>> \o Texts(q.val, Q)
    BY <1>3, <2>4, <2>6, SlotFirst
  <2>8. Len(Cons(x, Q)) = Len(Q) + 1
    BY <1>3, <1>4 DEF SlotUse, Path, IsList, Cons
  <2>9. Len(Texts(q.val, Q)) < MqSize
    BY <1>3, <2>7, <2>8, RoomFor
  <2>10. v \in Alarms
    BY <1>1, <1>7, <2>5 DEF Stocked, Tagged
  <2>11. Moves(Msgs(k.mq), Msgs(k'.mq), got.msg, got'.msg, MqSize)
    BY <1>1, <1>2, <1>5, <2>7, <2>9, <2>10, MsgsAre DEF Moves
  <2>12. MqOK(k'.mq, th')
    BY <1>2, <2>6, <2>7 DEF MqOK, MqFields
  <2>13. MsgMove /\ Keeps(k, k', {"mq"})
    BY <2>3, <2>4, <2>11, <2>12 DEF MsgMove
  <2> QED BY <1>1, <2>13, MsgShift, GotStays
<1>8. CASE th[t].op = "mq_recv"
  <2>1. PICK r : r = mq_free(k, x) /\ Go(t, r, th[t].op, 0, None)
    BY <1>2, <1>8 DEF MqCopied
  <2>3. /\ r.at \in {"top", "resched"} /\ Keeps(k, r.k, {"mq"}) /\ DOMAIN r.k.mq = MqFields
        /\ Freed(k.mq, r.k.mq, x)
    BY <1>1, <2>1, MqFreed
  <2>4. k' = r.k /\ SlotLeaves(th, th', t, x) /\ \A u \in Threads : Tagged(th'[u])
    BY <1>1, <1>2, <2>1, <2>3, GoLeaves
  <2>6. Freed(q, p, x) /\ DOMAIN p = MqFields
    BY <1>2, <2>3, <2>4
  <2>7. SlotUse(p, th', Q, Cons(x, R)) /\ Covered(th', Q, Cons(x, R)) /\ Texts(p.val, Q) = Texts(q.val, Q)
    BY <1>3, <2>4, <2>6, SlotFreed
  <2>11. Moves(Msgs(k.mq), Msgs(k'.mq), got.msg, got'.msg, MqSize)
    BY <1>1, <1>2, <1>5, <2>7, MsgsAre DEF Moves
  <2>12. MqOK(k'.mq, th')
    BY <1>2, <2>6, <2>7 DEF MqOK, MqFields
  <2>13. MsgMove /\ Keeps(k, k', {"mq"})
    BY <2>3, <2>4, <2>11, <2>12 DEF MsgMove
  <2> QED BY <1>1, <2>13, MsgShift, GotStays
<1> QED BY <1>1, <1>6, <1>7, <1>8

\* rt_mq_control: the slots of the queue are freed one by one.
LEMMA ResetShift ==
  ASSUME Safe, Stocked, NEW t, MqControl(t)
  PROVE  Shift /\ k'.mq.entry = 0
<1>1. /\ DOMAIN k = Fields /\ DOMAIN th = Threads /\ DOMAIN k.mq = MqFields /\ KInv(k)
  BY DEF Safe, System, Base, KInv, Kernel, KType, Stocked, MqOK, MqFields
<1>2. PICK r : Enter(t, "mq_control") /\ r = rt_mq_control(k) /\ Go(t, r, "mq_control", 0, None) /\ got' = got
  BY DEF MqControl, Same
<1>3. t \in Threads /\ th[t].at = "top"
  BY <1>2, Entering
<1>4. PICK a, b, Q, R : /\ a = _ipc_list_resume_all(k, "mq_recv") /\ b = _ipc_list_resume_all(a, "mq_send")
                        /\ SlotUse(k.mq, th, Q, R) /\ Covered(th, Q, R)
  BY DEF Stocked, MqOK
<1>5. Keeps(k, b, {}) /\ DOMAIN b = Fields /\ b.mq = k.mq
  <2>1. "mq_recv" \in Lists /\ "mq_send" \in Lists
    BY DEF Lists, WaitLists
  <2>2. Wakes(k, a, {}, {})
    BY <1>1, <1>4, <2>1, AllResumed
  <2>3. Wakes(a, b, {}, {})
    BY <1>4, <2>1, <2>2, AllResumed DEF Wakes
  <2>4. Keeps(k, b, {})
    BY <2>2, <2>3, WakesFrame, KeepsTrans
  <2> QED BY <1>1, <2>4 DEF Keeps, Outer
<1>6. Chain(k.mq.next, k.mq.head) = Q
  BY <1>4, PathIsChain DEF SlotUse
<1>7. PICK d : d = Drained(b, Q)
  OBVIOUS
<1>8. r.k = [d EXCEPT !.mq.head = Null, !.mq.tail = Null, !.mq.entry = 0] /\ r.at = "resched"
  BY <1>2, <1>4, <1>6, <1>7 DEF rt_mq_control, Resched, Drained
<1>9. Calm(th, th') /\ k' = r.k
  BY <1>1, <1>2, <1>3, <1>8, GoCalm
<1>10. SameCopies(th, th') /\ \A u \in Threads : Tagged(th'[u])
  BY <1>9 DEF Calm, Stocked
<1>11. PICK q, h, g : q = k.mq /\ h = th /\ g = th'
  OBVIOUS
<1>12. /\ SlotUse(q, h, Q, R) /\ Covered(h, Q, R) /\ {"next", "free", "val"} \subseteq DOMAIN q /\ b.mq = q
       /\ DOMAIN b = Fields /\ d = Drained(b, Q) /\ SameCopies(h, g) /\ DOMAIN q = MqFields
  BY <1>1, <1>4, <1>5, <1>7, <1>10, <1>11 DEF MqFields
<1>13. PICK p, S : /\ SameBut(b, d, {"mq"}) /\ DOMAIN d.mq = MqFields
                   /\ p = [d.mq EXCEPT !.head = Null, !.tail = Null, !.entry = 0] /\ DOMAIN p = MqFields
                   /\ SlotUse(p, g, << >>, S) /\ Covered(g, << >>, S) /\ p.entry = 0
  <2>1. PICK z : z = [next |-> d.mq.next, val |-> d.mq.val, free |-> d.mq.free, head |-> Null, tail |-> Null, entry |-> 0]
    OBVIOUS
  <2>2. Emptied(d.mq, z)
    BY <2>1 DEF Emptied
  <2>3. SameBut(b, d, {"mq"}) /\ DOMAIN d.mq = MqFields
    BY ONLY <1>12, <2>2, SlotsReset
  <2>4. PICK p : p = [d.mq EXCEPT !.head = Null, !.tail = Null, !.entry = 0]
    OBVIOUS
  <2>5. Emptied(d.mq, p) /\ DOMAIN p = MqFields
    BY <2>3, <2>4 DEF MqFields, Emptied
  <2>6. \E S : SlotUse(p, g, << >>, S) /\ Covered(g, << >>, S)
    BY ONLY <1>12, <2>5, SlotsReset
  <2> QED BY <2>3, <2>4, <2>5, <2>6 DEF Emptied
<1>15. r.k.mq = p /\ DOMAIN r.k = Fields /\ \A f \in Fields \ {"mq"} : r.k[f] = b[f]
  BY <1>8, <1>13 DEF SameBut, Fields
<1>16. Msgs(k'.mq) = << >> /\ MqOK(k'.mq, th')
  <2>1. Texts(p.val, << >>) = << >>
    BY DEF Texts
  <2>2. Msgs(p) = Texts(p.val, << >>)
    BY <1>13, MsgsAre
  <2> QED BY <1>9, <1>11, <1>13, <1>15, <2>1, <2>2 DEF MqOK, MqFields
<1>17. MsgMove
  BY <1>2, <1>10, <1>16 DEF MsgMove, Moves
<1>18. Keeps(b, r.k, {"mq"})
  BY <1>15 DEF Keeps, Outer, Fields
<1>19. Keeps(k, k', {"mq"})
  BY <1>5, <1>9, <1>18, KeepsTrans
<1>20. k'.mq.entry = 0
  BY <1>9, <1>13, <1>15
<1> QED BY <1>2, <1>17, <1>19, <1>20, MsgShift, GotStays

\* The calls on the message queue.
LEMMA MsgShifts ==
  ASSUME Safe, Stocked, NEW t, \/ MqSend(t) \/ MqSendWoken(t) \/ MqUrgent(t) \/ MqRecv(t) \/ MqRecvWoken(t)
                               \/ MqCopied(t) \/ MqControl(t)
  PROVE  Shift
<1>1. CASE MqSend(t)
  <2>1. PICK v, n : v \in Vals /\ Enter(t, "mq_send") /\ Go(t, mq_reserve(k, t, n), "mq_send", n, v) /\ got' = got
    BY <1>1 DEF MqSend, Same
  <2>2. t \in Threads /\ th[t].at = "top"
    BY <2>1, Entering
  <2> QED BY <2>1, <2>2, ReserveShift
<1>2. CASE MqSendWoken(t)
  <2>1. PICK r, n : /\ Woken(t, "mq_send") /\ Go(t, r, "mq_send", n, th[t].arg) /\ got' = got
                    /\ r = (IF k.err[t] # "EOK" THEN Ret(k, k.err[t]) ELSE mq_reserve(k, t, n))
    BY <1>2 DEF MqSendWoken, Same
  <2>2. t \in Threads /\ th[t].at = "woken" /\ th[t].op = "mq_send"
    BY <2>1, Waking
  <2>3. th[t].arg \in Vals
    BY <2>2 DEF Stocked, Tagged
  <2> QED BY <2>1, <2>2, <2>3, ReserveShift, ReturnShift
<1>3. CASE MqUrgent(t)
  <2>1. PICK v \in Alarms : Enter(t, "mq_urgent") /\ Go(t, mq_reserve(k, t, 0), "mq_urgent", 0, v) /\ got' = got
    BY <1>3 DEF MqUrgent, Same
  <2>2. t \in Threads /\ th[t].at = "top"
    BY <2>1, Entering
  <2> QED BY <2>1, <2>2, ReserveShift
<1>4. CASE MqRecv(t)
  <2>1. PICK n, r : /\ Enter(t, "mq_recv") /\ r = mq_unlink(k, t, n) /\ Go(t, r, "mq_recv", n, None)
                    /\ Msg(r)
    BY <1>4 DEF MqRecv
  <2>2. t \in Threads /\ th[t].at = "top"
    BY <2>1, Entering
  <2> QED BY <2>1, <2>2, UnlinkShift
<1>5. CASE MqRecvWoken(t)
  <2>1. PICK r, n : /\ Woken(t, "mq_recv") /\ Go(t, r, "mq_recv", n, None) /\ Msg(r)
                    /\ r = (IF k.err[t] # "EOK" THEN Ret(k, k.err[t]) ELSE mq_unlink(k, t, n))
    BY <1>5 DEF MqRecvWoken
  <2>2. t \in Threads /\ th[t].at = "woken"
    BY <2>1, Waking
  <2>3. r = Ret(k, k.err[t]) => got' = got
    BY <2>1 DEF Msg, Ret
  <2> QED BY <2>1, <2>2, <2>3, UnlinkShift, ReturnShift
<1> QED BY <1>1, <1>2, <1>3, <1>4, <1>5, CopiedShift, ResetShift

-----------------------------------------------------------------------------
(* The memory pool *)

\* A call on the memory pool.
LEMMA PoolShift ==
  ASSUME Safe, Stocked, Keeps(k, k', {"mp"}), Calm(th, th'), GotSame({"blk"}), PoolMove
  PROVE  Shift
<1>1. DOMAIN k = Fields
  BY DEF Safe, System, Base, KInv, Kernel, KType
<1>2. k'.mb = k.mb /\ k'.mq = k.mq
  BY <1>1 DEF Keeps, Outer
<1>3. got'.mail = got.mail /\ got'.msg = got.msg
  BY DEF GotSame, GotFields
<1>4. MsgMove
  BY <1>2, <1>3, MsgsAside
<1> QED BY <1>2, <1>3, <1>4 DEF Shift, MailMove, Stocked, GotSame, Moves

\* rt_mp_alloc.
LEMMA MpTaken ==
  ASSUME NEW c, DOMAIN c = Fields, DOMAIN c.mp = {"list", "free"}, NEW t, NEW n, NEW r, r = rt_mp_alloc(c, t, n)
  PROVE  \/ r.at \in {"top", "block"} /\ Keeps(c, r.k, {}) /\ r.val = None
         \/ /\ r.at = "top" /\ Keeps(c, r.k, {"mp"}) /\ DOMAIN r.k.mp = {"list", "free"} /\ c.mp.free # 0
            /\ r.k.mp.free = c.mp.free - 1 /\ r.k.mp.list = Tail(c.mp.list) /\ r.val = Head(c.mp.list)
<1>1. CASE c.mp.free = 0 /\ n = 0
  <2>1. r = Ret(c, "ETIMEOUT")
    BY <1>1 DEF rt_mp_alloc
  <2> QED BY <2>1, IpcFrames
<1>2. CASE c.mp.free = 0 /\ n # 0
  <2>1. PICK a, b, d : /\ a = [c EXCEPT !.err[t] = "EOK"] /\ b = rt_thread_suspend(a, t)
                       /\ d = [b EXCEPT !.wait["mp"] = Cons(t, @)]
    OBVIOUS
  <2>2. r = Block(IF n > 0 THEN rt_timer_start(d, t, n) ELSE d)
    BY <1>2, <2>1 DEF rt_mp_alloc
  <2>3. Keeps(c, a, {}) /\ Keeps(a, b, {}) /\ Keeps(d, rt_timer_start(d, t, n), {}) /\ Keeps(d, d, {})
    BY <2>1, AssignFrames, SchedFrames
  <2>4. Keeps(b, d, {})
    BY <2>1 DEF Keeps, Outer, Fields
  <2>5. Keeps(c, d, {})
    BY <2>3, <2>4, KeepsTrans
  <2>6. r.at = "block" /\ r.val = None /\ r.k = (IF n > 0 THEN rt_timer_start(d, t, n) ELSE d)
    BY <2>2 DEF Block
  <2>7. Keeps(d, r.k, {})
    BY <2>3, <2>6
  <2> QED BY <2>5, <2>6, <2>7, KeepsTrans
<1>3. CASE c.mp.free # 0
  <2>1. PICK b : b = [c EXCEPT !.mp.free = @ - 1, !.mp.list = Tail(@)]
    OBVIOUS
  <2>2. r.k = b /\ r.at = "top" /\ r.val = Head(c.mp.list)
    BY <1>3, <2>1 DEF rt_mp_alloc, Ret
  <2>3. /\ DOMAIN b = Fields /\ \A f \in Fields \ {"mp"} : b[f] = c[f]
        /\ DOMAIN b.mp = {"list", "free"} /\ b.mp.free = c.mp.free - 1 /\ b.mp.list = Tail(c.mp.list)
    BY <2>1 DEF Fields
  <2>4. Keeps(c, b, {"mp"})
    BY <2>3 DEF Keeps, Outer, Fields
  <2> QED BY <1>3, <2>2, <2>3, <2>4
<1> QED BY <1>1, <1>2, <1>3

\* A block is taken, or the thread waits for one.
LEMMA AllocShift ==
  ASSUME Safe, Stocked, NEW t \in Threads, th[t].at # "copy", NEW n, NEW m,
         NEW r, r = rt_mp_alloc(k, t, n), Go(t, r, "mp_alloc", m, None), Blk(t, r)
  PROVE  Shift
<1>1. DOMAIN k = Fields /\ DOMAIN th = Threads /\ DOMAIN k.mp = {"list", "free"} /\ DOMAIN got = GotFields
  BY DEF Safe, System, Base, KInv, Kernel, KType, Stocked, MpOK
<1>2. r.at # "copy"
  BY <1>1, MpTaken
<1>3. Calm(th, th') /\ k' = r.k
  BY <1>1, <1>2, GoCalm
<1>4. CASE r.at \in {"top", "block"} /\ Keeps(k, r.k, {}) /\ r.val = None
  <2>1. got' = got /\ Aside(k, k')
    BY <1>3, <1>4, NoneAside DEF Blk
  <2> QED BY <1>3, <2>1, AsideShift, GotStays DEF StepAside
<1>5. CASE /\ r.at = "top" /\ Keeps(k, r.k, {"mp"}) /\ DOMAIN r.k.mp = {"list", "free"} /\ k.mp.free # 0
           /\ r.k.mp.free = k.mp.free - 1 /\ r.k.mp.list = Tail(k.mp.list) /\ r.val = Head(k.mp.list)
  <2>1. PICK p, q, a, d : /\ p = k.mp /\ q = k'.mp /\ a = got.blk /\ d = [a EXCEPT ![t] = @ \cup {Head(p.list)}]
    OBVIOUS
  <2>2. MpOK(p, a) /\ p.free # 0 /\ DOMAIN q = DOMAIN p /\ q.free = p.free - 1 /\ q.list = Tail(p.list)
    BY <1>1, <1>3, <1>5, <2>1 DEF Stocked
  <2>3. MpOK(q, d) /\ Head(p.list) \in Blocks
    BY ONLY <2>1, <2>2, BlockTaken, t \in Threads
  <2>4. r.val # None
    BY <1>5, <2>1, <2>3, IpcAssumption
  <2>5. got' = [got EXCEPT !.blk[t] = @ \cup {Head(p.list)}]
    BY <1>5, <2>1, <2>4 DEF Blk
  <2>6. GotSame({"blk"}) /\ got'.blk = d
    BY <1>1, <2>1, <2>5 DEF GotSame, GotFields
  <2> QED BY <1>3, <1>5, <2>1, <2>3, <2>6, PoolShift DEF PoolMove
<1> QED BY <1>1, <1>4, <1>5, MpTaken

\* The calls on the memory pool.
LEMMA PoolShifts ==
  ASSUME Safe, Stocked, NEW t, MpAlloc(t) \/ MpWoken(t) \/ MpFree(t)
  PROVE  Shift
<1>1. DOMAIN k = Fields /\ DOMAIN th = Threads /\ DOMAIN k.mp = {"list", "free"} /\ DOMAIN got = GotFields
  BY DEF Safe, System, Base, KInv, Kernel, KType, Stocked, MpOK
<1>2. CASE MpAlloc(t)
  <2>1. PICK n, r : /\ Enter(t, "mp_alloc") /\ r = rt_mp_alloc(k, t, n) /\ Go(t, r, "mp_alloc", n, None)
                    /\ Blk(t, r)
    BY <1>2 DEF MpAlloc
  <2>2. t \in Threads /\ th[t].at = "top"
    BY <2>1, Entering
  <2> QED BY <2>1, <2>2, AllocShift
<1>3. CASE MpWoken(t)
  <2>1. PICK r, n : /\ Woken(t, "mp_alloc") /\ Go(t, r, "mp_alloc", n, None) /\ Blk(t, r)
                    /\ r = (IF k.err[t] # "EOK" THEN Ret(k, k.err[t]) ELSE rt_mp_alloc(k, t, n))
    BY <1>3 DEF MpWoken
  <2>2. t \in Threads /\ th[t].at = "woken"
    BY <2>1, Waking
  <2>3. r = Ret(k, k.err[t]) => got' = got
    BY <2>1 DEF Blk, Ret
  <2> QED BY <2>1, <2>2, <2>3, AllocShift, ReturnShift
<1>4. CASE MpFree(t)
  <2>1. PICK x, r : /\ x \in got.blk[t] /\ Enter(t, "mp_free") /\ r = rt_mp_free(k, x) /\ Go(t, r, "mp_free", 0, None)
                     /\ got' = [got EXCEPT !.blk[t] = @ \ {x}]
    BY <1>4 DEF MpFree
  <2>2. t \in Threads /\ th[t].at = "top"
    BY <2>1, Entering
  <2>3. PICK b : b = [k EXCEPT !.mp.free = @ + 1, !.mp.list = Cons(x, @)]
    OBVIOUS
  <2>4. r = finish(b, "mp", None)
    BY <2>1, <2>3 DEF rt_mp_free
  <2>5. Keeps(b, r.k, {}) /\ r.at \in {"top", "resched"}
    BY <2>4, IpcFrames
  <2>6. /\ DOMAIN b = Fields /\ \A f \in Fields \ {"mp"} : b[f] = k[f]
        /\ DOMAIN b.mp = {"list", "free"} /\ b.mp.free = k.mp.free + 1 /\ b.mp.list = Cons(x, k.mp.list)
    BY <1>1, <2>3 DEF Fields
  <2>7. Keeps(k, b, {"mp"})
    BY <2>6 DEF Keeps, Outer, Fields
  <2>8. Keeps(k, r.k, {"mp"}) /\ r.k.mp = b.mp
    BY <2>5, <2>6, <2>7, KeepsTrans DEF Keeps, Outer
  <2>9. Calm(th, th') /\ k' = r.k
    BY <1>1, <2>1, <2>2, <2>5, GoCalm
  <2>10. PICK p, q, a, d : p = k.mp /\ q = k'.mp /\ a = got.blk /\ d = [a EXCEPT ![t] = @ \ {x}]
    OBVIOUS
  <2>11. MpOK(p, a) /\ DOMAIN q = DOMAIN p /\ q.free = p.free + 1 /\ q.list = Cons(x, p.list) /\ x \in a[t]
         /\ t \in Threads
    BY <1>1, <2>1, <2>2, <2>6, <2>8, <2>9, <2>10 DEF Stocked
  <2>12. MpOK(q, d)
    BY ONLY <2>10, <2>11, BlockFreed
  <2>13. GotSame({"blk"}) /\ got'.blk = d
    BY <1>1, <2>1, <2>10 DEF GotSame, GotFields
  <2> QED BY <2>8, <2>9, <2>10, <2>12, <2>13, PoolShift DEF PoolMove
<1> QED BY <1>2, <1>3, <1>4

-----------------------------------------------------------------------------
(* Boot *)

Untouched(env, base, s, i, c) == Keeps(base, c, {})
BootFrame == INSTANCE FoldFacts WITH Op <- StartUp, Rel <- Untouched

\* No object changes while the threads are started.
LEMMA BootKeeps ==
  ASSUME NEW l \in Loads, NEW c, c = FoldLeft(rt_thread_startup, Fresh(l), l.order),
         NEW d, d = rt_system_scheduler_start(c)
  PROVE  Keeps(Fresh(l), d, {})
<1>1. PICK s, b : s = l.order /\ b = Fresh(l)
  OBVIOUS
<1>2. s \in Seq(Threads)
  BY <1>1, LoadsAssumption
<1>3. Untouched(l, b, s, 0, b)
  BY SchedFrames DEF Untouched
<1>4. ASSUME NEW i \in 1 .. Len(s), NEW a, Untouched(l, b, s, i - 1, a)
      PROVE  Untouched(l, b, s, i, StartUp(l, a, s[i]))
  <2>1. PICK x, z : x = [a EXCEPT !.stat[s[i]] = "suspend"] /\ z = rt_thread_resume(x, s[i])
    OBVIOUS
  <2>2. Keeps(a, x, {}) /\ Keeps(x, z, {})
    BY <2>1, AssignFrames, SchedFrames
  <2>3. Keeps(b, z, {})
    BY <1>4, <2>2, KeepsTrans DEF Untouched
  <2> QED BY <2>1, <2>3 DEF Untouched, StartUp, rt_thread_startup
<1>5. Untouched(l, b, s, Len(s), BootFrame!Fold(l, b, s))
  BY <1>2, <1>3, <1>4, LeastExists, BootFrame!FoldKeeps DEF BootFrame!LeastNumber
<1>6. BootFrame!Fold(l, b, s) = c
  <2>1. c = FoldLeft(rt_thread_startup, b, s)
    BY <1>1
  <2> QED BY <2>1 DEF StartUp, BootFrame!Fold, FoldLeft, MapThenFoldSet, BootFrame!Greatest, Max
<1>7. Keeps(b, c, {})
  BY <1>5, <1>6, SMTT(30) DEF Untouched
<1>8. PICK t, x, y : /\ t = Head(c.ready[Min(c.group)]) /\ x = [c EXCEPT !.cur = t]
                     /\ y = rt_schedule_remove_thread(x, t) /\ d = [y EXCEPT !.stat[t] = "running"]
  BY ZenonT(60) DEF rt_system_scheduler_start
<1>9. Keeps(c, x, {})
  BY <1>8, ZenonT(60) DEF Keeps, Outer, Fields
<1>10. Keeps(x, y, {}) /\ Keeps(y, d, {})
  <2>1. Keeps(x, y, {})
    BY <1>8, SchedFrames, ZenonT(60)
  <2>2. d = [y EXCEPT !.stat[t] = "running"]
    BY <1>8, ZenonT(60)
  <2>3. Keeps(y, d, {})
    BY ONLY <2>2 DEF Keeps, Outer, Fields
  <2> QED BY <2>1, <2>3
<1>11. Keeps(c, d, {})
  BY <1>9, <1>10, KeepsTrans
<1> QED BY <1>1, <1>7, <1>11, KeepsTrans

\* The blocks of the pool in a list.
LEMMA AllBlocks ==
  ASSUME NEW s, s = SetToSeq(Blocks)
  PROVE  IsList(Blocks, s) /\ Len(s) = Cardinality(Blocks) /\ \A b \in Blocks : InList(b, s)
<1>1. PICK n : n = Cardinality(Blocks)
  OBVIOUS
<1>2. IsFiniteSet(Blocks)
  BY IpcAssumption
<1>3. n \in Nat /\ ExistsBijection(1 .. n, Blocks)
  BY <1>1, <1>2, FS_CardinalityType
<1>4. PICK f \in [1 .. n -> Blocks] : IsInjective(f)
  BY <1>3 DEF ExistsBijection, Bijection, Injection
<1>5. s \in [1 .. n -> Blocks] /\ IsInjective(s)
  BY <1>1, <1>4, Zenon DEF SetToSeq
<1>6. s \in Seq(Blocks) /\ Len(s) = n /\ DOMAIN s = 1 .. n
  BY <1>3, <1>5
<1>7. Distinct(s)
  BY <1>5, <1>6 DEF Distinct, IsInjective
<1>8. Cardinality(1 .. n) = n
  <2>1. 1 \in Int /\ n \in Int
    BY <1>3
  <2>2. Cardinality(1 .. n) = IF 1 > n THEN 0 ELSE n - 1 + 1
    BY <2>1, FS_Interval
  <2> QED BY <1>3, <2>2
<1>9. s \in Surjection(1 .. n, Blocks)
  <2>1. s \in Injection(1 .. n, Blocks)
    BY <1>5 DEF Injection
  <2> QED BY <1>1, <1>2, <1>8, <2>1, FS_Injection
<1>10. \A b \in Blocks : \E i \in 1 .. n : s[i] = b
  BY <1>9 DEF Surjection
<1> QED BY <1>1, <1>6, <1>7, <1>10 DEF IsList, InList

\* The message queue before anything has been sent.
LEMMA FreshQueue ==
  ASSUME NEW q, q = [head |-> Null, tail |-> Null, free |-> MqSize, entry |-> 0,
                     next |-> [s \in 1 .. MqSize |-> s - 1], val |-> [s \in 1 .. MqSize |-> None]],
         NEW h, h = [t \in Threads |-> Top]
  PROVE  MqOK(q, h) /\ Msgs(q) = << >>
<1>1. PICK R : R = [i \in 1 .. MqSize |-> MqSize + 1 - i]
  OBVIOUS
<1>2. MqSize \in Nat /\ MqSize > 0
  BY IpcAssumption
<1>3. R \in Seq(Slots) /\ Len(R) = MqSize /\ \A i \in 1 .. MqSize : R[i] = MqSize + 1 - i
  <2>1. \A i \in 1 .. MqSize : MqSize + 1 - i \in Slots
    BY <1>2 DEF Slots
  <2>2. R \in [1 .. MqSize -> Slots]
    BY <1>1, <2>1
  <2> QED BY <1>1, <1>2, <2>2
<1>4. IsList(Slots, R)
  BY <1>2, <1>3 DEF IsList, Distinct
<1>5. Path(q.next, q.free, R)
  <2>1. \A i \in 1 .. Len(R) : q.next[R[i]] = At(R, i + 1)
    <3> SUFFICES ASSUME NEW i \in 1 .. MqSize PROVE q.next[R[i]] = At(R, i + 1)
      BY <1>3
    <3>1. R[i] = MqSize + 1 - i /\ R[i] \in 1 .. MqSize
      BY <1>2, <1>3
    <3>2. q.next[R[i]] = MqSize - i
      BY <1>2, <3>1
    <3>3. At(R, i + 1) = MqSize - i
      <4>1. CASE i = MqSize
        <5>1. i + 1 \notin 1 .. Len(R) /\ MqSize - i = 0
          BY <1>2, <1>3, <4>1
        <5> QED BY <5>1 DEF At, Null
      <4>2. CASE i # MqSize
        <5>1. i + 1 \in 1 .. Len(R) /\ R[i + 1] = MqSize + 1 - (i + 1) /\ MqSize + 1 - (i + 1) = MqSize - i
          BY <1>2, <1>3, <4>2
        <5> QED BY <5>1 DEF At
      <4> QED BY <4>1, <4>2
    <3> QED BY <3>2, <3>3
  <2>2. q.free = At(R, 1)
    BY <1>2, <1>3 DEF At
  <2> QED BY <1>4, <2>1, <2>2 DEF Path
<1>6. Path(q.next, q.head, << >>) /\ q.tail = At(<< >>, Len(<< >>)) /\ q.entry = Len(<< >>)
  BY DEF Path, IsList, Distinct, At
<1>7. (\A t \in Threads : ~Copies(h, t)) /\ \A x : ~InList(x, << >>)
  BY DEF Copies, Top, InList
<1>8. SlotUse(q, h, << >>, R)
  BY <1>5, <1>6, <1>7 DEF SlotUse, Slots
<1>9. Covered(h, << >>, R)
  <2>1. ASSUME NEW x \in Slots PROVE InList(x, R)
    <3>1. MqSize + 1 - x \in 1 .. MqSize /\ R[MqSize + 1 - x] = x
      BY <1>2, <1>3 DEF Slots
    <3> QED BY <1>3, <3>1, InListDef
  <2> QED BY <2>1 DEF Covered
<1>10. Msgs(q) = << >>
  BY <1>8, MsgsAre DEF Texts
<1> QED BY <1>8, <1>9, <1>10 DEF MqOK

\* The mailbox before anything has been sent.
LEMMA FreshMail ==
  ASSUME NEW b, b = [pool |-> [i \in 0 .. MbSize - 1 |-> None], in |-> 0, out |-> 0, entry |-> 0]
  PROVE  MbOK(b) /\ Mails(b) = << >>
BY IpcAssumption DEF MbOK, Mails, Wrap

\* All objects are in order when the scheduler has been started.
LEMMA InitStocked ==
  ASSUME Init
  PROVE  /\ Stocked /\ Mails(k.mb) = << >> /\ Msgs(k.mq) = << >> /\ got.mail = None /\ got.msg = None
         /\ k.lock = 0
<1>1. PICK c : c = FoldLeft(rt_thread_startup, Fresh(load), load.order)
  OBVIOUS
<1>2. load \in Loads /\ k = rt_system_scheduler_start(c) /\ th = [t \in Threads |-> Top]
  BY <1>1 DEF Init
<1>3. Keeps(Fresh(load), k, {})
  BY <1>1, <1>2, BootKeeps
<1>4. PICK b : b = Fresh(load)
  OBVIOUS
<1>5. DOMAIN b = Fields
  BY <1>4 DEF Fresh, Fields
<1>6. k.mb = b.mb /\ k.mq = b.mq /\ k.mp = b.mp /\ k.lock = b.lock
  BY <1>3, <1>4, <1>5 DEF Keeps, Outer
<1>7. MbOK(k.mb) /\ Mails(k.mb) = << >>
  BY <1>4, <1>6, FreshMail DEF Fresh
<1>8. MqOK(k.mq, th) /\ Msgs(k.mq) = << >>
  BY <1>2, <1>4, <1>6, FreshQueue DEF Fresh
<1>9. /\ DOMAIN got = GotFields /\ got.blk = [t \in Threads |-> {}] /\ got.mail = None /\ got.msg = None
  BY DEF Init, GotFields
<1>10. MpOK(k.mp, got.blk)
  <2>1. PICK s : s = SetToSeq(Blocks)
    OBVIOUS
  <2>2. k.mp = [list |-> s, free |-> Cardinality(Blocks)]
    BY <1>4, <1>6, <2>1 DEF Fresh
  <2>3. IsList(Blocks, s) /\ Len(s) = Cardinality(Blocks) /\ \A x \in Blocks : InList(x, s)
    BY <2>1, AllBlocks
  <2> QED BY <1>9, <2>2, <2>3 DEF MpOK
<1>11. \A t \in Threads : Tagged(th[t])
  BY <1>2 DEF Tagged, Top
<1>12. k.lock = 0
  BY <1>4, <1>6 DEF Fresh
<1> QED BY <1>7, <1>8, <1>9, <1>10, <1>11, <1>12 DEF Stocked

\* A step that counts units of the semaphore at most.
LEMMA BalShift ==
  ASSUME Safe, Stocked, StepAside, NEW x, got' = got \/ got' = [got EXCEPT !.bal = x]
  PROVE  Shift
<1>1. DOMAIN got = GotFields
  BY DEF Stocked
<1>2. GotSame({"bal"})
  BY <1>1 DEF GotSame, GotFields
<1> QED BY <1>2, AsideShift

\* Every step of a thread keeps the objects in order.
LEMMA ThreadShift ==
  ASSUME Safe, Stocked, NEW t \in Threads, ThreadStep(t)
  PROVE  Shift
<1>1. CASE \/ Yield(t) \/ Sleep(t) \/ SleepWoken(t) \/ SuspendSelf(t) \/ Resume(t) \/ Startup(t)
           \/ StartupCheck(t) \/ Unlink(t) \/ Insert(t) \/ Exit(t)
  <2>1. StepAside
    BY <1>1, ThreadAside
  <2>2. got' = got
    BY <1>1 DEF Yield, Sleep, SleepWoken, SuspendSelf, Resume, Startup, StartupCheck, Unlink,
                 Insert, Exit, Same
  <2> QED BY <2>1, <2>2, BalShift
<1>2. CASE Sched(t) \/ EnterCritical(t) \/ rt_exit_critical(t)
  <2>1. StepAside
    BY <1>2, SchedAside, LockAside
  <2>2. got' = got
    BY <1>2 DEF Sched, EnterCritical, rt_exit_critical, Same
  <2> QED BY <2>1, <2>2, BalShift
<1>3. CASE SemTake(t) \/ SemWoken(t) \/ SemRelease(t) \/ SemControl(t)
  <2>1. StepAside
    BY <1>3, SemAside
  <2>2. \E x : got' = [got EXCEPT !.bal = x]
    BY <1>3 DEF SemTake, SemWoken, SemRelease, SemControl
  <2> QED BY <2>1, <2>2, BalShift
<1>4. CASE EventSend(t) \/ EventRecv(t) \/ EventWoken(t) \/ EventControl(t)
  <2>1. StepAside
    BY <1>4, EventAside
  <2>2. got' = got
    BY <1>4 DEF EventSend, EventRecv, EventWoken, EventControl, Same
  <2> QED BY <2>1, <2>2, BalShift
<1>5. CASE \/ MbSend(t) \/ MbSendWoken(t) \/ MbUrgent(t) \/ MbRecv(t) \/ MbRecvWoken(t) \/ MbControl(t)
  BY <1>5, MailShifts
<1>6. CASE \/ MqSend(t) \/ MqSendWoken(t) \/ MqUrgent(t) \/ MqRecv(t) \/ MqRecvWoken(t) \/ MqCopied(t)
           \/ MqControl(t)
  BY <1>6, MsgShifts
<1>7. CASE MpAlloc(t) \/ MpWoken(t) \/ MpFree(t)
  BY <1>7, PoolShifts
<1> QED BY <1>1, <1>2, <1>3, <1>4, <1>5, <1>6, <1>7, LeftOut DEF ThreadStep

\* Every step of the system does.
LEMMA NextShift ==
  ASSUME Safe, Stocked, [Next]_vars
  PROVE  Shift
<1>1. CASE \E t \in Threads : ThreadStep(t)
  BY <1>1, ThreadShift
<1>2. CASE Reap
  <2>1. got' = got
    BY <1>2 DEF Reap
  <2> QED BY <1>2, <2>1, ReapAside, BalShift
<1>3. CASE Tick
  <2>1. got' = got
    BY <1>3 DEF Tick
  <2> QED BY <1>3, <2>1, TickAside, BalShift
<1>4. CASE IdleLoop \/ UNCHANGED vars
  <2>1. k' = k /\ th' = th /\ got' = got
    BY <1>4 DEF IdleLoop, vars
  <2>2. StepAside
    BY <2>1, SchedFrames, NoneAside, SameCalm DEF StepAside
  <2> QED BY <2>1, <2>2, BalShift
<1>5. CASE Isr
  <2>1. CASE Handler("sem_release", rt_sem_release(k)) /\ \E x : got' = [got EXCEPT !.bal = x]
    BY <2>1, IsrAside, BalShift
  <2>2. CASE \E set \in SUBSET Bits \ {{}} : Handler("event_send", rt_event_send(k, set)) /\ got' = got
    BY <2>2, IsrAside, BalShift
  <2>3. CASE \E v \in Vals : Handler("mb_send", _rt_mb_send_wait(k, k.cur, v, 0)) /\ got' = got
    BY <2>3, IsrMailShift
  <2> QED BY <1>5, <2>1, <2>2, <2>3 DEF Isr, Same
<1> QED BY <1>1, <1>2, <1>3, <1>4, <1>5 DEF Next

\* The inductive invariant of the objects.
StockInv == RtInv /\ (IpcLoad(load) => Stocked)

\* It holds at first, and every step keeps it.
LEMMA StockKept ==
  /\ Init => StockInv
  /\ StockInv /\ [Next]_vars => StockInv'
<1>1. ASSUME Init PROVE StockInv
  BY <1>1, InitInv, InitStocked DEF StockInv
<1>2. ASSUME StockInv, [Next]_vars PROVE StockInv'
  <2>1. RtInv' /\ load' = load
    BY <1>2, NextInv, LoadKept DEF StockInv
  <2>2. ASSUME IpcLoad(load) PROVE Stocked'
    <3>1. Safe /\ Stocked
      BY <1>2, <2>2 DEF StockInv, RtInv
    <3>2. Shift
      BY <1>2, <3>1, NextShift
    <3> QED BY <3>2 DEF Shift, MailMove, MsgMove, PoolMove, Stocked
  <2> QED BY <2>1, <2>2 DEF StockInv, IpcLoad
<1> QED BY <1>1, <1>2

\* The mailbox holds mails in the order they were sent, every slot of the
\* message queue is queued, free or being copied by one thread, and every block
\* of the memory pool is free or held by one thread, whatever the threads and
\* the interrupts do (ipc.c, mempool.c).
THEOREM RtStock == Spec => []StockInv
BY StockKept, PTL DEF Spec

\* The mails as the property counts them.
LEMMA MailsMod ==
  ASSUME NEW b, MbOK(b)
  PROVE  [i \in 1 .. b.entry |-> b.pool[(b.out + i - 1) % MbSize]] = Mails(b)
<1>1. b.out \in 0 .. MbSize - 1 /\ b.entry \in 0 .. MbSize /\ MbSize \in Nat \ {0}
  BY IpcAssumption DEF MbOK
<1>2. ASSUME NEW i \in 1 .. b.entry PROVE (b.out + i - 1) % MbSize = Wrap(b.out + i - 1)
  <2>1. b.out + i - 1 \in Nat /\ b.out + i - 1 < MbSize + MbSize
    BY <1>1
  <2> QED BY <2>1, WrapMod
<1> QED BY <1>2 DEF Mails

\* A step of the mailbox and of the message queue, as the bounded queues they
\* implement take it.
LEMMA StepQueues ==
  ASSUME StockInv, IpcLoad(load), [Next]_vars
  PROVE  [Mb!QNext]_<<MbContents, got.mail>> /\ [Mq!QNext]_<<MqContents, got.msg>>
<1>1. Safe /\ Stocked
  BY DEF StockInv, RtInv
<1>2. Shift
  BY <1>1, NextShift
<1>3. MbContents = Mails(k.mb) /\ MbContents' = Mails(k'.mb)
  BY <1>1, <1>2, MailsMod DEF MbContents, Shift, MailMove, Stocked
<1>4. MqContents = Msgs(k.mq) /\ MqContents' = Msgs(k'.mq)
  <2>1. ASSUME NEW q, NEW h, MqOK(q, h), NEW c, c = Chain(q.next, q.head)
        PROVE  DOMAIN c = 1 .. Len(c)
    <3>1. PICK Q, R : SlotUse(q, h, Q, R)
      BY <2>1 DEF MqOK
    <3>2. c = Q /\ Q \in Seq(Slots)
      BY <2>1, <3>1, PathIsChain DEF SlotUse, Path, IsList
    <3> QED BY <3>2
  <2>2. MqOK(k.mq, th) /\ MqOK(k'.mq, th')
    BY <1>1, <1>2 DEF Stocked, Shift, MsgMove
  <2>3. DOMAIN Chain(k.mq.next, k.mq.head) = 1 .. Len(Chain(k.mq.next, k.mq.head))
    BY <2>1, <2>2
  <2>4. DOMAIN Chain(k'.mq.next, k'.mq.head) = 1 .. Len(Chain(k'.mq.next, k'.mq.head))
    BY <2>1, <2>2
  <2> QED BY <2>3, <2>4 DEF MqContents, Msgs, Texts
<1>5. Moves(MbContents, MbContents', got.mail, got'.mail, MbSize)
  BY <1>2, <1>3 DEF Shift, MailMove
<1>6. Moves(MqContents, MqContents', got.msg, got'.msg, MqSize)
  BY <1>2, <1>4 DEF Shift, MsgMove
<1>7. [Mb!QNext]_<<MbContents, got.mail>>
  BY <1>5 DEF Moves, Mb!QNext, Mb!Put, Mb!Urgent, Mb!Get, Mb!Reset
<1>8. [Mq!QNext]_<<MqContents, got.msg>>
  BY <1>6 DEF Moves, Mq!QNext, Mq!Put, Mq!Urgent, Mq!Get, Mq!Reset
<1> QED BY <1>7, <1>8

\* At first they are empty.
LEMMA InitQueues ==
  ASSUME Init
  PROVE  Mb!QInit /\ Mq!QInit
<1>1. /\ Stocked /\ Mails(k.mb) = << >> /\ Msgs(k.mq) = << >> /\ got.mail = None /\ got.msg = None
  BY InitStocked
<1>2. MbContents = << >>
  BY <1>1, MailsMod DEF MbContents, Stocked
<1>3. MqContents = << >>
  <2>1. PICK Q, R : SlotUse(k.mq, th, Q, R)
    BY <1>1 DEF Stocked, MqOK
  <2>2. PICK c : c = Chain(k.mq.next, k.mq.head)
    OBVIOUS
  <2>3. c = Q /\ Q \in Seq(Slots)
    BY <2>1, <2>2, PathIsChain DEF SlotUse, Path, IsList
  <2>4. Texts(k.mq.val, c) = << >>
    BY <1>1, <2>2 DEF Msgs
  <2>5. DOMAIN c = 1 .. Len(c)
    BY <2>3
  <2>6. MqContents = Texts(k.mq.val, c)
    BY <2>2, <2>5 DEF MqContents, Texts
  <2> QED BY <2>4, <2>6
<1> QED BY <1>1, <1>2, <1>3 DEF Mb!QInit, Mq!QInit

\* The ring buffer of the mailbox and the linked slots of the message queue
\* implement bounded queues, whatever the threads and the interrupts do (ipc.c).
THEOREM RtMessages == Spec /\ IpcLoad(load) => MessagesInOrder
<1>1. Init => Mb!QInit /\ Mq!QInit
  BY InitQueues
<1>2. StockInv /\ IpcLoad(load) /\ [Next]_vars
        => [Mb!QNext]_<<MbContents, got.mail>> /\ [Mq!QNext]_<<MqContents, got.msg>>
  BY StepQueues
<1>3. IpcLoad(load) /\ [Next]_vars => IpcLoad(load)'
  BY LoadKept DEF IpcLoad
<1> QED BY <1>1, <1>2, <1>3, RtStock, PTL DEF Spec, MessagesInOrder, Mb!QSpec, Mq!QSpec

\* As many slots are in a list as the list is long.
LEMMA ListSize ==
  ASSUME NEW q, IsList(Slots, q)
  PROVE  /\ IsFiniteSet(ToSet(q)) /\ Cardinality(ToSet(q)) = Len(q) /\ Len(q) \in Nat
         /\ \A x : x \in ToSet(q) <=> InList(x, q)
         /\ ToSet(q) \subseteq Slots
<1>1. q \in Seq(Slots) /\ Distinct(q) /\ Len(q) \in Nat
  BY DEF IsList
<1>2. DOMAIN q = 1 .. Len(q) /\ q \in [1 .. Len(q) -> ToSet(q)]
  BY <1>1 DEF ToSet
<1>3. q \in Bijection(1 .. Len(q), ToSet(q))
  BY <1>1, <1>2 DEF Bijection, Injection, Surjection, IsInjective, Distinct, ToSet
<1>4. IsFiniteSet(1 .. Len(q)) /\ Cardinality(1 .. Len(q)) = Len(q)
  BY <1>1, FS_Interval, SMTT(30)
<1>5. IsFiniteSet(ToSet(q)) /\ Cardinality(ToSet(q)) = Len(q)
  BY <1>3, <1>4, FS_Bijection DEF ExistsBijection
<1>6. \A x : x \in ToSet(q) <=> InList(x, q)
  BY DEF ToSet, InList
<1>7. ToSet(q) \subseteq Slots
  BY <1>1 DEF ToSet
<1> QED BY <1>1, <1>5, <1>6, <1>7

\* Two sets without a common element.
LEMMA Disjoint ==
  ASSUME NEW S, IsFiniteSet(S), NEW T, IsFiniteSet(T), \A x \in S : x \notin T
  PROVE  IsFiniteSet(S \cup T) /\ Cardinality(S \cup T) = Cardinality(S) + Cardinality(T)
<1>1. S \cap T = {}
  OBVIOUS
<1>2. /\ IsFiniteSet(S \cup T) /\ Cardinality(S \cup T) = Cardinality(S) + Cardinality(T) - Cardinality(S \cap T)
  BY FS_Union
<1>3. Cardinality(S) \in Nat /\ Cardinality(T) \in Nat
  BY FS_CardinalityType
<1>4. Cardinality(S \cap T) = 0
  BY <1>1, FS_EmptySet
<1> QED BY <1>2, <1>3, <1>4

\* The threads that copy, and their slots.
Busy(h) == {t \in Threads : Copies(h, t)}
InCopy(h) == {h[t].slot : t \in Busy(h)}

\* The slots in use add up.
LEMMA SlotsAdd ==
  ASSUME NEW q, NEW h, NEW Q, NEW R, SlotUse(q, h, Q, R), Covered(h, Q, R)
  PROVE  /\ Len(Q) + Len(R) + Cardinality(Busy(h)) = MqSize
         /\ ToSet(Q) \cup ToSet(R) \cup InCopy(h) = 1 .. MqSize
<1>0. PICK B, S : B = Busy(h) /\ S = InCopy(h)
  OBVIOUS
<1>1. IsList(Slots, Q) /\ IsList(Slots, R)
  BY DEF SlotUse, Path
<1>2. /\ IsFiniteSet(ToSet(Q)) /\ Cardinality(ToSet(Q)) = Len(Q) /\ \A x : x \in ToSet(Q) <=> InList(x, Q)
      /\ IsFiniteSet(ToSet(R)) /\ Cardinality(ToSet(R)) = Len(R) /\ \A x : x \in ToSet(R) <=> InList(x, R)
      /\ ToSet(Q) \subseteq Slots /\ ToSet(R) \subseteq Slots
  BY <1>1, ListSize
<1>3. B \in SUBSET Threads /\ IsFiniteSet(B)
  BY <1>0, FS_Subset, SchedAssumption DEF Busy
<1>4. IsFiniteSet(S) /\ Cardinality(S) = Cardinality(B)
  <2>1. PICK f : f = [t \in B |-> h[t].slot]
    OBVIOUS
  <2>2. f \in Bijection(B, S)
    BY <1>0, <2>1 DEF Busy, InCopy, SlotUse, Copies, Bijection, Injection, Surjection, IsInjective
  <2> QED BY <1>3, <2>2, FS_Bijection DEF ExistsBijection
<1>5. \A x \in S : x \in Slots /\ x \notin ToSet(Q) /\ x \notin ToSet(R)
  BY <1>0, <1>2 DEF Busy, InCopy, SlotUse
<1>6. \A x \in ToSet(Q) : x \notin ToSet(R)
  BY <1>2 DEF SlotUse
<1>7. ToSet(Q) \cup ToSet(R) \cup S = Slots
  <2>1. ASSUME NEW x \in Slots PROVE x \in ToSet(Q) \cup ToSet(R) \cup S
    BY <1>0, <1>2 DEF Busy, InCopy, Covered
  <2> QED BY <1>2, <1>5, <2>1
<1>8. /\ IsFiniteSet(ToSet(Q) \cup ToSet(R))
      /\ Cardinality(ToSet(Q) \cup ToSet(R)) = Len(Q) + Len(R)
  BY <1>2, <1>6, Disjoint
<1>9. \A x \in ToSet(Q) \cup ToSet(R) : x \notin S
  BY <1>5
<1>10. Cardinality(Slots) = Len(Q) + Len(R) + Cardinality(B)
  <2>1. Cardinality((ToSet(Q) \cup ToSet(R)) \cup S) = Cardinality(ToSet(Q) \cup ToSet(R)) + Cardinality(S)
    BY <1>4, <1>8, <1>9, Disjoint
  <2> QED BY <1>4, <1>7, <1>8, <2>1
<1>11. MqSize \in Nat /\ Cardinality(Slots) = MqSize
  <2>1. MqSize \in Nat
    BY IpcAssumption
  <2> QED BY <2>1, FS_Interval DEF Slots
<1> QED BY <1>0, <1>7, <1>10, <1>11 DEF Slots

\* A block is held by one thread or by none.
LEMMA BlockHeld ==
  ASSUME NEW p, NEW held, MpOK(p, held), NEW b \in Blocks
  PROVE  Cardinality({t \in Threads : b \in held[t]}) = IF InList(b, p.list) THEN 0 ELSE 1
<1>1. CASE InList(b, p.list)
  <2>1. {t \in Threads : b \in held[t]} = {}
    BY <1>1 DEF MpOK
  <2> QED BY <1>1, <2>1, FS_EmptySet
<1>2. CASE ~InList(b, p.list)
  <2>1. PICK t \in Threads : b \in held[t]
    BY <1>2 DEF MpOK
  <2>2. {u \in Threads : b \in held[u]} = {t}
    BY <2>1 DEF MpOK
  <2> QED BY <1>2, <2>2, FS_Singleton
<1> QED BY <1>1, <1>2

\* Every slot of the message queue is queued, free or being copied by one
\* thread and every block of the pool free or held by one thread, in every
\* reachable state of a load of IpcLoad (ipc.c, mempool.c).
THEOREM RtSlots == Spec => [](IpcLoad(load) => SlotsApart)
<1>1. ASSUME Stocked PROVE SlotsApart
  <2>1. PICK Q, R : SlotUse(k.mq, th, Q, R) /\ Covered(th, Q, R)
    BY <1>1 DEF Stocked, MqOK
  <2>2. Chain(k.mq.next, k.mq.head) = Q /\ Chain(k.mq.next, k.mq.free) = R
    BY <2>1, PathIsChain DEF SlotUse
  <2>3. Len(Q) = k.mq.entry /\ Len(Q) \in Nat
    BY <2>1, PathEmpty DEF SlotUse
  <2>4. k.mq.tail = IF Q = << >> THEN Null ELSE Last(Q)
    <3>1. k.mq.tail = At(Q, Len(Q)) /\ (Q = << >> <=> Len(Q) = 0)
      BY <2>1, PathEmpty DEF SlotUse
    <3> QED BY <2>3, <3>1 DEF At, Last
  <2>5. /\ Len(Q) + Len(R) + Cardinality(Busy(th)) = MqSize
        /\ ToSet(Q) \cup ToSet(R) \cup InCopy(th) = 1 .. MqSize
    BY <2>1, SlotsAdd
  <2>6. /\ Len(k.mp.list) = k.mp.free
        /\ \A b \in Blocks :
             Cardinality({t \in Threads : b \in got.blk[t]}) = IF InList(b, k.mp.list) THEN 0 ELSE 1
    <3>1. MpOK(k.mp, got.blk)
      BY <1>1 DEF Stocked
    <3>2. Len(k.mp.list) = k.mp.free
      BY <3>1 DEF MpOK
    <3> QED BY <3>1, <3>2, BlockHeld
  <2> QED BY <2>2, <2>3, <2>4, <2>5, <2>6 DEF SlotsApart, Busy, InCopy, Copies
<1> QED BY <1>1, RtStock, PTL DEF StockInv

-----------------------------------------------------------------------------
(***************************************************************************)
(* No wake-up is lost.  A step that leaves the objects but F alone, makes  *)
(* no thread wait but in one of the lists W, and whose own thread has not  *)
(* been resumed for anything there is a stock of.                          *)
(***************************************************************************)
StockLists == {"mb_recv", "mb_send", "mq_recv", "mq_send", "mp"}
Apathetic(t) == \A w \in StockLists : t \notin Res(k, th, OpOf(w))
Drifts(F, W) ==
  Keeps(k, k', F) /\ \E t : Gentle(k, k', t, W) /\ CallsStay(th, th', t) /\ Apathetic(t)

\* A thread that is in no waiting call, or in one on something else.
LEMMA NotStock ==
  ASSUME NEW t, th[t].at \notin Waiting \/ th[t].op \notin StockLists \cup {"mp_alloc"} \/ k.err[t] # "EOK"
  PROVE  Apathetic(t)
BY DEF Apathetic, Res, StockLists, OpOf, Waiting

\* A call goes on: the other calls do not.
LEMMA GoStays ==
  ASSUME NEW t, NEW r, NEW o, NEW n, NEW arg, Go(t, r, o, n, arg), DOMAIN th = Threads
  PROVE  CallsStay(th, th', t) /\ k' = r.k
BY DEF Go, CallsStay

\* More lists, and more objects.
LEMMA DriftsMore ==
  ASSUME NEW F, NEW W, Drifts(F, W), NEW E, F \subseteq E, NEW V, W \subseteq V
  PROVE  Drifts(E, V)
BY KeepsMore DEF Drifts, Gentle

\* rt_schedule ends a call or gives up the processor.
LEMMA SchedDrifts ==
  ASSUME Safe, NEW t, Sched(t)
  PROVE  Drifts({}, {})
<1>1. /\ k.cur = t /\ th[t].at \in {"block", "resched"} /\ KInv(k) /\ t \in Threads /\ DOMAIN th = Threads
      /\ k.stat[Idle] \in {"ready", "running"} /\ k.cur \in Threads /\ DOMAIN th[t] = {"at", "op", "to", "el", "arg", "slot"}
  BY DEF Safe, System, Base, Sched, Own
<1>2. PICK e : e = IF th[t].at = "block" THEN [th[t] EXCEPT !.at = "woken"] ELSE Top
  OBVIOUS
<1>3. th' = [th EXCEPT ![t] = e]
  BY <1>2 DEF Sched
<1>4. ASSUME NEW u PROVE CallsStay(th, th', u)
  BY <1>1, <1>2, <1>3 DEF CallsStay, Waiting
<1>5. CASE th[t].op = "sleep"
  <2>1. PICK b : b = [k EXCEPT !.err[t] = "EINTR"]
    OBVIOUS
  <2>2. k' = rt_schedule(b)
    BY <1>5, <2>1 DEF Sched
  <2>3. Preset(k, b)
    BY <1>1, <2>1, PresetMade DEF Errors
  <2>4. KInv(b) /\ b.stat = k.stat /\ b.cur = k.cur
    BY <1>1, <2>3, PresetFacts
  <2>5. Wakes(b, k', {}, {})
    BY <1>1, <2>2, <2>4, SchedWakes
  <2>6. Gentle(k, b, t, {}) /\ Gentle(b, k', t, {})
    BY <1>1, <2>3, <2>5, PresetGentle, WakesGentle
  <2>7. Gentle(k, k', t, {})
    BY <2>6, GentleTrans
  <2>8. Keeps(k, k', {})
    <3>1. Keeps(k, b, {}) /\ Keeps(b, k', {})
      BY <2>1, <2>2, AssignFrames, ScheduleFrame
    <3> QED BY <3>1, KeepsTrans
  <2>9. Apathetic(t)
    BY <1>5, NotStock DEF StockLists
  <2> QED BY <1>4, <2>7, <2>8, <2>9 DEF Drifts
<1>6. CASE th[t].op # "sleep"
  <2>1. k' = rt_schedule(k)
    BY <1>6 DEF Sched
  <2>2. Wakes(k, k', {}, {})
    BY <1>1, <2>1, SchedWakes
  <2>3. Gentle(k, k', None, {})
    BY <2>2, WakesGentle
  <2>4. Apathetic(None)
    BY IpcAssumption DEF Apathetic, Res
  <2>5. Keeps(k, k', {})
    BY <2>1, ScheduleFrame
  <2> QED BY <1>4, <2>3, <2>4, <2>5 DEF Drifts
<1> QED BY <1>5, <1>6

\* A section that only wakes threads, by a thread that has not been resumed.
LEMMA WakesDrifts ==
  ASSUME NEW t, NEW r, NEW o, NEW n, NEW arg, Go(t, r, o, n, arg), DOMAIN th = Threads, Apathetic(t),
         NEW G, NEW F, Wakes(k, r.k, G, F)
  PROVE  Drifts(F, {})
<1>1. CallsStay(th, th', t) /\ k' = r.k
  BY GoStays
<1>2. Gentle(k, k', t, {}) /\ Keeps(k, k', F)
  BY <1>1, WakesGentle, WakesFrame
<1> QED BY <1>1, <1>2 DEF Drifts

\* A section of a call by a thread that has not been resumed.
LEMMA SectionDrifts ==
  ASSUME Safe, NEW t, t = k.cur, NEW r, NEW o, NEW n, NEW arg, Go(t, r, o, n, arg), Apathetic(t),
         NEW G, NEW F, F \subseteq Objects, Section(k, r, o, G, F)
  PROVE  Drifts(F, IF r.at = "block" THEN ListsOf(o) ELSE {})
<1>1. KInv(k) /\ DOMAIN th = Threads
  BY DEF Safe, System, Base
<1>2. CallsStay(th, th', t) /\ k' = r.k
  BY <1>1, GoStays
<1>3. Gentle(k, k', t, IF r.at = "block" THEN ListsOf(o) ELSE {}) /\ Keeps(k, k', F)
  BY <1>1, <1>2, SectionGentle, SectionFrame
<1> QED BY <1>2, <1>3 DEF Drifts

\* The calls of thread.c.
LEMMA ThreadDrifts ==
  ASSUME Safe, NEW t, \/ Yield(t) \/ Sleep(t) \/ SleepWoken(t) \/ SuspendSelf(t) \/ Resume(t)
                      \/ Startup(t) \/ StartupCheck(t) \/ Unlink(t) \/ Insert(t) \/ Exit(t)
  PROVE  Drifts({}, {})
<1>0. ASSUME th[t].at = "top" PROVE Apathetic(t)
  BY <1>0, NotStock DEF Waiting
<1>1. CASE Yield(t)
  <2>1. Enter(t, "yield") /\ Go(t, Resched(Yielding(k, t), "EOK"), "yield", 0, None)
    BY <1>1 DEF Yield, Yielding
  <2>2. t \in Threads /\ DOMAIN th = Threads /\ th[t].at = "top" /\ KInv(k) /\ t = k.cur
    BY <2>1, Entering
  <2>3. PICK r : r = Resched(Yielding(k, t), "EOK")
    OBVIOUS
  <2>4. Wakes(k, r.k, {}, {})
    BY <2>2, <2>3, Yielded DEF Resched
  <2> QED BY <1>0, <2>1, <2>2, <2>3, <2>4, WakesDrifts
<1>2. CASE Sleep(t)
  <2>1. PICK n, b, c : /\ n \in load.to /\ n > 0
                       /\ Enter(t, "sleep") /\ b = [k EXCEPT !.err[t] = "EOK"] /\ c = rt_thread_suspend(b, t)
                       /\ Go(t, Block(rt_timer_start(c, t, n)), "sleep", n, None)
    BY <1>2 DEF Sleep
  <2>2. t \in Threads /\ DOMAIN th = Threads /\ th[t].at = "top" /\ KInv(k) /\ t = k.cur /\ k.stat[t] = "running" /\ n \in Int
    BY <2>1, Entering
  <2>3. CallsStay(th, th', t) /\ k' = rt_timer_start(c, t, n)
    BY <2>1, <2>2, GoStays DEF Block
  <2>4. Preset(k, b)
    BY <2>1, <2>2, PresetMade DEF Errors
  <2>5. KInv(b) /\ b.stat = k.stat /\ b.cur = k.cur /\ Gentle(k, b, t, {})
    BY <2>2, <2>4, PresetFacts, PresetGentle
  <2>6. KInv(c) /\ SameBut(b, c, {"stat", "ready", "group"}) /\ c.stat = [b.stat EXCEPT ![t] = "suspend"]
    <3>1. b.cur = t /\ b.cur \in Threads /\ b.stat[b.cur] = "running" /\ c = rt_thread_suspend(b, b.cur)
      BY <2>1, <2>2, <2>5
    <3> QED BY <2>5, <3>1, Suspended
  <2>7. Gentle(b, c, t, {})
    <3>1. c.err = b.err /\ c.wait = b.wait
      BY <2>6 DEF SameBut, Fields
    <3> QED BY <2>5, <2>6, <3>1, StatGentle
  <2>8. c.stat[t] = "suspend" /\ Kernel(c)
    BY <2>2, <2>5, <2>6 DEF KInv, Kernel, KType
  <2>9. SameBut(c, k', {"timer"}) /\ {"timer"} \cap {"stat", "err", "wait"} = {}
    BY <2>2, <2>3, <2>8, TimerStarted
  <2>10. Gentle(c, k', t, {})
    BY <2>9, SameGentle
  <2>11. Gentle(k, k', t, {})
    BY <2>5, <2>7, <2>10, GentleTrans
  <2>12. Keeps(k, b, {}) /\ Keeps(b, c, {}) /\ Keeps(c, k', {})
    BY <2>1, <2>3, AssignFrames, SchedFrames
  <2>13. Keeps(k, k', {})
    BY <2>12, KeepsTrans
  <2> QED BY <1>0, <2>2, <2>3, <2>11, <2>13 DEF Drifts
<1>3. CASE SleepWoken(t)
  <2>1. PICK x : /\ Woken(t, "sleep") /\ x = (IF k.err[t] = "ETIMEOUT" THEN "EOK" ELSE k.err[t])
                 /\ Go(t, Ret([k EXCEPT !.err[t] = x], "EOK"), None, 0, None)
    BY <1>3 DEF SleepWoken
  <2>2. t \in Threads /\ th[t].op = "sleep" /\ Base(load, k, th) /\ t = k.cur /\ KInv(k)
    BY <2>1, Waking
  <2>3. DOMAIN th = Threads
    BY <2>2 DEF Base
  <2>4. CallsStay(th, th', t) /\ k' = [k EXCEPT !.err[t] = x]
    BY <2>1, <2>3, GoStays DEF Ret
  <2>5. x \in Errors
    BY <2>1, <2>2 DEF Errors, KInv, Kernel, KType
  <2>6. Preset(k, k')
    BY <2>2, <2>4, <2>5, PresetMade
  <2>7. Gentle(k, k', t, {}) /\ Keeps(k, k', {})
    BY <2>2, <2>6, PresetGentle, PresetFrame
  <2>8. Apathetic(t)
    BY <2>2, NotStock DEF StockLists
  <2> QED BY <2>4, <2>7, <2>8 DEF Drifts
<1>4. CASE SuspendSelf(t)
  <2>1. Enter(t, "suspend") /\ Go(t, Resched(rt_thread_suspend(k, t), "EOK"), "suspend", 0, None)
    BY <1>4 DEF SuspendSelf
  <2>2. t \in Threads /\ DOMAIN th = Threads /\ th[t].at = "top" /\ KInv(k) /\ t = k.cur /\ k.stat[t] = "running"
    BY <2>1, Entering
  <2>3. CallsStay(th, th', t) /\ k' = rt_thread_suspend(k, t)
    BY <2>1, <2>2, GoStays DEF Resched
  <2>4. SameBut(k, k', {"stat", "ready", "group"}) /\ k'.stat = [k.stat EXCEPT ![t] = "suspend"]
    BY <2>2, <2>3, Suspended
  <2>5. Gentle(k, k', t, {})
    <3>1. k'.err = k.err /\ k'.wait = k.wait
      BY <2>4 DEF SameBut, Fields
    <3> QED BY <2>2, <2>4, <3>1, StatGentle
  <2>6. Keeps(k, k', {})
    BY <2>3, SchedFrames
  <2> QED BY <1>0, <2>2, <2>3, <2>5, <2>6 DEF Drifts
<1>5. CASE Resume(t) \/ StartupCheck(t)
  <2>1. PICK u, o : k.cur = t /\ th[t].at \in {"top", "check"} /\ Go(t, check_suspended(k, u), o, 0, u)
    BY <1>5 DEF Resume, StartupCheck, Enter
  <2>2. DOMAIN th = Threads
    BY DEF Safe, System, Base
  <2>3. check_suspended(k, u).k = k
    BY DEF check_suspended, Between, Resched
  <2>4. CallsStay(th, th', t) /\ k' = k
    BY <2>1, <2>2, <2>3, GoStays
  <2>5. Gentle(k, k', t, {}) /\ Keeps(k, k', {})
    BY <2>4, SchedFrames DEF Gentle
  <2>6. Apathetic(t)
    BY <2>1, NotStock DEF Waiting
  <2> QED BY <2>4, <2>5, <2>6 DEF Drifts
<1>6. CASE Startup(t)
  <2>1. PICK u, b : /\ u \in Threads /\ k.stat[u] = "init" /\ b = [k EXCEPT !.stat[u] = "suspend"]
                    /\ Enter(t, "startup") /\ Go(t, Between(b, "check"), "startup", 0, u)
    BY <1>6 DEF Startup
  <2>2. t \in Threads /\ DOMAIN th = Threads /\ th[t].at = "top" /\ KInv(k)
    BY <2>1, Entering
  <2>3. CallsStay(th, th', t) /\ k' = b
    BY <2>1, <2>2, GoStays DEF Between
  <2>4. /\ SameBut(k, b, {"stat"}) /\ b.stat = [k.stat EXCEPT ![u] = "suspend"]
        /\ DOMAIN k.stat = Threads
    <3>1. Kernel(k) /\ DOMAIN k.stat = Threads
      BY <2>2 DEF KInv, Kernel, KType
    <3>2. Stated(k, b, u, "suspend")
      BY <2>1, <3>1, StatSet
    <3> QED BY <3>1, <3>2 DEF Stated
  <2>5. Gentle(k, b, t, {})
    <3>1. b.err = k.err /\ b.wait = k.wait
      BY <2>4 DEF SameBut, Fields
    <3>2. ASSUME NEW v \in Threads, k.stat[v] \in Active PROVE b.stat[v] = k.stat[v]
      BY <2>1, <2>4, <3>2 DEF Active
    <3> QED BY <3>1, <3>2 DEF Gentle
  <2>6. Keeps(k, b, {})
    BY <2>1, AssignFrames
  <2> QED BY <1>0, <2>2, <2>3, <2>5, <2>6 DEF Drifts
<1>7. CASE Unlink(t)
  <2>1. k.cur = t /\ th[t].at = "unlink" /\ Go(t, detach(k, th[t].arg), th[t].op, 0, th[t].arg)
    BY <1>7 DEF Unlink
  <2>2. t \in Threads /\ DOMAIN th = Threads /\ KInv(k)
    BY <2>1 DEF Safe, System, Base
  <2>3. PICK u, r : u = th[t].arg /\ r = detach(k, u)
    OBVIOUS
  <2>4. u \in Threads /\ k.stat[u] = "suspend"
    BY <2>1, <2>2, <2>3, StillSuspended
  <2>5. Wakes(k, r.k, {}, {})
    BY <2>2, <2>3, <2>4, UnlinkWakes
  <2>6. Apathetic(t)
    BY <2>1, NotStock DEF Waiting
  <2> QED BY <2>1, <2>2, <2>3, <2>5, <2>6, WakesDrifts
<1>8. CASE Insert(t)
  <2>1. k.cur = t /\ th[t].at = "insert"
        /\ Go(t, Resched(rt_schedule_insert_thread(k, th[t].arg), "EOK"), th[t].op, 0, None)
    BY <1>8 DEF Insert
  <2>2. t \in Threads /\ DOMAIN th = Threads /\ Own(load, k, th[t], t) /\ KInv(k)
    BY <2>1 DEF Safe, System, Base
  <2>3. PICK u : u = th[t].arg
    OBVIOUS
  <2>4. Loose(k, u)
    BY <2>1, <2>2, <2>3 DEF Own, Aims
  <2>5. CallsStay(th, th', t) /\ k' = rt_schedule_insert_thread(k, u)
    BY <2>1, <2>2, <2>3, GoStays DEF Resched
  <2>6. SameBut(k, k', {"stat", "ready", "group"}) /\ Awake(k, k', u)
    BY <2>2, <2>4, <2>5, Enlisted DEF Loose
  <2>7. k'.err = k.err /\ k'.wait = k.wait /\ DOMAIN k.stat = Threads
    BY <2>2, <2>6 DEF SameBut, Fields, KInv, Kernel, KType
  <2>8. Gentle(k, k', t, {})
    BY <2>6, <2>7 DEF Gentle, Awake, Active
  <2>9. Keeps(k, k', {})
    BY <2>5, SchedFrames
  <2>10. Apathetic(t)
    BY <2>1, NotStock DEF Waiting
  <2> QED BY <2>5, <2>8, <2>9, <2>10 DEF Drifts
<1>9. CASE Exit(t)
  <2>1. Enter(t, "exit") /\ Go(t, Resched(_thread_exit(k, t), "EOK"), "exit", 0, None)
    BY <1>9 DEF Exit
  <2>2. t \in Threads /\ DOMAIN th = Threads /\ th[t].at = "top" /\ KInv(k) /\ t = k.cur /\ k.stat[t] = "running"
    BY <2>1, Entering
  <2>3. CallsStay(th, th', t) /\ k' = _thread_exit(k, t)
    BY <2>1, <2>2, GoStays DEF Resched
  <2>4. /\ SameBut(k, k', {"ready", "group", "timer", "stat", "yld", "wait"})
        /\ k'.stat = [k.stat EXCEPT ![t] = "close"] /\ WaitMore(k, k', t, "defunct")
    BY <2>2, <2>3, Exited
  <2>5. Keeps(k, k', {})
    BY <2>4 DEF SameBut, Keeps, Outer, Fields
  <2>6. k'.err = k.err
    BY <2>4 DEF SameBut, Fields
  <2>7. ASSUME NEW w \in IpcLists, NEW u \in Threads, InList(u, k'.wait[w])
        PROVE  InList(u, k.wait[w])
    <3>1. w \in Lists /\ w # "defunct"
      BY DEF IpcLists, Lists, WaitLists
    <3> QED BY <2>4, <2>7, <3>1 DEF WaitMore
  <2>8. Gentle(k, k', t, {})
    BY <2>2, <2>4, <2>6, <2>7, StatGentle
  <2> QED BY <1>0, <2>2, <2>3, <2>5, <2>8 DEF Drifts
<1> QED BY <1>1, <1>2, <1>3, <1>4, <1>5, <1>6, <1>7, <1>8, <1>9

\* rt_enter_critical and rt_exit_critical.
LEMMA LockDrifts ==
  ASSUME Safe, NEW t, EnterCritical(t) \/ rt_exit_critical(t)
  PROVE  Drifts({"lock"}, {})
<1>1. PICK r, o : Enter(t, "critical") /\ Go(t, r, o, 0, None) /\ \E x : r.k = [k EXCEPT !.lock = x]
  <2>1. CASE EnterCritical(t)
    <3>1. Enter(t, "critical") /\ Go(t, Ret(rt_enter_critical(k), "EOK"), None, 0, None)
      BY <2>1 DEF EnterCritical
    <3>2. Ret(rt_enter_critical(k), "EOK").k = [k EXCEPT !.lock = k.lock + 1]
      BY DEF Ret, rt_enter_critical
    <3> QED BY <3>1, <3>2
  <2>2. CASE rt_exit_critical(t)
    <3>1. PICK r, c : /\ Enter(t, "critical") /\ c = [k EXCEPT !.lock = k.lock - 1]
                      /\ r = (IF c.lock = 0 THEN Resched(c, "EOK") ELSE Ret(c, "EOK")) /\ Go(t, r, "critical", 0, None)
      BY <2>2 DEF rt_exit_critical
    <3>2. r.k = c
      BY <3>1 DEF Ret, Resched
    <3> QED BY <3>1, <3>2
  <2> QED BY <2>1, <2>2
<1>2. t \in Threads /\ DOMAIN th = Threads /\ th[t].at = "top" /\ KInv(k)
  BY <1>1, Entering
<1>3. CallsStay(th, th', t) /\ k' = r.k
  BY <1>1, <1>2, GoStays
<1>4. SameBut(k, k', {"lock"}) /\ {"lock"} \cap {"stat", "err", "wait"} = {}
  BY <1>1, <1>2, <1>3 DEF SameBut, KInv, Kernel, KType, Fields
<1>5. Gentle(k, k', t, {})
  BY <1>4, SameGentle
<1>6. Keeps(k, k', {"lock"})
  BY <1>4 DEF SameBut, Keeps, Outer, Fields
<1>7. Apathetic(t)
  BY <1>2, NotStock DEF Waiting
<1> QED BY <1>3, <1>5, <1>6, <1>7 DEF Drifts

\* The idle thread frees a thread.
LEMMA ReapDrifts ==
  ASSUME Safe, Reap
  PROVE  Drifts({}, {})
<1>1. Base(load, k, th) /\ KInv(k) /\ k.init \in [Threads -> Prios] /\ DOMAIN th = Threads
  BY DEF Safe, System, Base
<1>2. PICK t : /\ t = Head(k.wait["defunct"]) /\ k.wait["defunct"] # << >> /\ k' = Reaping(k, t)
               /\ th' = Moved(th, t, Top)
  BY DEF Reap, Reaping, Moved
<1>3. IsList(Threads, k.wait["defunct"]) /\ "defunct" \in Lists
  BY <1>1 DEF KInv, Kernel, WaitOK, Lists, WaitLists
<1>4. t \in Threads /\ InList(t, k.wait["defunct"])
  BY <1>2, <1>3, EmptyFacts DEF IsList
<1>5. k.stat[t] = "close"
  BY <1>1, <1>3, <1>4 DEF KInv, Kernel, WaitOK
<1>6. /\ SameBut(k, k', {"ready", "wait", "stat", "yld", "prio", "slice", "err", "pend", "taken"})
      /\ k'.stat = [k.stat EXCEPT ![t] = "init"] /\ WaitLess(k, k', t)
      /\ \A u \in Threads : u # t => k'.err[u] = k.err[u]
  BY <1>1, <1>2, <1>4, <1>5, Reaped, SMTT(30)
<1>7. Keeps(k, k', {})
  BY <1>6 DEF SameBut, Keeps, Outer, Fields
<1>8. th[t].at \in {"resched", "top"}
  BY <1>1, <1>4, <1>5 DEF Base, Own
<1>9. Gentle(k, k', t, {})
  <2>1. DOMAIN k.stat = Threads
    BY <1>1 DEF KInv, Kernel, KType
  <2>2. ASSUME NEW w \in IpcLists, NEW u \in Threads, InList(u, k'.wait[w]) PROVE InList(u, k.wait[w])
    BY <1>6, <2>2 DEF WaitLess, IpcLists, Lists
  <2> QED BY <1>6, <2>1, <2>2 DEF Gentle
<1>10. CallsStay(th, th', t)
  BY <1>1, <1>2 DEF CallsStay, Moved
<1>11. Apathetic(t)
  BY <1>8, NotStock DEF Waiting
<1> QED BY <1>7, <1>9, <1>10, <1>11 DEF Drifts

\* The tick.
LEMMA TickDrifts ==
  ASSUME Safe, Tick
  PROVE  Drifts({}, {})
<1>1. Gentle(k, k', None, {}) /\ Keeps(k, k', {}) /\ CallsStay(th, th', None)
  BY TickAside DEF CallsStay
<1>2. Apathetic(None)
  BY IpcAssumption DEF Apathetic, Res
<1> QED BY <1>1, <1>2 DEF Drifts

-----------------------------------------------------------------------------
(* Nobody waits for a unit or an event that is there *)
SemAwaits(c) == c.sem > 0 => c.wait["sem"] = << >>
EvAwaits(c) ==
  /\ DOMAIN c.evset = Threads /\ DOMAIN c.evinfo = Threads
  /\ \A u \in Threads : InList(u, c.wait["ev"]) => Wanting(c, u)

\* No unit is released, nobody starts to wait for one.
LEMMA SemKept ==
  ASSUME NEW c, KInv(c), NEW d, KInv(d), NEW t, NEW W, Gentle(c, d, t, W), "sem" \notin W, SemAwaits(c),
         c.sem \in Int, d.sem \in Int, d.sem <= c.sem
  PROVE  SemAwaits(d)
<1>1. "sem" \in IpcLists
  BY DEF IpcLists, WaitLists
<1>2. d.wait["sem"] # << >> => c.wait["sem"] # << >>
  BY <1>1, StaysEmpty
<1> QED BY <1>2 DEF SemAwaits

\* No event is sent, nobody starts to wait for one.
LEMMA EvKept ==
  ASSUME NEW c, NEW d, NEW t, NEW W, Gentle(c, d, t, W), "ev" \notin W, EvAwaits(c),
         d.ev = c.ev, d.evset = c.evset, d.evinfo = c.evinfo
  PROVE  EvAwaits(d)
<1>1. "ev" \in IpcLists
  BY DEF IpcLists, WaitLists
<1>2. ASSUME NEW u \in Threads, InList(u, d.wait["ev"]) PROVE Wanting(d, u)
  <2>1. InList(u, c.wait["ev"])
    BY <1>1, <1>2 DEF Gentle
  <2> QED BY <2>1 DEF EvAwaits, Wanting
<1> QED BY <1>2 DEF EvAwaits

\* The step does not concern the semaphore, or the event object.
LEMMA DriftAwaits ==
  ASSUME Safe, Safe', NEW F, NEW W, Drifts(F, W)
  PROVE  /\ "sem" \notin F \cup W /\ SemAwaits(k) => SemAwaits(k')
         /\ ({"ev"} \cup EvWait) \cap (F \cup W) = {} /\ EvAwaits(k) => EvAwaits(k')
<1>1. KInv(k) /\ KInv(k') /\ k.sem \in Int /\ k'.sem \in Int /\ DOMAIN k = Fields
  <2>1. KInv(k) /\ KInv(k') /\ k.sem \in Int /\ k'.sem \in Int
    BY DEF Safe, System, Base
  <2> QED BY <2>1 DEF KInv, Kernel, KType
<1>2. PICK t : Gentle(k, k', t, W)
  BY DEF Drifts
<1>3. \A f \in Outer \ F : k'[f] = k[f]
  BY <1>1 DEF Drifts, Keeps
<1>4. ASSUME "sem" \notin F \cup W, SemAwaits(k) PROVE SemAwaits(k')
  <2>1. k'.sem = k.sem
    BY <1>3, <1>4 DEF Outer
  <2> QED BY <1>1, <1>2, <1>4, <2>1, SemKept
<1>5. ASSUME ({"ev"} \cup EvWait) \cap (F \cup W) = {}, EvAwaits(k) PROVE EvAwaits(k')
  <2>1. k'.ev = k.ev /\ k'.evset = k.evset /\ k'.evinfo = k.evinfo /\ "ev" \notin W
    BY <1>3, <1>5 DEF Outer, EvWait
  <2> QED BY <1>2, <1>5, <2>1, EvKept
<1> QED BY <1>4, <1>5

\* What holds of the semaphore.
Units0 == 0 .. SemMax
SemDrift == /\ Drifts({"sem"}, {"sem"})
            /\ SemAwaits(k) => SemAwaits(k')
            /\ k.sem \in Units0 => k'.sem \in Units0

\* The semaphore.
LEMMA SemDrifts ==
  ASSUME Safe, Safe', NEW t, SemTake(t) \/ SemWoken(t) \/ SemRelease(t) \/ SemControl(t)
  PROVE  SemDrift
<1>0. k.sem \in Nat /\ k'.sem \in Nat /\ DOMAIN th = Threads /\ {"sem"} \subseteq Objects /\ KInv(k) /\ KInv(k') /\ SemMax \in Nat
  BY IpcAssumption DEF Safe, System, Base, Objects
<1>1. ASSUME th[t].at = "top" PROVE Apathetic(t)
  BY <1>1, NotStock DEF Waiting
<1>2. ListsOf("sem_take") = {"sem"}
  BY DEF ListsOf, OpOf, IpcLists, WaitLists
<1>3. CASE SemTake(t)
  <2>1. PICK n \in load.to : Enter(t, "sem_take") /\ Go(t, _rt_sem_take(k, t, n), "sem_take", n, None)
    BY <1>3 DEF SemTake
  <2>2. /\ t \in Threads /\ th[t].at = "top" /\ n \in Int /\ t = k.cur /\ k.cur \in Threads
        /\ k.stat[k.cur] = "running"
    BY <2>1, Entering
  <2>3. PICK r : r = _rt_sem_take(k, t, n)
    OBVIOUS
  <2>4. /\ Section(k, r, "sem_take", {}, {"sem"})
        /\ \/ r.at = "top" /\ k.sem > 0 /\ r.k.sem = k.sem - 1
           \/ r.at = "top" /\ r.k = k
           \/ r.at = "block" /\ r.k.sem = k.sem
    BY <1>0, <2>2, <2>3, SemTaken
  <2>5. k.sem > 0 => r.at = "top"
    BY <2>3 DEF _rt_sem_take, Ret
  <2>6. CallsStay(th, th', t) /\ k' = r.k
    BY <1>0, <2>1, <2>3, GoStays
  <2>7. Drifts({"sem"}, IF r.at = "block" THEN {"sem"} ELSE {})
    BY <1>0, <1>1, <1>2, <2>1, <2>2, <2>3, <2>4, SectionDrifts
  <2>8. Drifts({"sem"}, {"sem"})
    BY <2>7, DriftsMore
  <2>9. ASSUME SemAwaits(k) PROVE SemAwaits(k')
    <3>1. CASE r.at = "block"
      BY <1>0, <2>4, <2>5, <2>6, <3>1 DEF SemAwaits
    <3>2. CASE r.at # "block"
      <4>1. PICK u : Gentle(k, k', u, {})
        BY <2>7, <3>2 DEF Drifts
      <4> QED BY <1>0, <2>4, <2>6, <2>9, <3>2, <4>1, SemKept
    <3> QED BY <3>1, <3>2
  <2>10. k.sem \in Units0 => k'.sem \in Units0
    BY <1>0, <2>4, <2>6 DEF Units0
  <2> QED BY <2>8, <2>9, <2>10 DEF SemDrift
<1>4. CASE SemWoken(t)
  <2>1. Woken(t, "sem_take") /\ Go(t, Ret(k, k.err[t]), None, 0, None)
    BY <1>4 DEF SemWoken
  <2>2. t \in Threads /\ th[t].op = "sem_take" /\ t = k.cur
    BY <2>1, Waking
  <2>3. CallsStay(th, th', t) /\ k' = k
    BY <1>0, <2>1, GoStays DEF Ret
  <2>4. Gentle(k, k', t, {}) /\ Keeps(k, k', {})
    BY <2>3, SchedFrames DEF Gentle
  <2>5. Apathetic(t)
    BY <2>2, NotStock DEF StockLists
  <2>6. Drifts({}, {})
    BY <2>3, <2>4, <2>5 DEF Drifts
  <2>7. Drifts({"sem"}, {"sem"})
    BY <2>6, DriftsMore
  <2> QED BY <2>3, <2>7 DEF SemDrift
<1>5. CASE SemRelease(t)
  <2>1. Enter(t, "sem_release") /\ Go(t, rt_sem_release(k), "sem_release", 0, None)
    BY <1>5 DEF SemRelease
  <2>2. t \in Threads /\ th[t].at = "top" /\ t = k.cur
    BY <2>1, Entering
  <2>3. PICK r : r = rt_sem_release(k)
    OBVIOUS
  <2>4. /\ Section(k, r, "sem_release", InWait(k, "sem"), {"sem"})
        /\ \/ r.at = "top" /\ r.k.sem = k.sem + 1
           \/ r.at = "top" /\ r.k = k
           \/ r.at = "resched" /\ r.k.sem = k.sem
    BY <1>0, <2>3, SemReleased
  <2>5. CallsStay(th, th', t) /\ k' = r.k
    BY <1>0, <2>1, <2>3, GoStays
  <2>6. Drifts({"sem"}, {})
    BY <1>0, <1>1, <2>1, <2>2, <2>3, <2>4, SectionDrifts
  <2>7. Drifts({"sem"}, {"sem"})
    BY <2>6, DriftsMore
  <2>8. PICK u : Gentle(k, k', u, {})
    BY <2>6 DEF Drifts
  <2>9. CASE k.wait["sem"] # << >>
    <3>1. r.at = "resched"
      BY <2>3, <2>9 DEF rt_sem_release, finish, Resched
    <3>2. k'.sem = k.sem
      BY <2>4, <2>5, <3>1
    <3> QED BY <1>0, <2>7, <2>8, <3>2, SemKept DEF SemDrift
  <2>10. CASE k.wait["sem"] = << >>
    <3>1. k'.wait["sem"] = << >>
      BY <1>0, <2>8, <2>10, StaysEmpty DEF IpcLists, WaitLists
    <3>2. CASE k.sem < SemMax
      BY <1>0, <2>4, <2>5, <2>7, <3>1, <3>2 DEF SemDrift, SemAwaits, Units0
    <3>3. CASE ~(k.sem < SemMax)
      <4>1. r = Ret(k, "EFULL")
        BY <1>0, <2>3, <2>10, <3>3 DEF rt_sem_release
      <4>2. k' = k
        BY <2>5, <4>1 DEF Ret
      <4> QED BY <2>7, <4>2 DEF SemDrift
    <3> QED BY <3>2, <3>3
  <2> QED BY <2>9, <2>10
<1>6. CASE SemControl(t)
  <2>1. Enter(t, "sem_control") /\ Go(t, rt_sem_control(k, 0), "sem_control", 0, None)
    BY <1>6 DEF SemControl
  <2>2. t \in Threads /\ th[t].at = "top" /\ t = k.cur
    BY <2>1, Entering
  <2>3. PICK r : r = rt_sem_control(k, 0)
    OBVIOUS
  <2>4. Section(k, r, "sem_control", {}, {"sem"}) /\ r.at = "resched" /\ r.k.sem = 0
    BY <1>0, <2>3, SemEventReset
  <2>5. CallsStay(th, th', t) /\ k' = r.k
    BY <1>0, <2>1, <2>3, GoStays
  <2>6. Drifts({"sem"}, {})
    BY <1>0, <1>1, <2>1, <2>2, <2>3, <2>4, SectionDrifts
  <2>7. Drifts({"sem"}, {"sem"})
    BY <2>6, DriftsMore
  <2> QED BY <1>0, <2>4, <2>5, <2>7 DEF SemDrift, SemAwaits, Units0
<1> QED BY <1>3, <1>4, <1>5, <1>6

\* What holds of the event object.
EvDrift == /\ Drifts(EvWait, {"ev"})
           /\ EvAwaits(k) => EvAwaits(k')
           /\ k.ev \subseteq Bits => k'.ev \subseteq Bits

\* _rt_event_recv: the events are there, or the thread waits for them.
LEMMA Receiving ==
  ASSUME NEW c, DOMAIN c = Fields, NEW t \in Threads, NEW set, NEW opt, NEW n \in Int,
         NEW r, r = _rt_event_recv(c, t, set, opt, n)
  PROVE  /\ r.k.ev \subseteq c.ev
         /\ r.at = "block" =>
              /\ r.k.ev = c.ev /\ r.k.evset = [c.evset EXCEPT ![t] = set] /\ r.k.evinfo = [c.evinfo EXCEPT ![t] = opt]
              /\ ~Satisfied(c.ev, set, opt)
         /\ r.at # "block" => r.k.evset = c.evset /\ r.k.evinfo = c.evinfo
<1>1. CASE Satisfied(c.ev, set, opt)
  <2>1. PICK v, y : /\ v = (IF opt.clear THEN c.ev \ set ELSE c.ev)
                    /\ r = [Ret([c EXCEPT !.err[t] = "EOK", !.ev = v], "EOK") EXCEPT !.val = y]
    BY <1>1 DEF _rt_event_recv
  <2>2. r.at = "top" /\ r.k = [c EXCEPT !.err[t] = "EOK", !.ev = v]
    BY <2>1 DEF Ret
  <2>3. v \subseteq c.ev
    BY <2>1
  <2>4. r.k.ev = v /\ r.k.evset = c.evset /\ r.k.evinfo = c.evinfo
    BY <2>2 DEF Fields
  <2> QED BY <2>2, <2>3, <2>4
<1>2. CASE ~Satisfied(c.ev, set, opt) /\ n = 0
  <2>1. r = Ret([c EXCEPT !.err[t] = "ETIMEOUT"], "ETIMEOUT")
    BY <1>2 DEF _rt_event_recv
  <2>2. r.at = "top" /\ r.k = [c EXCEPT !.err[t] = "ETIMEOUT"]
    BY <2>1 DEF Ret
  <2> QED BY <2>2 DEF Fields
<1>3. CASE ~Satisfied(c.ev, set, opt) /\ n # 0
  <2>1. PICK a : a = [c EXCEPT !.evset[t] = set, !.evinfo[t] = opt]
    OBVIOUS
  <2>2. r = suspend_on(a, t, "ev", n)
    BY <1>3, <2>1 DEF _rt_event_recv
  <2>3. DOMAIN a = Fields /\ a.ev = c.ev /\ a.evset = [c.evset EXCEPT ![t] = set] /\ a.evinfo = [c.evinfo EXCEPT ![t] = opt]
    BY <2>1 DEF Fields
  <2>4. Keeps(a, r.k, {}) /\ r.at = "block"
    BY <2>2, IpcFrames
  <2>5. r.k.ev = a.ev /\ r.k.evset = a.evset /\ r.k.evinfo = a.evinfo
    BY <2>3, <2>4 DEF Keeps, Outer
  <2> QED BY <1>3, <2>3, <2>4, <2>5
<1> QED BY <1>1, <1>2, <1>3

\* The event object.
LEMMA EventDrifts ==
  ASSUME Safe, Safe', NEW t, EventSend(t) \/ EventRecv(t) \/ EventWoken(t) \/ EventControl(t)
  PROVE  EvDrift
<1>0. /\ DOMAIN th = Threads /\ EvWait \subseteq Objects /\ EvFields \subseteq Objects /\ {"ev"} \subseteq Objects
      /\ KInv(k) /\ KInv(k') /\ EvFields \subseteq EvWait /\ {"ev"} \subseteq EvWait /\ "ev" \in IpcLists
  BY DEF Safe, System, Base, Objects, EvWait, EvFields, IpcLists, WaitLists
<1>1. ASSUME th[t].at = "top" PROVE Apathetic(t)
  BY <1>1, NotStock DEF Waiting
<1>2. ListsOf("event_recv") = {"ev"}
  BY DEF ListsOf, OpOf, IpcLists, WaitLists
<1>3. CASE EventSend(t)
  <2>1. PICK set \in SUBSET Bits : Enter(t, "event_send") /\ Go(t, rt_event_send(k, set), "event_send", 0, None)
    BY <1>3 DEF EventSend
  <2>2. t \in Threads /\ th[t].at = "top" /\ t = k.cur
    BY <2>1, Entering
  <2>3. PICK r : r = rt_event_send(k, set)
    OBVIOUS
  <2>4. /\ Section(k, r, "event_send", InWait(k, "ev"), EvFields) /\ r.at # "block" /\ r.k.ev \subseteq k.ev \cup set
        /\ DOMAIN k.evset = Threads =>
              /\ DOMAIN r.k.evset = Threads
              /\ \A u \in Threads : InList(u, r.k.wait["ev"]) => Wanting(r.k, u)
    BY <1>0, <2>3, EventSent
  <2>5. CallsStay(th, th', t) /\ k' = r.k
    BY <1>0, <2>1, <2>3, GoStays
  <2>6. Drifts(EvFields, {})
    BY <1>0, <1>1, <2>1, <2>2, <2>3, <2>4, SectionDrifts
  <2>7. Drifts(EvWait, {"ev"})
    BY <1>0, <2>6, DriftsMore
  <2>8. k'.evinfo = k.evinfo
    BY <1>0, <2>6 DEF Drifts, Keeps, Outer, EvFields, KInv, Kernel, KType
  <2> QED BY <2>1, <2>4, <2>5, <2>7, <2>8 DEF EvDrift, EvAwaits
<1>4. CASE EventRecv(t)
  <2>1. PICK set, opt, n : /\ n \in load.to /\ Enter(t, "event_recv")
          /\ Go(t, _rt_event_recv([k EXCEPT !.err[t] = "EINTR"], t, set, opt, n), "event_recv", n, None)
    BY <1>4 DEF EventRecv
  <2>2. /\ t \in Threads /\ th[t].at = "top" /\ n \in Int /\ t = k.cur /\ k.cur \in Threads
        /\ k.stat[k.cur] = "running"
    BY <2>1, Entering
  <2>3. PICK c, r : c = [k EXCEPT !.err[t] = "EINTR"] /\ r = _rt_event_recv(c, t, set, opt, n)
    OBVIOUS
  <2>4. Preset(k, c) /\ c.ev = k.ev /\ c.evset = k.evset /\ c.evinfo = k.evinfo /\ DOMAIN c = Fields
    <3>1. Preset(k, c)
      BY <1>0, <2>2, <2>3, PresetMade DEF Errors
    <3> QED BY <3>1 DEF Preset, SameBut, Fields
  <2>5. KInv(c) /\ c.cur = k.cur /\ c.stat = k.stat /\ c.wait = k.wait
    BY <1>0, <2>2, <2>4, PresetFacts
  <2>6. PICK b : Preset(c, b) /\ Section(b, r, "event_recv", {}, EvWait) /\ r.at \in {"top", "block"}
    BY <2>2, <2>3, <2>5, EventReceived
  <2>7. KInv(b) /\ b.cur = t /\ b.wait = k.wait
    BY <2>2, <2>5, <2>6, PresetFacts
  <2>8. CallsStay(th, th', t) /\ k' = r.k
    BY <1>0, <2>1, <2>3, GoStays
  <2>9. PICK W : W = IF r.at = "block" THEN {"ev"} ELSE {}
    OBVIOUS
  <2>10. Gentle(k, k', t, W)
    <3>1. Gentle(k, c, t, {}) /\ Gentle(c, b, t, {})
      BY <1>0, <2>2, <2>4, <2>5, <2>6, PresetGentle
    <3>2. Gentle(b, k', t, W)
      BY <1>0, <1>2, <2>6, <2>7, <2>8, <2>9, SectionGentle
    <3>3. Gentle(k, b, t, {})
      BY <3>1, GentleTrans
    <3> QED BY <3>2, <3>3, GentleTrans
  <2>11. Keeps(k, k', EvWait)
    <3>1. Keeps(k, c, {}) /\ Keeps(c, b, {}) /\ Keeps(b, k', EvWait)
      BY <1>0, <2>4, <2>6, <2>8, PresetFrame, SectionFrame
    <3>2. Keeps(k, b, {})
      BY <3>1, KeepsTrans
    <3> QED BY <3>1, <3>2, KeepsTrans
  <2>12. Drifts(EvWait, {"ev"})
    <3>1. Drifts(EvWait, W)
      BY <1>1, <2>2, <2>8, <2>10, <2>11 DEF Drifts
    <3> QED BY <2>9, <3>1, DriftsMore
  <2>13. /\ k'.ev \subseteq k.ev
         /\ r.at = "block" =>
              /\ k'.ev = k.ev /\ k'.evset = [k.evset EXCEPT ![t] = set] /\ k'.evinfo = [k.evinfo EXCEPT ![t] = opt]
              /\ ~Satisfied(k.ev, set, opt)
         /\ r.at # "block" => k'.evset = k.evset /\ k'.evinfo = k.evinfo
    <3>0. r = _rt_event_recv(c, t, set, opt, n) /\ t \in Threads /\ n \in Int /\ DOMAIN c = Fields
      BY <2>2, <2>3, <2>4
    <3>1. /\ r.k.ev \subseteq c.ev
          /\ r.at = "block" =>
               /\ r.k.ev = c.ev /\ r.k.evset = [c.evset EXCEPT ![t] = set] /\ r.k.evinfo = [c.evinfo EXCEPT ![t] = opt]
               /\ ~Satisfied(c.ev, set, opt)
          /\ r.at # "block" => r.k.evset = c.evset /\ r.k.evinfo = c.evinfo
      BY ONLY <3>0, Receiving
    <3> QED BY <2>4, <2>8, <3>1
  <2>14. ASSUME EvAwaits(k) PROVE EvAwaits(k')
    <3>1. DOMAIN k'.evset = Threads /\ DOMAIN k'.evinfo = Threads
      BY <2>6, <2>13, <2>14 DEF EvAwaits
    <3>2. ASSUME NEW u \in Threads, InList(u, k'.wait["ev"]) PROVE Wanting(k', u)
      <4>1. InList(u, k.wait["ev"]) \/ (u = t /\ r.at = "block")
        BY <1>0, <2>9, <2>10, <3>2 DEF Gentle
      <4>2. CASE u = t /\ r.at = "block"
        BY <2>13, <2>14, <4>2 DEF EvAwaits, Wanting
      <4>3. CASE InList(u, k.wait["ev"]) /\ u # t
        <5>1. Wanting(k, u)
          BY <2>14, <4>3 DEF EvAwaits
        <5>2. k'.evset[u] = k.evset[u] /\ k'.evinfo[u] = k.evinfo[u]
          BY <2>13, <2>14, <4>3 DEF EvAwaits
        <5> QED BY <2>13, <5>1, <5>2 DEF Wanting, Satisfied
      <4>4. CASE InList(u, k.wait["ev"]) /\ u = t
        <5>1. k.stat[t] = "suspend"
          BY <1>0, <2>2, <4>4 DEF KInv, Kernel, WaitOK, IpcLists, Lists, WaitLists
        <5> QED BY <2>2, <5>1
      <4> QED BY <4>1, <4>2, <4>3, <4>4
    <3> QED BY <3>1, <3>2 DEF EvAwaits
  <2> QED BY <2>12, <2>13, <2>14 DEF EvDrift
<1>5. CASE EventWoken(t)
  <2>1. PICK r : /\ Woken(t, "event_recv") /\ Go(t, r, None, 0, None) /\ r.at = "top"
                 /\ r.k = [k EXCEPT !.evset[t] = {}, !.evinfo[t] = NoOption]
    BY <1>5 DEF EventWoken, Ret
  <2>2. t \in Threads /\ th[t].op = "event_recv" /\ t = k.cur /\ k.stat[t] = "running"
    BY <2>1, Waking
  <2>3. CallsStay(th, th', t) /\ k' = r.k
    BY <1>0, <2>1, GoStays
  <2>4. /\ SameBut(k, k', {"evset", "evinfo"}) /\ {"evset", "evinfo"} \cap {"stat", "err", "wait"} = {}
        /\ k'.evset = [k.evset EXCEPT ![t] = {}] /\ k'.evinfo = [k.evinfo EXCEPT ![t] = NoOption]
    BY <1>0, <2>1, <2>3 DEF SameBut, KInv, Kernel, KType, Fields
  <2>5. Gentle(k, k', t, {}) /\ k'.ev = k.ev /\ k'.wait = k.wait
    BY <2>4, SameGentle DEF SameBut, Fields
  <2>6. Keeps(k, k', EvWait)
    BY <2>4 DEF SameBut, Keeps, Outer, Fields, EvWait
  <2>7. Apathetic(t)
    BY <2>2, NotStock DEF StockLists
  <2>8. Drifts(EvWait, {"ev"})
    <3>1. Drifts(EvWait, {})
      BY <2>3, <2>5, <2>6, <2>7 DEF Drifts
    <3> QED BY <3>1, DriftsMore
  <2>9. ~InList(t, k.wait["ev"])
    BY <1>0, <2>2 DEF KInv, Kernel, WaitOK, IpcLists, Lists, WaitLists
  <2>10. ASSUME EvAwaits(k) PROVE EvAwaits(k')
    BY <2>2, <2>4, <2>5, <2>9, <2>10 DEF EvAwaits, Wanting
  <2> QED BY <2>5, <2>8, <2>10 DEF EvDrift
<1>6. CASE EventControl(t)
  <2>1. Enter(t, "event_control") /\ Go(t, rt_event_control(k), "event_control", 0, None)
    BY <1>6 DEF EventControl
  <2>2. t \in Threads /\ th[t].at = "top" /\ t = k.cur
    BY <2>1, Entering
  <2>3. PICK r : r = rt_event_control(k)
    OBVIOUS
  <2>4. Section(k, r, "event_control", {}, {"ev"}) /\ r.at = "resched" /\ r.k.wait["ev"] = << >>
    BY <1>0, <2>3, SemEventReset
  <2>5. CallsStay(th, th', t) /\ k' = r.k
    BY <1>0, <2>1, <2>3, GoStays
  <2>6. Drifts({"ev"}, {})
    BY <1>0, <1>1, <2>1, <2>2, <2>3, <2>4, SectionDrifts
  <2>7. Drifts(EvWait, {"ev"})
    BY <1>0, <2>6, DriftsMore
  <2>8. k'.evset = k.evset /\ k'.evinfo = k.evinfo
    BY <1>0, <2>6 DEF Drifts, Keeps, Outer, KInv, Kernel, KType
  <2>9. ~\E u : InList(u, k'.wait["ev"])
    BY <2>4, <2>5 DEF InList
  <2>10. k'.ev = {}
    <3>1. PICK a : a = _ipc_list_resume_all(k, "ev")
      OBVIOUS
    <3>2. Wakes(k, a, {}, {})
      BY <1>0, <3>1, AllResumed DEF IpcLists, Lists, WaitLists
    <3>3. DOMAIN a = Fields
      BY <3>2 DEF Wakes, SameBut
    <3>4. r.k = [a EXCEPT !.ev = {}]
      BY <2>3, <3>1 DEF rt_event_control, Resched
    <3> QED BY <2>5, <3>3, <3>4 DEF Fields
  <2> QED BY <2>7, <2>8, <2>9, <2>10 DEF EvDrift, EvAwaits
<1> QED BY <1>3, <1>4, <1>5, <1>6

\* An interrupt handler wakes threads, and rt_schedule goes on doing so.
LEMMA HandlerWakes ==
  ASSUME Safe, NEW q, NEW r, Handler(q, r), NEW o, NEW G, NEW F, Section(k, r, o, G, F), r.at \in {"top", "resched"}
  PROVE  /\ Wakes(k, r.k, G, F) /\ Wakes(k, k', G, F) /\ th' = th
         /\ k' = r.k \/ (k' = rt_schedule(r.k) /\ Wakes(r.k, k', {}, {}))
<1>1. KInv(k) /\ k.cur \in Threads /\ k.stat[Idle] \in {"ready", "running"} /\ Idle \in Threads
  BY SchedAssumption DEF Safe, System, Base
<1>2. Wakes(k, r.k, G, F) /\ r.k.cur = k.cur
  <2>1. CASE r.at = "top"
    <3>1. Wakes(k, r.k, {}, F) /\ r.k.cur = k.cur
      BY <2>1, SectionEnds
    <3> QED BY <3>1 DEF Wakes, Wake
  <2>2. CASE r.at = "resched"
    BY <2>2, SectionEnds
  <2> QED BY <2>1, <2>2
<1>3. th' = th /\ (k' = rt_schedule(r.k) \/ k' = r.k)
  BY DEF Handler
<1>4. KInv(r.k) /\ r.k.cur \in Threads /\ r.k.stat[Idle] \in {"ready", "running"}
  BY <1>1, <1>2 DEF Wakes, Wake
<1>5. k' = rt_schedule(r.k) => Wakes(k, k', G, F) /\ Wakes(r.k, k', {}, {})
  BY <1>1, <1>2, <1>4, WakesSched, SchedWakes
<1> QED BY <1>2, <1>3, <1>5

\* It does not go on with a call.
LEMMA HandlerDrifts ==
  ASSUME Safe, NEW q, NEW r, Handler(q, r), NEW o, NEW G, NEW F, Section(k, r, o, G, F), r.at \in {"top", "resched"}
  PROVE  Drifts(F, {})
<1>1. Wakes(k, k', G, F) /\ th' = th
  BY HandlerWakes
<1>2. Gentle(k, k', None, {}) /\ Keeps(k, k', F)
  BY <1>1, WakesGentle, WakesFrame
<1>3. CallsStay(th, th', None)
  BY <1>1 DEF CallsStay
<1>4. Apathetic(None)
  BY IpcAssumption DEF Apathetic, Res
<1> QED BY <1>2, <1>3, <1>4 DEF Drifts

\* rt_sem_release in an interrupt handler.
LEMMA IsrSemDrifts ==
  ASSUME Safe, Safe', Handler("sem_release", rt_sem_release(k))
  PROVE  SemDrift
<1>0. k.sem \in Nat /\ k'.sem \in Nat /\ KInv(k) /\ KInv(k') /\ SemMax \in Nat
  BY IpcAssumption DEF Safe, System, Base
<1>1. PICK r : r = rt_sem_release(k) /\ Handler("sem_release", r)
  OBVIOUS
<1>2. /\ Section(k, r, "sem_release", InWait(k, "sem"), {"sem"})
      /\ \/ r.at = "top" /\ r.k.sem = k.sem + 1
         \/ r.at = "top" /\ r.k = k
         \/ r.at = "resched" /\ r.k.sem = k.sem
  BY <1>0, <1>1, SemReleased
<1>3. r.at \in {"top", "resched"}
  BY <1>2
<1>4. Drifts({"sem"}, {})
  BY <1>1, <1>2, <1>3, HandlerDrifts
<1>5. Drifts({"sem"}, {"sem"})
  BY <1>4, DriftsMore
<1>6. PICK u : Gentle(k, k', u, {})
  BY <1>4 DEF Drifts
<1>7. k'.sem = r.k.sem
  <2>1. k' = r.k \/ Wakes(r.k, k', {}, {})
    BY <1>1, <1>2, <1>3, HandlerWakes
  <2> QED BY <2>1 DEF Wakes, SameBut, WakeFields, Fields
<1>8. CASE k.wait["sem"] # << >>
  <2>1. r.at = "resched"
    BY <1>1, <1>8 DEF rt_sem_release, finish, Resched
  <2>2. k'.sem = k.sem
    BY <1>2, <1>7, <2>1
  <2> QED BY <1>0, <1>5, <1>6, <2>2, SemKept DEF SemDrift
<1>9. CASE k.wait["sem"] = << >>
  <2>1. k'.wait["sem"] = << >>
    BY <1>0, <1>6, <1>9, StaysEmpty DEF IpcLists, WaitLists
  <2>2. CASE k.sem < SemMax
    BY <1>0, <1>2, <1>5, <1>7, <2>1, <2>2 DEF SemDrift, SemAwaits, Units0
  <2>3. CASE ~(k.sem < SemMax)
    <3>1. r = Ret(k, "EFULL")
      BY <1>0, <1>1, <1>9, <2>3 DEF rt_sem_release
    <3>2. k'.sem = k.sem
      BY <1>7, <3>1 DEF Ret
    <3> QED BY <1>5, <2>1, <3>2 DEF SemDrift, SemAwaits
  <2> QED BY <2>2, <2>3
<1> QED BY <1>8, <1>9

\* rt_event_send in an interrupt handler.
LEMMA IsrEventDrifts ==
  ASSUME Safe, Safe', NEW set \in SUBSET Bits, Handler("event_send", rt_event_send(k, set))
  PROVE  EvDrift
<1>0. KInv(k) /\ EvFields \subseteq EvWait
  BY DEF Safe, System, Base, EvFields, EvWait
<1>1. PICK r : r = rt_event_send(k, set) /\ Handler("event_send", r)
  OBVIOUS
<1>2. /\ Section(k, r, "event_send", InWait(k, "ev"), EvFields) /\ r.at \in {"top", "resched"}
      /\ r.k.ev \subseteq k.ev \cup set
      /\ DOMAIN k.evset = Threads =>
           /\ DOMAIN r.k.evset = Threads
           /\ \A u \in Threads : InList(u, r.k.wait["ev"]) => Wanting(r.k, u)
  BY <1>0, <1>1, EventSent
<1>3. Drifts(EvFields, {})
  BY <1>1, <1>2, HandlerDrifts
<1>4. Drifts(EvWait, {"ev"})
  BY <1>0, <1>3, DriftsMore
<1>5. Wakes(k, r.k, InWait(k, "ev"), EvFields) /\ (k' = r.k \/ Wakes(r.k, k', {}, {}))
  BY <1>1, <1>2, HandlerWakes
<1>6. r.k.evinfo = k.evinfo
  BY <1>5 DEF Wakes, SameBut, WakeFields, EvFields, Fields
<1>7. EvAwaits(k) => EvAwaits(r.k)
  BY <1>2, <1>6 DEF EvAwaits
<1>8. CASE k' = r.k
  BY <1>2, <1>4, <1>7, <1>8 DEF EvDrift
<1>9. CASE Wakes(r.k, k', {}, {})
  <2>1. k'.ev = r.k.ev /\ k'.evset = r.k.evset /\ k'.evinfo = r.k.evinfo
    BY <1>9 DEF Wakes, SameBut, WakeFields, Fields
  <2>2. Gentle(r.k, k', None, {})
    BY <1>9, WakesGentle
  <2>3. EvAwaits(k) => EvAwaits(k')
    BY <1>7, <2>1, <2>2, EvKept
  <2> QED BY <1>2, <1>4, <2>1, <2>3 DEF EvDrift
<1> QED BY <1>5, <1>8, <1>9

-----------------------------------------------------------------------------
(* What there is of what the threads of list w wait for: mails, room for   *)
(* one, messages, free slots and free blocks                               *)
Stock(c, w) ==
  CASE w = "mb_recv" -> c.mb.entry [] w = "mb_send" -> MbSize - c.mb.entry
    [] w = "mq_recv" -> c.mq.entry [] w = "mq_send" -> Len(Chain(c.mq.next, c.mq.free))
    [] w = "mp" -> c.mp.free
Countable(c) == \A w \in StockLists : Stock(c, w) \in Int
Announced(c, h) == \A w \in StockLists : Claim(c, h, w, Stock(c, w))

\* The stocks are numbers.
LEMMA StockInts ==
  ASSUME NEW c, NEW h, NEW held, MbOK(c.mb), MqOK(c.mq, h), MpOK(c.mp, held)
  PROVE  Countable(c)
<1>1. c.mb.entry \in Int /\ MbSize \in Int /\ c.mp.free \in Int
  BY IpcAssumption DEF MbOK, MpOK
<1>2. PICK Q, R : SlotUse(c.mq, h, Q, R)
  BY DEF MqOK
<1>3. Path(c.mq.next, c.mq.free, R) /\ IsList(Slots, Q) /\ IsList(Slots, R) /\ c.mq.entry = Len(Q)
  BY <1>2 DEF SlotUse, Path
<1>4. Chain(c.mq.next, c.mq.free) = R
  BY <1>3, PathIsChain
<1>5. Len(Q) \in Int /\ Len(R) \in Int
  BY <1>3 DEF IsList
<1> QED BY <1>1, <1>3, <1>4, <1>5 DEF Countable, Stock, StockLists

\* The stock of w has not grown, and is one less if it was announced to t.
Lessens(c, h, d, t, w) ==
  \/ Stock(d, w) = Stock(c, w) - 1
  \/ Stock(d, w) = Stock(c, w) /\ t \notin Res(c, h, OpOf(w))

\* A section that takes from the stocks, or finds one empty, or wakes everybody.
LEMMA Taking ==
  ASSUME NEW l, NEW c, NEW h, Base(l, c, h), NEW d, KInv(d), NEW t, NEW W, Gentle(c, d, t, W), NEW g, CallsStay(h, g, t),
         Countable(c), Announced(c, h),
         \A w \in StockLists : (w \notin W /\ Lessens(c, h, d, t, w)) \/ Stock(d, w) = 0 \/ d.wait[w] = << >>
  PROVE  Announced(d, g)
<1> SUFFICES ASSUME NEW w \in StockLists PROVE Claim(d, g, w, Stock(d, w))
  BY DEF Announced
<1>1. PICK n : n = Stock(c, w)
  OBVIOUS
<1>2. n \in Int /\ w \in IpcLists /\ Claim(c, h, w, n)
  BY <1>1 DEF Countable, Announced, StockLists, IpcLists, WaitLists
<1>3. CASE w \notin W /\ Stock(d, w) = n - 1
  BY <1>2, <1>3, ClaimTaken
<1>4. CASE w \notin W /\ Stock(d, w) = n /\ t \notin Res(c, h, OpOf(w))
  BY <1>2, <1>4, ClaimKept
<1>5. CASE Stock(d, w) = 0
  BY <1>5, ResFinite DEF Claim
<1>6. CASE d.wait[w] = << >>
  BY <1>6 DEF Claim
<1> QED BY <1>1, <1>3, <1>4, <1>5, <1>6 DEF Lessens

\* A section that adds to the stock of x and resumes the first who waits for it.
LEMMA Handing ==
  ASSUME NEW l, NEW c, NEW h, Base(l, c, h), NEW t, c.stat[t] = "running" \/ t \notin Threads, NEW g, CallsStay(h, g, t),
         NEW x \in StockLists, t \notin Res(c, h, OpOf(x)), NEW F, F \subseteq Objects, NEW b, SameBut(c, b, F),
         NEW v, NEW r, r = finish(b, x, v), Countable(c), Announced(c, h), Stock(r.k, x) = Stock(c, x) + 1,
         \A w \in StockLists \ {x} : Lessens(c, h, r.k, t, w)
  PROVE  Announced(r.k, g)
<1>1. \A w \in StockLists : w \in IpcLists
  BY DEF StockLists, IpcLists, WaitLists
<1>2. PICK n : n = Stock(c, x)
  OBVIOUS
<1>3. n \in Int /\ Claim(c, h, x, n)
  BY <1>2 DEF Countable, Announced
<1>4. Claim(r.k, g, x, n + 1) /\ Gentle(c, r.k, t, {}) /\ KInv(r.k)
  BY <1>1, <1>3, ClaimHanded
<1> SUFFICES ASSUME NEW w \in StockLists \ {x} PROVE Claim(r.k, g, w, Stock(r.k, w))
  BY <1>2, <1>4 DEF Announced
<1>5. PICK m : m = Stock(c, w)
  OBVIOUS
<1>6. m \in Int /\ Claim(c, h, w, m) /\ w \in IpcLists /\ w \notin {}
  BY <1>1, <1>5 DEF Countable, Announced
<1>7. CASE Stock(r.k, w) = m - 1
  BY <1>4, <1>6, <1>7, ClaimTaken
<1>8. CASE Stock(r.k, w) = m /\ t \notin Res(c, h, OpOf(w))
  BY <1>4, <1>6, <1>8, ClaimKept
<1> QED BY <1>5, <1>7, <1>8 DEF Lessens

\* What leaves the objects alone leaves the stocks alone.
LEMMA SameStock ==
  ASSUME NEW c, NEW d, DOMAIN c = Fields, NEW F, Keeps(c, d, F), NEW w \in StockLists
  PROVE  /\ "mb" \notin F /\ w \in {"mb_recv", "mb_send"} => Stock(d, w) = Stock(c, w)
         /\ "mq" \notin F /\ w \in {"mq_recv", "mq_send"} => Stock(d, w) = Stock(c, w)
         /\ "mp" \notin F /\ w = "mp" => Stock(d, w) = Stock(c, w)
BY DEF Keeps, Outer, Stock

\* A step that does not concern the stocks.
LEMMA DriftAnnounces ==
  ASSUME Safe, Safe', Stocked, NEW F, F \cap Store = {}, NEW W, W \cap StockLists = {}, Drifts(F, W), Announced(k, th)
  PROVE  Announced(k', th')
<1>1. Base(load, k, th) /\ KInv(k) /\ KInv(k')
  BY DEF Safe, System, Base
<1>2. DOMAIN k = Fields
  BY <1>1 DEF KInv, Kernel, KType
<1>3. Countable(k)
  BY StockInts DEF Stocked
<1>4. PICK t : Gentle(k, k', t, W) /\ CallsStay(th, th', t) /\ Apathetic(t)
  BY DEF Drifts
<1>5. Keeps(k, k', F) /\ "mb" \notin F /\ "mq" \notin F /\ "mp" \notin F
  BY DEF Drifts, Store
<1>6. ASSUME NEW w \in StockLists PROVE w \notin W /\ Lessens(k, th, k', t, w)
  <2>1. Stock(k', w) = Stock(k, w)
    BY <1>2, <1>5, SameStock DEF StockLists
  <2> QED BY <1>4, <2>1 DEF Lessens, Apathetic
<1> QED BY <1>1, <1>3, <1>4, <1>6, Taking

\* A thread that has not been resumed for anything but what list x waits for.
OnlyFor(c, h, t, x) == \A w \in StockLists \ {x} : t \notin Res(c, h, OpOf(w))

\* A kernel state that differs in the fields F only.
LEMMA SameKeeps ==
  ASSUME NEW c, NEW d, NEW F, SameBut(c, d, F)
  PROVE  Keeps(c, d, F)
<1>1. Outer \subseteq Fields
  BY DEF Outer, Fields
<1> QED BY <1>1 DEF SameBut, Keeps

\* The stocks of the mailbox.
LEMMA MailStocks ==
  ASSUME NEW c, DOMAIN c = Fields, NEW d, Keeps(c, d, {"mb"}), NEW w \in StockLists
  PROVE  /\ w \notin {"mb_recv", "mb_send"} => Stock(d, w) = Stock(c, w)
         /\ Stock(d, "mb_recv") = d.mb.entry /\ Stock(d, "mb_send") = MbSize - d.mb.entry
BY DEF Keeps, Outer, Stock, StockLists

\* A mail is put into the mailbox.
LEMMA MailAdded ==
  ASSUME NEW l, NEW c, NEW h, Base(l, c, h), MbOK(c.mb), Countable(c), Announced(c, h),
         NEW t, c.stat[t] = "running" \/ t \notin Threads, OnlyFor(c, h, t, "mb_send"), NEW g, CallsStay(h, g, t),
         NEW b, SameBut(c, b, {"mb"}), b.mb.entry = c.mb.entry + 1, NEW r, r = finish(b, "mb_recv", None)
  PROVE  Announced(r.k, g)
<1>1. DOMAIN c = Fields /\ DOMAIN b = Fields /\ {"mb"} \subseteq Objects /\ "mb_recv" \in StockLists
  BY DEF Base, KInv, Kernel, KType, SameBut, Objects, StockLists
<1>0. Keeps(c, b, {"mb"})
  BY SameKeeps
<1>2. Keeps(b, r.k, {})
  BY IpcFrames
<1>3. Keeps(c, r.k, {"mb"})
  BY <1>0, <1>2, KeepsTrans
<1>4. r.k.mb = b.mb
  BY <1>1, <1>2 DEF Keeps, Outer
<1>5. c.mb.entry \in Int /\ MbSize \in Int
  BY IpcAssumption DEF MbOK
<1>6. Stock(r.k, "mb_recv") = Stock(c, "mb_recv") + 1
  BY <1>4 DEF Stock
<1>7. ASSUME NEW w \in StockLists \ {"mb_recv"} PROVE Lessens(c, h, r.k, t, w)
  <2>1. CASE w = "mb_send"
    BY <1>4, <1>5, <2>1 DEF Lessens, Stock
  <2>2. CASE w # "mb_send"
    <3>1. Stock(r.k, w) = Stock(c, w)
      BY <1>1, <1>3, <1>7, <2>2, MailStocks
    <3> QED BY <2>2, <3>1 DEF Lessens, OnlyFor
  <2> QED BY <2>1, <2>2
<1>8. t \notin Res(c, h, OpOf("mb_recv"))
  BY DEF OnlyFor, StockLists
<1> QED BY <1>1, <1>6, <1>7, <1>8, Handing

\* The section leaves the objects alone and finds the stock of x empty.
LEMMA FoundEmpty ==
  ASSUME NEW l, NEW c, NEW h, Base(l, c, h), Countable(c), Announced(c, h), NEW x \in StockLists, Stock(c, x) = 0,
         NEW t, OnlyFor(c, h, t, x), NEW g, CallsStay(h, g, t), NEW d, KInv(d), NEW W, W \subseteq {x}, Gentle(c, d, t, W),
         Keeps(c, d, {})
  PROVE  Announced(d, g)
<1>1. DOMAIN c = Fields
  BY DEF Base, KInv, Kernel, KType
<1>2. ASSUME NEW w \in StockLists PROVE Stock(d, w) = Stock(c, w)
  BY <1>1, SameStock DEF StockLists
<1>3. ASSUME NEW w \in StockLists PROVE (w \notin W /\ Lessens(c, h, d, t, w)) \/ Stock(d, w) = 0
  BY <1>2 DEF Lessens, OnlyFor
<1> QED BY <1>3, Taking

\* _rt_mb_send_wait.
LEMMA SendAnnounces ==
  ASSUME NEW l, NEW c, NEW h, Base(l, c, h), MbOK(c.mb), Countable(c), Announced(c, h),
         NEW t, c.stat[t] = "running" \/ t \notin Threads, OnlyFor(c, h, t, "mb_send"), NEW g, CallsStay(h, g, t),
         NEW u, NEW v, NEW n, NEW r, r = _rt_mb_send_wait(c, u, v, n), KInv(r.k), Gentle(c, r.k, t, {"mb_send"})
  PROVE  Announced(r.k, g)
<1>1. DOMAIN c = Fields /\ DOMAIN c.mb = {"pool", "in", "out", "entry"} /\ MbSize \in Int /\ c.mb.entry \in Int
  BY IpcAssumption, SMTT(30) DEF Base, KInv, Kernel, KType, MbOK
<1>2. CASE c.mb.entry = MbSize
  <2>1. Keeps(c, r.k, {})
    BY <1>2, IpcFrames DEF _rt_mb_send_wait
  <2>2. Stock(c, "mb_send") = 0 /\ "mb_send" \in StockLists
    BY <1>1, <1>2 DEF Stock, StockLists
  <2> QED BY <2>1, <2>2, FoundEmpty
<1>3. CASE c.mb.entry # MbSize
  <2>1. PICK b, i : /\ b = [c EXCEPT !.mb.pool[c.mb.in] = v, !.mb.in = i, !.mb.entry = c.mb.entry + 1]
                    /\ r = finish(b, "mb_recv", None)
    BY <1>3 DEF _rt_mb_send_wait
  <2>2. SameBut(c, b, {"mb"}) /\ b.mb.entry = c.mb.entry + 1
    BY <1>1, <2>1 DEF SameBut, Fields
  <2> QED BY <2>1, <2>2, MailAdded
<1> QED BY <1>2, <1>3

\* _rt_mb_recv.
LEMMA RecvAnnounces ==
  ASSUME NEW l, NEW c, NEW h, Base(l, c, h), MbOK(c.mb), Countable(c), Announced(c, h),
         NEW t, c.stat[t] = "running" \/ t \notin Threads, OnlyFor(c, h, t, "mb_recv"), NEW g, CallsStay(h, g, t),
         NEW u, NEW n, NEW r, r = _rt_mb_recv(c, u, n), KInv(r.k), Gentle(c, r.k, t, {"mb_recv"})
  PROVE  Announced(r.k, g)
<1>1. DOMAIN c = Fields /\ DOMAIN c.mb = {"pool", "in", "out", "entry"} /\ MbSize \in Int /\ c.mb.entry \in Int
  BY IpcAssumption, SMTT(30) DEF Base, KInv, Kernel, KType, MbOK
<1>2. CASE c.mb.entry = 0
  <2>1. Keeps(c, r.k, {})
    BY <1>2, IpcFrames DEF _rt_mb_recv
  <2>2. Stock(c, "mb_recv") = 0 /\ "mb_recv" \in StockLists
    BY <1>1, <1>2 DEF Stock, StockLists
  <2> QED BY <2>1, <2>2, FoundEmpty
<1>3. CASE c.mb.entry # 0
  <2>1. PICK b, i, v : /\ b = [c EXCEPT !.mb.out = i, !.mb.entry = c.mb.entry - 1]
                       /\ r = finish(b, "mb_send", v)
    BY <1>3 DEF _rt_mb_recv
  <2>2. SameBut(c, b, {"mb"}) /\ b.mb.entry = c.mb.entry - 1 /\ DOMAIN b = Fields
    BY <1>1, <2>1 DEF SameBut, Fields
  <2>0. Keeps(c, b, {"mb"})
    BY <2>2, SameKeeps
  <2>3. Keeps(b, r.k, {})
    BY <2>1, IpcFrames
  <2>4. Keeps(c, r.k, {"mb"})
    BY <2>0, <2>3, KeepsTrans
  <2>5. r.k.mb = b.mb
    BY <2>2, <2>3 DEF Keeps, Outer
  <2>6. Stock(r.k, "mb_send") = Stock(c, "mb_send") + 1
    BY <1>1, <2>2, <2>5 DEF Stock
  <2>7. ASSUME NEW w \in StockLists \ {"mb_send"} PROVE Lessens(c, h, r.k, t, w)
    <3>1. CASE w = "mb_recv"
      BY <2>2, <2>5, <3>1 DEF Lessens, Stock
    <3>2. CASE w # "mb_recv"
      <4>1. Stock(r.k, w) = Stock(c, w)
        BY <1>1, <2>4, <2>7, <3>2, MailStocks
      <4> QED BY <3>2, <4>1 DEF Lessens, OnlyFor
    <3> QED BY <3>1, <3>2
  <2>8. t \notin Res(c, h, OpOf("mb_send")) /\ {"mb"} \subseteq Objects /\ "mb_send" \in StockLists
    BY DEF OnlyFor, StockLists, Objects
  <2> QED BY <2>1, <2>2, <2>6, <2>7, <2>8, Handing
<1> QED BY <1>2, <1>3

\* A step that leaves alone whatever is no stock, and what such a step on a
\* stock is to be shown to do.
Mild == \E t : Gentle(k, k', t, StockLists) /\ Keeps(k, k', Store)
Informs == Mild /\ (Announced(k, th) => Announced(k', th'))

\* More lists.
LEMMA GentleMore ==
  ASSUME NEW c, NEW d, NEW t, NEW W, Gentle(c, d, t, W), NEW V, W \subseteq V
  PROVE  Gentle(c, d, t, V)
BY DEF Gentle

\* Such a step does not concern the semaphore and the event object.
LEMMA MildAwaits ==
  ASSUME Safe, Safe', Mild
  PROVE  (SemAwaits(k) => SemAwaits(k')) /\ (EvAwaits(k) => EvAwaits(k'))
<1>0. KInv(k) /\ KInv(k') /\ k.sem \in Int
  BY DEF Safe, System, Base
<1>1. /\ DOMAIN k = Fields
      /\ {"sem", "ev", "evset", "evinfo"} \subseteq Outer \ Store /\ "sem" \notin StockLists /\ "ev" \notin StockLists
  BY <1>0 DEF KInv, Kernel, KType, Outer, Store, StockLists
<1>2. PICK t : Gentle(k, k', t, StockLists) /\ Keeps(k, k', Store)
  BY DEF Mild
<1>3. \A f \in Outer \ Store : k'[f] = k[f]
  BY <1>1, <1>2 DEF Keeps
<1>4. k'.sem = k.sem /\ k'.ev = k.ev /\ k'.evset = k.evset /\ k'.evinfo = k.evinfo
  BY <1>1, <1>3
<1>5. SemAwaits(k) => SemAwaits(k')
  BY <1>0, <1>1, <1>2, <1>4, SemKept
<1>6. EvAwaits(k) => EvAwaits(k')
  BY <1>1, <1>2, <1>4, EvKept
<1> QED BY <1>5, <1>6

\* What the state of the objects says about their stocks.
LEMMA StockedInts ==
  ASSUME Stocked
  PROVE  Countable(k) /\ MbOK(k.mb) /\ MqOK(k.mq, th) /\ MpOK(k.mp, got.blk)
BY StockInts DEF Stocked

\* A call has been resumed for what it waits for only.
LEMMA OnlyOwn ==
  ASSUME NEW x \in StockLists, NEW t, th[t].at \notin Waiting \/ th[t].op = OpOf(x)
  PROVE  OnlyFor(k, th, t, x)
<1>1. ASSUME NEW w \in StockLists \ {x} PROVE OpOf(w) # OpOf(x)
  BY <1>1 DEF StockLists, OpOf
<1> QED BY <1>1 DEF OnlyFor, Res, Waiting

\* A section of a call on a stock.
LEMMA CallMild ==
  ASSUME Safe, NEW t, t = k.cur, NEW r, NEW o, NEW n, NEW arg, Go(t, r, o, n, arg), NEW q, NEW G, NEW F,
         F \subseteq Store, Section(k, r, q, G, F), ListsOf(q) \subseteq StockLists \/ r.at # "block"
  PROVE  /\ k' = r.k /\ CallsStay(th, th', t) /\ Mild /\ Keeps(k, r.k, F)
         /\ Gentle(k, r.k, t, IF r.at = "block" THEN ListsOf(q) ELSE {})
<1>1. KInv(k) /\ DOMAIN th = Threads /\ F \subseteq Objects
  BY DEF Safe, System, Base, Store, Objects
<1>2. k' = r.k /\ CallsStay(th, th', t)
  BY <1>1, GoStays
<1>3. Gentle(k, r.k, t, IF r.at = "block" THEN ListsOf(q) ELSE {})
  BY <1>1, SectionGentle
<1>4. Keeps(k, r.k, F)
  BY <1>1, SectionFrame
<1>5. Keeps(k, r.k, Store)
  BY <1>4, KeepsMore
<1>6. Gentle(k, r.k, t, StockLists)
  BY <1>3, GentleMore
<1> QED BY <1>2, <1>3, <1>4, <1>5, <1>6 DEF Mild

\* A call returns and leaves everything as it is.
LEMMA ReturnInforms ==
  ASSUME Safe, Safe', Stocked, NEW t, NEW r, NEW o, NEW n, NEW arg, Go(t, r, o, n, arg), r.k = k,
         th[t].at \notin Waiting \/ k.err[t] # "EOK"
  PROVE  Informs
<1>1. DOMAIN th = Threads
  BY DEF Safe, System, Base
<1>2. CallsStay(th, th', t) /\ k' = k
  BY <1>1, GoStays
<1>3. Gentle(k, k', t, {}) /\ Keeps(k, k', {})
  BY <1>2 DEF Gentle, Keeps
<1>4. Drifts({}, {})
  BY <1>2, <1>3, NotStock DEF Drifts
<1>5. Announced(k, th) => Announced(k', th')
  BY <1>4, DriftAnnounces
<1>6. Gentle(k, k', t, StockLists) /\ Keeps(k, k', Store)
  BY <1>3, GentleMore, KeepsMore
<1> QED BY <1>5, <1>6 DEF Informs, Mild

\* A mail is sent, or is to be sent.
LEMMA SendInforms ==
  ASSUME Safe, Safe', Stocked, NEW t, t = k.cur, t \in Threads, k.stat[t] = "running", OnlyFor(k, th, t, "mb_send"),
         NEW v, NEW n \in Int, NEW m, NEW arg, Go(t, _rt_mb_send_wait(k, t, v, n), "mb_send", m, arg)
  PROVE  Informs
<1>0. KInv(k) /\ KInv(k') /\ Base(load, k, th) /\ {"mb"} \subseteq Store /\ ListsOf("mb_send") = {"mb_send"}
  BY DEF Safe, System, Base, Store, ListsOf, OpOf, IpcLists, WaitLists
<1>1. PICK r : r = _rt_mb_send_wait(k, t, v, n)
  OBVIOUS
<1>2. Section(k, r, "mb_send", InWait(k, "mb_recv"), {"mb"})
  BY <1>0, <1>1, MailSections
<1>3. {"mb_send"} \subseteq StockLists
  BY DEF StockLists
<1>4. /\ k' = r.k /\ CallsStay(th, th', t) /\ Mild /\ Keeps(k, r.k, {"mb"})
      /\ Gentle(k, r.k, t, IF r.at = "block" THEN {"mb_send"} ELSE {})
  BY <1>0, <1>1, <1>2, <1>3, CallMild
<1>5. Gentle(k, r.k, t, {"mb_send"})
  BY <1>4, GentleMore
<1>6. ASSUME Announced(k, th) PROVE Announced(k', th')
  BY <1>0, <1>1, <1>4, <1>5, <1>6, SendAnnounces, StockedInts
<1> QED BY <1>4, <1>6 DEF Informs

\* A mail is received, or is to be received.
LEMMA RecvInforms ==
  ASSUME Safe, Safe', Stocked, NEW t, t = k.cur, t \in Threads, k.stat[t] = "running", OnlyFor(k, th, t, "mb_recv"),
         NEW n \in Int, NEW m, NEW arg, Go(t, _rt_mb_recv(k, t, n), "mb_recv", m, arg)
  PROVE  Informs
<1>0. KInv(k) /\ KInv(k') /\ Base(load, k, th) /\ {"mb"} \subseteq Store /\ ListsOf("mb_recv") = {"mb_recv"}
  BY DEF Safe, System, Base, Store, ListsOf, OpOf, IpcLists, WaitLists
<1>1. PICK r : r = _rt_mb_recv(k, t, n)
  OBVIOUS
<1>2. Section(k, r, "mb_recv", InWait(k, "mb_send"), {"mb"})
  BY <1>0, <1>1, MailSections
<1>3. {"mb_recv"} \subseteq StockLists
  BY DEF StockLists
<1>4. /\ k' = r.k /\ CallsStay(th, th', t) /\ Mild /\ Keeps(k, r.k, {"mb"})
      /\ Gentle(k, r.k, t, IF r.at = "block" THEN {"mb_recv"} ELSE {})
  BY <1>0, <1>1, <1>2, <1>3, CallMild
<1>5. Gentle(k, r.k, t, {"mb_recv"})
  BY <1>4, GentleMore
<1>6. ASSUME Announced(k, th) PROVE Announced(k', th')
  BY <1>0, <1>1, <1>4, <1>5, <1>6, RecvAnnounces, StockedInts
<1> QED BY <1>4, <1>6 DEF Informs

\* An urgent mail is sent.
LEMMA UrgentInforms ==
  ASSUME Safe, Safe', Stocked, NEW t, NEW v, Enter(t, "mb_urgent"), Go(t, rt_mb_urgent(k, v), "mb_urgent", 0, None)
  PROVE  Informs
<1>0. /\ t = k.cur /\ th[t].at = "top" /\ t \in Threads /\ KInv(k) /\ k.stat[t] = "running" /\ Base(load, k, th)
      /\ {"mb"} \subseteq Store /\ th[t].at \notin Waiting
  BY Entering DEF Store, Waiting
<1>1. PICK r : r = rt_mb_urgent(k, v)
  OBVIOUS
<1>2. Section(k, r, "mb_urgent", InWait(k, "mb_recv"), {"mb"}) /\ r.at \in {"top", "resched"}
  BY <1>0, <1>1, MailOthers
<1>3. CASE k.mb.entry = MbSize
  <2>1. r.k = k
    BY <1>1, <1>3 DEF rt_mb_urgent, Ret
  <2> QED BY <1>0, <1>1, <2>1, ReturnInforms
<1>4. CASE k.mb.entry # MbSize
  <2>1. PICK b, o : /\ b = [k EXCEPT !.mb.pool[o] = v, !.mb.out = o, !.mb.entry = k.mb.entry + 1]
                    /\ r = finish(b, "mb_recv", None)
    BY <1>1, <1>4 DEF rt_mb_urgent
  <2>2. DOMAIN k = Fields /\ DOMAIN k.mb = {"pool", "in", "out", "entry"} /\ MbOK(k.mb)
    BY <1>0, StockedInts DEF KInv, Kernel, KType, MbOK
  <2>3. SameBut(k, b, {"mb"}) /\ b.mb.entry = k.mb.entry + 1
    BY <2>1, <2>2 DEF SameBut, Fields
  <2>4. k' = r.k /\ CallsStay(th, th', t) /\ Mild
    BY <1>0, <1>1, <1>2, CallMild
  <2>5. OnlyFor(k, th, t, "mb_send")
    BY <1>0, OnlyOwn DEF StockLists
  <2>6. Announced(k, th) => Announced(k', th')
    BY <1>0, <2>1, <2>2, <2>3, <2>4, <2>5, MailAdded, StockedInts
  <2> QED BY <2>4, <2>6 DEF Informs
<1> QED BY <1>3, <1>4

\* The mailbox is reset.
LEMMA ResetInforms ==
  ASSUME Safe, Safe', Stocked, NEW t, Enter(t, "mb_control"), Go(t, rt_mb_control(k), "mb_control", 0, None)
  PROVE  Informs
<1>0. /\ t = k.cur /\ th[t].at = "top" /\ KInv(k) /\ Base(load, k, th)
      /\ {"mb"} \subseteq Store /\ th[t].at \notin Waiting
  BY Entering DEF Store, Waiting
<1>1. PICK r : r = rt_mb_control(k)
  OBVIOUS
<1>2. Section(k, r, "mb_control", {}, {"mb"}) /\ r.at = "resched" /\ r.k.wait["mb_send"] = << >>
  BY <1>0, <1>1, MailOthers
<1>3. MbOK(r.k.mb) /\ Mails(r.k.mb) = << >>
  BY <1>0, <1>1, MbReset, StockedInts
<1>4. r.k.mb.entry = 0
  BY <1>3, MailsSeq
<1>5. k' = r.k /\ CallsStay(th, th', t) /\ Mild /\ Keeps(k, r.k, {"mb"}) /\ Gentle(k, r.k, t, {})
  BY <1>0, <1>1, <1>2, CallMild
<1>6. DOMAIN k = Fields /\ KInv(k')
  BY <1>0 DEF KInv, Kernel, KType, Safe, System, Base
<1>7. ASSUME NEW w \in StockLists
      PROVE  (w \notin {} /\ Lessens(k, th, k', t, w)) \/ Stock(k', w) = 0 \/ k'.wait[w] = << >>
  <2>1. CASE w = "mb_recv"
    BY <1>4, <1>5, <2>1 DEF Stock
  <2>2. CASE w = "mb_send"
    BY <1>2, <1>5, <2>2
  <2>3. CASE w \notin {"mb_recv", "mb_send"}
    <3>1. Stock(k', w) = Stock(k, w)
      BY <1>5, <1>6, <1>7, <2>3, MailStocks
    <3>2. t \notin Res(k, th, OpOf(w))
      BY <1>0 DEF Res, Waiting
    <3> QED BY <3>1, <3>2 DEF Lessens
  <2> QED BY <2>1, <2>2, <2>3
<1>8. Announced(k, th) => Announced(k', th')
  BY <1>0, <1>5, <1>6, <1>7, Taking, StockedInts
<1> QED BY <1>5, <1>8 DEF Informs

\* The calls on the mailbox.
LEMMA MailInforms ==
  ASSUME Safe, Safe', Stocked, NEW t, \/ MbSend(t) \/ MbSendWoken(t) \/ MbUrgent(t) \/ MbRecv(t) \/ MbRecvWoken(t)
                                      \/ MbControl(t)
  PROVE  Informs
<1>0. {"mb_send", "mb_recv"} \subseteq StockLists /\ OpOf("mb_send") = "mb_send" /\ OpOf("mb_recv") = "mb_recv"
  BY DEF StockLists, OpOf
<1>1. CASE MbSend(t)
  <2>1. PICK v \in Vals, n \in load.to : Go(t, _rt_mb_send_wait(k, t, v, n), "mb_send", n, v)
    BY <1>1 DEF MbSend
  <2>2. Enter(t, "mb_send")
    BY <1>1 DEF MbSend
  <2>3. t = k.cur /\ t \in Threads /\ th[t].at = "top" /\ k.stat[t] = "running" /\ n \in Int
    BY <2>2, Entering
  <2>4. OnlyFor(k, th, t, "mb_send")
    BY <1>0, <2>3, OnlyOwn DEF Waiting
  <2> QED BY <2>1, <2>3, <2>4, SendInforms
<1>2. CASE MbSendWoken(t)
  <2>1. PICK n : /\ n = TimeLeft(t)
                 /\ Go(t, IF k.err[t] # "EOK" THEN Ret(k, k.err[t]) ELSE _rt_mb_send_wait(k, t, th[t].arg, n),
                       "mb_send", n, th[t].arg)
    BY <1>2 DEF MbSendWoken
  <2>2. Woken(t, "mb_send")
    BY <1>2 DEF MbSendWoken
  <2>3. t = k.cur /\ t \in Threads /\ th[t].op = "mb_send" /\ k.stat[t] = "running" /\ n \in Int
    BY <2>1, <2>2, Waking
  <2>4. CASE k.err[t] # "EOK"
    <3>1. Go(t, Ret(k, k.err[t]), "mb_send", n, th[t].arg) /\ Ret(k, k.err[t]).k = k
      BY <2>1, <2>4 DEF Ret
    <3> QED BY <2>4, <3>1, ReturnInforms
  <2>5. CASE k.err[t] = "EOK"
    <3>1. Go(t, _rt_mb_send_wait(k, t, th[t].arg, n), "mb_send", n, th[t].arg)
      BY <2>1, <2>5
    <3>2. OnlyFor(k, th, t, "mb_send")
      BY <1>0, <2>3, OnlyOwn
    <3> QED BY <2>3, <3>1, <3>2, SendInforms
  <2> QED BY <2>4, <2>5
<1>3. CASE MbUrgent(t)
  BY <1>3, UrgentInforms DEF MbUrgent
<1>4. CASE MbRecv(t)
  <2>1. PICK n \in load.to : Go(t, _rt_mb_recv(k, t, n), "mb_recv", n, None)
    BY <1>4 DEF MbRecv
  <2>2. Enter(t, "mb_recv")
    BY <1>4 DEF MbRecv
  <2>3. t = k.cur /\ t \in Threads /\ th[t].at = "top" /\ k.stat[t] = "running" /\ n \in Int
    BY <2>2, Entering
  <2>4. OnlyFor(k, th, t, "mb_recv")
    BY <1>0, <2>3, OnlyOwn DEF Waiting
  <2> QED BY <2>1, <2>3, <2>4, RecvInforms
<1>5. CASE MbRecvWoken(t)
  <2>1. PICK n : /\ n = TimeLeft(t)
                 /\ Go(t, IF k.err[t] # "EOK" THEN Ret(k, k.err[t]) ELSE _rt_mb_recv(k, t, n), "mb_recv", n, None)
    BY <1>5 DEF MbRecvWoken
  <2>2. Woken(t, "mb_recv")
    BY <1>5 DEF MbRecvWoken
  <2>3. t = k.cur /\ t \in Threads /\ th[t].op = "mb_recv" /\ k.stat[t] = "running" /\ n \in Int
    BY <2>1, <2>2, Waking
  <2>4. CASE k.err[t] # "EOK"
    <3>1. Go(t, Ret(k, k.err[t]), "mb_recv", n, None) /\ Ret(k, k.err[t]).k = k
      BY <2>1, <2>4 DEF Ret
    <3> QED BY <2>4, <3>1, ReturnInforms
  <2>5. CASE k.err[t] = "EOK"
    <3>1. Go(t, _rt_mb_recv(k, t, n), "mb_recv", n, None)
      BY <2>1, <2>5
    <3>2. OnlyFor(k, th, t, "mb_recv")
      BY <1>0, <2>3, OnlyOwn
    <3> QED BY <2>3, <3>1, <3>2, RecvInforms
  <2> QED BY <2>4, <2>5
<1>6. CASE MbControl(t)
  BY <1>6, ResetInforms DEF MbControl
<1> QED BY <1>1, <1>2, <1>3, <1>4, <1>5, <1>6

\* rt_schedule resumes no thread and takes nothing.
LEMMA SchedAnnounces ==
  ASSUME NEW c, NEW d, NEW h, Announced(c, h), KInv(c), Wakes(c, d, {}, {}), d.err = c.err, Countable(d)
  PROVE  Announced(d, h)
<1>1. DOMAIN c = Fields /\ KInv(d)
  BY DEF KInv, Kernel, KType, Wakes
<1>2. Keeps(c, d, {}) /\ Gentle(c, d, None, {})
  BY WakesFrame, WakesGentle
<1>3. ASSUME NEW w \in StockLists PROVE Claim(d, h, w, Stock(d, w))
  <2>0. w \in IpcLists
    BY <1>3 DEF StockLists, IpcLists, WaitLists
  <2>1. Stock(d, w) = Stock(c, w)
    BY <1>1, <1>2, SameStock DEF StockLists
  <2>2. Res(c, h, OpOf(w)) \subseteq Res(d, h, OpOf(w))
    BY DEF Res, Wakes, Wake
  <2>3. d.wait[w] # << >> => c.wait[w] # << >>
    BY <1>1, <1>2, <2>0, StaysEmpty
  <2>4. /\ IsFiniteSet(Res(d, h, OpOf(w)))
        /\ Cardinality(Res(d, h, OpOf(w))) \in Nat /\ Cardinality(Res(c, h, OpOf(w))) \in Nat
    BY ResFinite
  <2>5. Cardinality(Res(c, h, OpOf(w))) <= Cardinality(Res(d, h, OpOf(w)))
    BY <2>2, <2>4, FS_Subset
  <2>6. Stock(d, w) \in Int
    BY DEF Countable
  <2> QED BY <2>1, <2>3, <2>4, <2>5, <2>6 DEF Announced, Claim
<1> QED BY <1>3 DEF Announced

\* A mail is sent by an interrupt handler.
LEMMA IsrMailInforms ==
  ASSUME Safe, Safe', Stocked, Stocked', NEW v \in Vals, Handler("mb_send", _rt_mb_send_wait(k, k.cur, v, 0))
  PROVE  Informs
<1>0. /\ KInv(k) /\ Base(load, k, th) /\ k.cur \in Threads /\ k.stat[Idle] \in {"ready", "running"}
      /\ {"mb"} \subseteq Store
  BY DEF Safe, System, Base, Store
<1>1. PICK r : r = _rt_mb_send_wait(k, k.cur, v, 0) /\ Handler("mb_send", r)
  OBVIOUS
<1>2. Section(k, r, "mb_send", InWait(k, "mb_recv"), {"mb"}) /\ r.at \in {"top", "resched"}
  BY <1>0, <1>1, MailPosted
<1>3. /\ Wakes(k, r.k, InWait(k, "mb_recv"), {"mb"}) /\ Wakes(k, k', InWait(k, "mb_recv"), {"mb"}) /\ th' = th
      /\ k' = r.k \/ (k' = rt_schedule(r.k) /\ Wakes(r.k, k', {}, {}))
  BY <1>1, <1>2, HandlerWakes
<1>4. Gentle(k, k', None, StockLists) /\ Keeps(k, k', {"mb"})
  BY <1>3, WakesGentle, WakesFrame
<1>5. Mild
  BY <1>0, <1>4, KeepsMore DEF Mild
<1>6. None \notin Threads /\ OnlyFor(k, th, None, "mb_send") /\ CallsStay(th, th', None)
  BY <1>3, IpcAssumption DEF OnlyFor, Res, CallsStay
<1>7. KInv(r.k) /\ Gentle(k, r.k, None, {"mb_send"})
  BY <1>3, WakesGentle DEF Wakes
<1>8. ASSUME Announced(k, th) PROVE Announced(k', th')
  <2>1. Announced(r.k, th')
    BY <1>0, <1>1, <1>6, <1>7, <1>8, SendAnnounces, StockedInts
  <2>2. CASE k' = r.k
    BY <2>1, <2>2
  <2>3. CASE k' = rt_schedule(r.k) /\ Wakes(r.k, k', {}, {})
    <3>1. r.k.cur \in Threads /\ r.k.stat[Idle] \in {"ready", "running"}
      <4>1. r.k.cur = k.cur
        BY <1>2, SectionEnds
      <4>2. Idle \in Threads
        BY SchedAssumption
      <4> QED BY <1>0, <1>3, <4>1, <4>2 DEF Wakes, Wake
    <3>2. k'.err = r.k.err
      BY <1>7, <2>3, <3>1, SchedWakes
    <3>3. Countable(k')
      BY StockInts DEF Stocked
    <3> QED BY <1>7, <2>1, <2>3, <3>2, <3>3, SchedAnnounces
  <2> QED BY <1>3, <2>2, <2>3
<1> QED BY <1>5, <1>8 DEF Informs

\* The stocks of the message queue.
LEMMA SlotStock ==
  ASSUME NEW c, NEW h, NEW Q, NEW R, SlotUse(c.mq, h, Q, R)
  PROVE  /\ Stock(c, "mq_recv") = Len(Q) /\ Stock(c, "mq_send") = Len(R) /\ Len(Q) \in Nat /\ Len(R) \in Nat
         /\ c.mq.free = Null => Len(R) = 0
<1>1. Path(c.mq.next, c.mq.free, R) /\ Path(c.mq.next, c.mq.head, Q) /\ c.mq.entry = Len(Q)
  BY DEF SlotUse
<1>2. Chain(c.mq.next, c.mq.free) = R
  BY <1>1, PathIsChain
<1>3. Len(Q) \in Nat /\ Len(R) \in Nat /\ (c.mq.free = Null => Len(R) = 0)
  BY <1>1, PathEmpty
<1> QED BY <1>1, <1>2, <1>3 DEF Stock

\* A call finds the stock it wants empty.
LEMMA EmptyInforms ==
  ASSUME Safe, Safe', Stocked, NEW x \in StockLists, Stock(k, x) = 0, NEW t, OnlyFor(k, th, t, x),
         CallsStay(th, th', t), Gentle(k, k', t, {x}), Keeps(k, k', {})
  PROVE  Informs
<1>1. Base(load, k, th) /\ KInv(k') /\ Countable(k)
  BY StockedInts DEF Safe, System, Base
<1>2. Announced(k, th) => Announced(k', th')
  BY <1>1, FoundEmpty
<1>3. Gentle(k, k', t, StockLists) /\ Keeps(k, k', Store)
  BY GentleMore, KeepsMore
<1> QED BY <1>2, <1>3 DEF Informs, Mild

\* A call takes one of the stock it wants.
LEMMA TakeInforms ==
  ASSUME Safe, Safe', Stocked, NEW x \in StockLists, Stock(k', x) = Stock(k, x) - 1, NEW t, OnlyFor(k, th, t, x),
         CallsStay(th, th', t), Gentle(k, k', t, {}), Keeps(k, k', Store),
         \A w \in StockLists \ {x} : Stock(k', w) = Stock(k, w)
  PROVE  Informs
<1>1. Base(load, k, th) /\ KInv(k') /\ Countable(k)
  BY StockedInts DEF Safe, System, Base
<1>2. ASSUME NEW w \in StockLists PROVE w \notin {} /\ Lessens(k, th, k', t, w)
  BY DEF Lessens, OnlyFor
<1>3. Announced(k, th) => Announced(k', th')
  BY <1>1, <1>2, Taking
<1>4. Gentle(k, k', t, StockLists)
  BY GentleMore
<1> QED BY <1>3, <1>4 DEF Informs, Mild

\* A call gives one to a stock.
LEMMA HandInforms ==
  ASSUME Safe, Safe', Stocked, NEW x \in StockLists, Stock(k', x) = Stock(k, x) + 1, NEW t, t = k.cur,
         k.stat[t] = "running", th[t].at \notin Waiting,
         NEW F, F \subseteq Store, NEW b, SameBut(k, b, F), NEW v, NEW r, r = finish(b, x, v),
         NEW o, NEW n, NEW arg, Go(t, r, o, n, arg), NEW q, NEW G, Section(k, r, q, G, F),
         r.at \in {"top", "resched"}, \A w \in StockLists \ {x} : Stock(k', w) = Stock(k, w)
  PROVE  Informs
<1>1. Base(load, k, th) /\ Countable(k) /\ F \subseteq Objects
  BY StockedInts DEF Safe, System, Base, Store, Objects
<1>2. k' = r.k /\ CallsStay(th, th', t) /\ Mild
  BY CallMild
<1>3. \A w \in StockLists : t \notin Res(k, th, OpOf(w))
  BY DEF Res, Waiting
<1>4. \A w \in StockLists \ {x} : Lessens(k, th, k', t, w)
  BY <1>3 DEF Lessens
<1>5. Announced(k, th) => Announced(k', th')
  BY <1>1, <1>2, <1>3, <1>4, Handing
<1> QED BY <1>2, <1>5 DEF Informs

\* A slot is reserved for a message, or the thread waits for one.
LEMMA ReserveInforms ==
  ASSUME Safe, Safe', Stocked, NEW t, t = k.cur, t \in Threads, k.stat[t] = "running", OnlyFor(k, th, t, "mq_send"),
         NEW n \in Int, NEW o, NEW m, NEW arg, Go(t, mq_reserve(k, t, n), o, m, arg)
  PROVE  Informs
<1>0. /\ KInv(k) /\ Base(load, k, th) /\ {"mq"} \subseteq Store /\ ListsOf("mq_send") = {"mq_send"}
      /\ "mq_send" \in StockLists
  BY DEF Safe, System, Base, Store, ListsOf, OpOf, IpcLists, WaitLists, StockLists
<1>1. PICK r : r = mq_reserve(k, t, n)
  OBVIOUS
<1>2. Section(k, r, "mq_send", {}, {"mq"}) /\ r.at # "resched"
  BY <1>0, <1>1, MsgSections
<1>3. /\ k' = r.k /\ CallsStay(th, th', t) /\ Mild /\ Keeps(k, r.k, {"mq"})
      /\ Gentle(k, r.k, t, IF r.at = "block" THEN {"mq_send"} ELSE {})
  BY <1>0, <1>1, <1>2, CallMild
<1>4. PICK Q, R : SlotUse(k.mq, th, Q, R)
  BY DEF Stocked, MqOK
<1>5. DOMAIN k = Fields /\ DOMAIN k.mq = MqFields
  BY <1>0 DEF KInv, Kernel, KType, Stocked, MqOK, MqFields
<1>6. /\ Stock(k, "mq_recv") = Len(Q) /\ Stock(k, "mq_send") = Len(R) /\ Len(Q) \in Nat /\ Len(R) \in Nat
      /\ k.mq.free = Null => Len(R) = 0
  BY <1>4, SlotStock
<1>7. CASE k.mq.free = Null
  <2>1. Keeps(k, k', {})
    BY <1>1, <1>3, <1>7, IpcFrames DEF mq_reserve
  <2>2. Gentle(k, k', t, {"mq_send"})
    BY <1>3, GentleMore
  <2> QED BY <1>0, <1>3, <1>6, <1>7, <2>1, <2>2, EmptyInforms
<1>8. CASE k.mq.free # Null
  <2>1. r.k = [k EXCEPT !.mq.free = k.mq.next[k.mq.free]] /\ r.at = "copy"
    BY <1>1, <1>8 DEF mq_reserve, Copy
  <2>2. k'.mq.free = k.mq.next[k.mq.free] /\ k'.mq.next = k.mq.next /\ k'.mq.entry = k.mq.entry
    BY <1>3, <1>5, <2>1 DEF Fields, MqFields
  <2>3. Path(k.mq.next, k.mq.next[k.mq.free], Tail(R)) /\ Len(Tail(R)) = Len(R) - 1
    BY <1>4, <1>8, PathPop DEF SlotUse
  <2>4. Chain(k'.mq.next, k'.mq.free) = Tail(R)
    BY <2>2, <2>3, PathIsChain
  <2>5. Stock(k', "mq_send") = Stock(k, "mq_send") - 1
    BY <1>6, <2>3, <2>4 DEF Stock
  <2>6. ASSUME NEW w \in StockLists \ {"mq_send"} PROVE Stock(k', w) = Stock(k, w)
    <3>1. CASE w = "mq_recv"
      BY <2>2, <3>1 DEF Stock
    <3>2. CASE w # "mq_recv"
      BY <1>3, <1>5, <2>6, <3>2, SameStock DEF StockLists
    <3> QED BY <3>1, <3>2
  <2>7. Gentle(k, k', t, {}) /\ Keeps(k, k', Store)
    BY <1>0, <1>3, <2>1, KeepsMore
  <2> QED BY <1>0, <1>3, <2>5, <2>6, <2>7, TakeInforms
<1> QED BY <1>7, <1>8

\* A message is taken out, or the thread waits for one.
LEMMA UnlinkInforms ==
  ASSUME Safe, Safe', Stocked, NEW t, t = k.cur, t \in Threads, k.stat[t] = "running", OnlyFor(k, th, t, "mq_recv"),
         NEW n \in Int, NEW m, NEW arg, Go(t, mq_unlink(k, t, n), "mq_recv", m, arg)
  PROVE  Informs
<1>0. /\ KInv(k) /\ Base(load, k, th) /\ {"mq"} \subseteq Store /\ ListsOf("mq_recv") = {"mq_recv"}
      /\ "mq_recv" \in StockLists
  BY DEF Safe, System, Base, Store, ListsOf, OpOf, IpcLists, WaitLists, StockLists
<1>1. PICK r : r = mq_unlink(k, t, n)
  OBVIOUS
<1>2. Section(k, r, "mq_recv", {}, {"mq"}) /\ r.at # "resched"
  BY <1>0, <1>1, MsgSections
<1>3. /\ k' = r.k /\ CallsStay(th, th', t) /\ Mild /\ Keeps(k, r.k, {"mq"})
      /\ Gentle(k, r.k, t, IF r.at = "block" THEN {"mq_recv"} ELSE {})
  BY <1>0, <1>1, <1>2, CallMild
<1>5. DOMAIN k = Fields /\ DOMAIN k.mq = MqFields
  BY <1>0 DEF KInv, Kernel, KType, Stocked, MqOK, MqFields
<1>7. CASE k.mq.entry = 0
  <2>1. Keeps(k, k', {})
    BY <1>1, <1>3, <1>7, IpcFrames DEF mq_unlink
  <2>2. Gentle(k, k', t, {"mq_recv"}) /\ Stock(k, "mq_recv") = 0
    BY <1>3, <1>7, GentleMore DEF Stock
  <2> QED BY <1>0, <1>3, <2>1, <2>2, EmptyInforms
<1>8. CASE k.mq.entry # 0
  <2>1. r.at = "copy"
    BY <1>1, <1>8 DEF mq_unlink, Copy
  <2>3. QSame(k.mq, r.k.mq, {"head", "tail", "entry"}) /\ r.k.mq.entry = k.mq.entry - 1
    BY <1>1, <1>5, <2>1, MqUnlinked
  <2>2. k'.mq.free = k.mq.free /\ k'.mq.next = k.mq.next /\ k'.mq.entry = k.mq.entry - 1
    BY <1>3, <2>3 DEF QSame, MqFields
  <2>5. Stock(k', "mq_recv") = Stock(k, "mq_recv") - 1
    BY <2>2 DEF Stock
  <2>6. ASSUME NEW w \in StockLists \ {"mq_recv"} PROVE Stock(k', w) = Stock(k, w)
    <3>1. CASE w = "mq_send"
      BY <2>2, <3>1 DEF Stock
    <3>2. CASE w # "mq_send"
      BY <1>3, <1>5, <2>6, <3>2, SameStock DEF StockLists
    <3> QED BY <3>1, <3>2
  <2>7. Gentle(k, k', t, {}) /\ Keeps(k, k', Store)
    BY <1>0, <1>3, <2>1, KeepsMore
  <2> QED BY <1>0, <1>3, <2>5, <2>6, <2>7, TakeInforms
<1> QED BY <1>7, <1>8

\* The message has been copied.
LEMMA CopiedInforms ==
  ASSUME Safe, Safe', Stocked, NEW t, MqCopied(t)
  PROVE  Informs
<1>1. /\ DOMAIN k = Fields /\ DOMAIN k.mq = MqFields /\ t \in Threads /\ t = k.cur /\ KInv(k)
      /\ th[t].at = "copy" /\ th[t].op \in {"mq_send", "mq_urgent", "mq_recv"} /\ k.stat[t] = "running"
      /\ th[t].at \notin Waiting
  <2>1. k.cur = t /\ th[t].at = "copy"
    BY DEF MqCopied
  <2>2. Base(load, k, th) /\ k.cur \in Threads /\ KInv(k) /\ Runs(k, th[k.cur])
    BY DEF Safe, System, Base
  <2>3. Own(load, k, th[t], t)
    BY <2>1, <2>2 DEF Base
  <2>4. k.stat[t] = "running"
    BY <2>1, <2>2 DEF Runs
  <2> QED BY <2>1, <2>2, <2>3, <2>4 DEF KInv, Kernel, KType, Stocked, MqOK, MqFields, Own, Waiting
<1>2. PICK x : x = th[t].slot
  OBVIOUS
<1>3. PICK Q, R : SlotUse(k.mq, th, Q, R)
  BY DEF Stocked, MqOK
<1>4. /\ x \in Slots /\ ~InList(x, Q) /\ ~InList(x, R) /\ DOMAIN k.mq.next = Slots /\ DOMAIN k.mq.val = Slots
      /\ IsList(Slots, Q) /\ IsList(Slots, R)
  BY <1>1, <1>2, <1>3 DEF SlotUse, Copies, Path
<1>5. /\ Stock(k, "mq_recv") = Len(Q) /\ Stock(k, "mq_send") = Len(R) /\ Len(Q) \in Nat /\ Len(R) \in Nat
  BY <1>3, SlotStock
<1>6. {"mq"} \subseteq Store /\ "mq_recv" \in StockLists /\ "mq_send" \in StockLists
  BY DEF Store, StockLists
<1>7. CASE th[t].op \in {"mq_send", "mq_urgent"}
  <2>1. PICK v, r : /\ v = th[t].arg /\ Go(t, r, th[t].op, 0, None)
                    /\ \/ th[t].op = "mq_send" /\ r = mq_link(k, x, v)
                       \/ th[t].op = "mq_urgent" /\ r = mq_link_urgent(k, x, v)
    BY <1>2, <1>7 DEF MqCopied
  <2>2. Section(k, r, th[t].op, InWait(k, "mq_recv"), {"mq"}) /\ r.at \in {"top", "resched"}
    BY <1>1, <2>1, MsgCopied
  <2>3. /\ k' = r.k /\ SlotLeaves(th, th', t, x) /\ Keeps(k, k', {"mq"})
    BY <1>1, <1>2, <1>6, <2>1, <2>2, GoLeaves, CallMild
  <2>4. \E P : SlotUse(k'.mq, th', P, R) /\ Len(P) = Len(Q) + 1
    <3>1. CASE r = mq_link(k, x, v)
      <4>1. k.mq.tail # x
        <5>1. k.mq.tail = At(Q, Len(Q)) /\ Q \in Seq(Slots)
          BY <1>3, <1>4 DEF SlotUse, IsList
        <5>2. \A i \in 1 .. Len(Q) : Q[i] # x
          BY <1>4, <5>1, InListDef
        <5>3. x # Null
          BY <1>4, IpcAssumption DEF Slots, Null
        <5> QED BY <5>1, <5>2, <5>3 DEF At
      <4>2. Behind(k.mq, k'.mq, x, v)
        BY <1>1, <1>4, <2>3, <3>1, <4>1, MqLinked
      <4>3. SlotUse(k'.mq, th', Append(Q, x), R)
        BY <1>3, <2>3, <4>2, SlotQueued
      <4>4. Len(Append(Q, x)) = Len(Q) + 1
        BY <1>4 DEF IsList
      <4> QED BY <4>3, <4>4
    <3>2. CASE r = mq_link_urgent(k, x, v)
      <4>1. Fronted(k.mq, k'.mq, x, v)
        BY <1>1, <2>3, <3>2, MqUrged
      <4>2. SlotUse(k'.mq, th', Cons(x, Q), R)
        BY <1>3, <2>3, <4>1, SlotFirst
      <4>3. Len(Cons(x, Q)) = Len(Q) + 1
        BY <1>4 DEF IsList, Cons
      <4> QED BY <4>2, <4>3
    <3> QED BY <2>1, <3>1, <3>2
  <2>5. PICK P : SlotUse(k'.mq, th', P, R) /\ Len(P) = Len(Q) + 1
    BY <2>4
  <2>6. Stock(k', "mq_recv") = Stock(k, "mq_recv") + 1 /\ Stock(k', "mq_send") = Stock(k, "mq_send")
    BY <1>5, <2>5, SlotStock
  <2>7. ASSUME NEW w \in StockLists \ {"mq_recv"} PROVE Stock(k', w) = Stock(k, w)
    <3>1. CASE w = "mq_send"
      BY <2>6, <3>1
    <3>2. CASE w # "mq_send"
      BY <1>1, <2>3, <2>7, <3>2, SameStock DEF StockLists
    <3> QED BY <3>1, <3>2
  <2>8. PICK b : SameBut(k, b, {"mq"}) /\ r = finish(b, "mq_recv", None)
    <3>1. CASE r = mq_link(k, x, v)
      <4>1. PICK b, next : /\ b = [k EXCEPT !.mq.next = next, !.mq.val[x] = v, !.mq.tail = x, !.mq.entry = @ + 1,
                                            !.mq.head = IF @ = Null THEN x ELSE @]
                           /\ r = finish(b, "mq_recv", None)
        BY <3>1 DEF mq_link
      <4>2. DOMAIN b = DOMAIN k /\ \A f \in DOMAIN k : f # "mq" => b[f] = k[f]
        BY <4>1
      <4> QED BY <1>1, <4>1, <4>2 DEF SameBut
    <3>2. CASE r = mq_link_urgent(k, x, v)
      <4>1. PICK b : /\ b = [k EXCEPT !.mq.next[x] = k.mq.head, !.mq.val[x] = v, !.mq.head = x, !.mq.entry = @ + 1,
                                      !.mq.tail = IF @ = Null THEN x ELSE @]
                     /\ r = finish(b, "mq_recv", None)
        BY <3>2 DEF mq_link_urgent
      <4>2. DOMAIN b = DOMAIN k /\ \A f \in DOMAIN k : f # "mq" => b[f] = k[f]
        BY <4>1
      <4> QED BY <1>1, <4>1, <4>2 DEF SameBut
    <3> QED BY <2>1, <3>1, <3>2
  <2> QED BY <1>1, <1>6, <2>1, <2>2, <2>6, <2>7, <2>8, HandInforms
<1>8. CASE th[t].op = "mq_recv"
  <2>1. PICK r : r = mq_free(k, x) /\ Go(t, r, th[t].op, 0, None)
    BY <1>2, <1>8 DEF MqCopied
  <2>2. Section(k, r, th[t].op, InWait(k, "mq_send"), {"mq"}) /\ r.at \in {"top", "resched"}
    BY <1>1, <2>1, MsgCopied
  <2>3. /\ k' = r.k /\ SlotLeaves(th, th', t, x) /\ Keeps(k, k', {"mq"})
    BY <1>1, <1>2, <1>6, <2>1, <2>2, GoLeaves, CallMild
  <2>4. Freed(k.mq, k'.mq, x)
    BY <1>1, <2>1, <2>3, MqFreed
  <2>5. SlotUse(k'.mq, th', Q, Cons(x, R)) /\ Len(Cons(x, R)) = Len(R) + 1
    BY <1>3, <1>4, <2>3, <2>4, SlotFreed DEF IsList, Cons
  <2>6. Stock(k', "mq_recv") = Stock(k, "mq_recv") /\ Stock(k', "mq_send") = Stock(k, "mq_send") + 1
    BY <1>5, <2>5, SlotStock
  <2>7. ASSUME NEW w \in StockLists \ {"mq_send"} PROVE Stock(k', w) = Stock(k, w)
    <3>1. CASE w = "mq_recv"
      BY <2>6, <3>1
    <3>2. CASE w # "mq_recv"
      BY <1>1, <2>3, <2>7, <3>2, SameStock DEF StockLists
    <3> QED BY <3>1, <3>2
  <2>8. PICK m, b, v : b = [k EXCEPT !.mq = m] /\ r = finish(b, "mq_send", v)
    <3>1. r = finish([k EXCEPT !.mq.next[x] = k.mq.free, !.mq.free = x, !.mq.val[x] = None], "mq_send", k.mq.val[x])
      BY <2>1 DEF mq_free
    <3>2. PICK m : [k EXCEPT !.mq.next[x] = k.mq.free, !.mq.free = x, !.mq.val[x] = None] = [k EXCEPT !.mq = m]
      BY ZenonT(60)
    <3> QED BY <3>1, <3>2
  <2>9. SameBut(k, b, {"mq"})
    BY <1>1, <2>8 DEF SameBut
  <2> QED BY <1>1, <1>6, <2>1, <2>2, <2>6, <2>7, <2>8, <2>9, HandInforms
<1> QED BY <1>1, <1>7, <1>8

\* The message queue is reset.
LEMMA MsgResetInforms ==
  ASSUME Safe, Safe', Stocked, NEW t, MqControl(t)
  PROVE  Informs
<1>1. PICK r : Enter(t, "mq_control") /\ r = rt_mq_control(k) /\ Go(t, r, "mq_control", 0, None)
  BY DEF MqControl
<1>2. /\ t = k.cur /\ th[t].at = "top" /\ KInv(k) /\ Base(load, k, th)
      /\ {"mq"} \subseteq Store /\ th[t].at \notin Waiting
  BY <1>1, Entering DEF Store, Waiting
<1>3. Section(k, r, "mq_control", {}, {"mq"}) /\ r.at = "resched" /\ r.k.wait["mq_send"] = << >>
  BY <1>1, <1>2, MsgReset
<1>4. k'.mq.entry = 0
  BY ResetShift
<1>5. k' = r.k /\ CallsStay(th, th', t) /\ Mild /\ Keeps(k, r.k, {"mq"}) /\ Gentle(k, r.k, t, {})
  BY <1>1, <1>2, <1>3, CallMild
<1>6. DOMAIN k = Fields /\ KInv(k')
  BY <1>2 DEF KInv, Kernel, KType, Safe, System, Base
<1>7. ASSUME NEW w \in StockLists
      PROVE  (w \notin {} /\ Lessens(k, th, k', t, w)) \/ Stock(k', w) = 0 \/ k'.wait[w] = << >>
  <2>1. CASE w = "mq_recv"
    BY <1>4, <2>1 DEF Stock
  <2>2. CASE w = "mq_send"
    BY <1>3, <1>5, <2>2
  <2>3. CASE w \notin {"mq_recv", "mq_send"}
    <3>1. Stock(k', w) = Stock(k, w)
      BY <1>5, <1>6, <1>7, <2>3, SameStock DEF StockLists
    <3>2. t \notin Res(k, th, OpOf(w))
      BY <1>2 DEF Res, Waiting
    <3> QED BY <3>1, <3>2 DEF Lessens
  <2> QED BY <2>1, <2>2, <2>3
<1>8. Announced(k, th) => Announced(k', th')
  BY <1>2, <1>5, <1>6, <1>7, Taking, StockedInts
<1> QED BY <1>5, <1>8 DEF Informs

\* The calls on the message queue.
LEMMA MsgInforms ==
  ASSUME Safe, Safe', Stocked, NEW t, \/ MqSend(t) \/ MqSendWoken(t) \/ MqUrgent(t) \/ MqRecv(t) \/ MqRecvWoken(t)
                                      \/ MqCopied(t) \/ MqControl(t)
  PROVE  Informs
<1>0. {"mq_send", "mq_recv"} \subseteq StockLists /\ OpOf("mq_send") = "mq_send" /\ OpOf("mq_recv") = "mq_recv"
  BY DEF StockLists, OpOf
<1>1. ASSUME NEW o, Enter(t, o)
      PROVE  /\ t = k.cur /\ t \in Threads /\ k.stat[t] = "running" /\ load.to \subseteq Int
             /\ OnlyFor(k, th, t, "mq_send") /\ OnlyFor(k, th, t, "mq_recv")
  <2>1. t = k.cur /\ t \in Threads /\ k.stat[t] = "running" /\ load.to \subseteq Int /\ th[t].at = "top"
    BY <1>1, Entering
  <2> QED BY <1>0, <2>1, OnlyOwn DEF Waiting
<1>2. ASSUME NEW o \in {"mq_send", "mq_recv"}, Woken(t, o)
      PROVE  t = k.cur /\ t \in Threads /\ k.stat[t] = "running" /\ TimeLeft(t) \in Int /\ OnlyFor(k, th, t, o)
  <2>1. t = k.cur /\ t \in Threads /\ th[t].op = o /\ k.stat[t] = "running" /\ TimeLeft(t) \in Int
    BY <1>2, Waking
  <2> QED BY <1>0, <1>2, <2>1, OnlyOwn
<1>3. CASE MqSend(t)
  <2>1. PICK v, n : n \in load.to /\ Go(t, mq_reserve(k, t, n), "mq_send", n, v) /\ Enter(t, "mq_send")
    BY <1>3 DEF MqSend
  <2> QED BY <1>1, <2>1, ReserveInforms
<1>4. CASE MqSendWoken(t)
  <2>1. PICK n : /\ n = TimeLeft(t) /\ Woken(t, "mq_send")
                 /\ Go(t, IF k.err[t] # "EOK" THEN Ret(k, k.err[t]) ELSE mq_reserve(k, t, n), "mq_send", n, th[t].arg)
    BY <1>4 DEF MqSendWoken
  <2>2. CASE k.err[t] # "EOK"
    <3>1. Go(t, Ret(k, k.err[t]), "mq_send", n, th[t].arg) /\ Ret(k, k.err[t]).k = k
      BY <2>1, <2>2 DEF Ret
    <3> QED BY <2>2, <3>1, ReturnInforms
  <2>3. CASE k.err[t] = "EOK"
    <3>1. Go(t, mq_reserve(k, t, n), "mq_send", n, th[t].arg)
      BY <2>1, <2>3
    <3> QED BY <1>2, <2>1, <3>1, ReserveInforms
  <2> QED BY <2>2, <2>3
<1>5. CASE MqUrgent(t)
  <2>1. PICK v \in Alarms : Go(t, mq_reserve(k, t, 0), "mq_urgent", 0, v)
    BY <1>5 DEF MqUrgent
  <2>2. Enter(t, "mq_urgent")
    BY <1>5 DEF MqUrgent
  <2> QED BY <1>1, <2>1, <2>2, ReserveInforms
<1>6. CASE MqRecv(t)
  <2>1. PICK n \in load.to : Go(t, mq_unlink(k, t, n), "mq_recv", n, None)
    BY <1>6 DEF MqRecv
  <2>2. Enter(t, "mq_recv")
    BY <1>6 DEF MqRecv
  <2> QED BY <1>1, <2>1, <2>2, UnlinkInforms
<1>7. CASE MqRecvWoken(t)
  <2>1. PICK n : /\ n = TimeLeft(t) /\ Woken(t, "mq_recv")
                 /\ Go(t, IF k.err[t] # "EOK" THEN Ret(k, k.err[t]) ELSE mq_unlink(k, t, n), "mq_recv", n, None)
    BY <1>7 DEF MqRecvWoken
  <2>2. CASE k.err[t] # "EOK"
    <3>1. Go(t, Ret(k, k.err[t]), "mq_recv", n, None) /\ Ret(k, k.err[t]).k = k
      BY <2>1, <2>2 DEF Ret
    <3> QED BY <2>2, <3>1, ReturnInforms
  <2>3. CASE k.err[t] = "EOK"
    <3>1. Go(t, mq_unlink(k, t, n), "mq_recv", n, None)
      BY <2>1, <2>3
    <3> QED BY <1>2, <2>1, <3>1, UnlinkInforms
  <2> QED BY <2>2, <2>3
<1> QED BY <1>3, <1>4, <1>5, <1>6, <1>7, CopiedInforms, MsgResetInforms

-----------------------------------------------------------------------------
\* A block is taken, or the thread waits for one.
LEMMA AllocInforms ==
  ASSUME Safe, Safe', Stocked, NEW t, t = k.cur, t \in Threads, k.stat[t] = "running", OnlyFor(k, th, t, "mp"),
         NEW n \in Int, NEW m, NEW arg, Go(t, rt_mp_alloc(k, t, n), "mp_alloc", m, arg)
  PROVE  Informs
<1>0. /\ KInv(k) /\ DOMAIN th = Threads /\ {"mp"} \subseteq Store /\ {"mp"} \subseteq Objects
      /\ ListsOf("mp_alloc") = {"mp"} /\ "mp" \in StockLists
  BY DEF Safe, System, Base, Store, Objects, ListsOf, OpOf, IpcLists, WaitLists, StockLists
<1>1. PICK r : r = rt_mp_alloc(k, t, n)
  OBVIOUS
<1>2. PICK b : Preset(k, b) /\ Section(b, r, "mp_alloc", {}, {"mp"}) /\ r.at \in {"top", "block"}
  BY <1>0, <1>1, PoolTaken
<1>3. KInv(b) /\ b.cur = k.cur
  BY <1>0, <1>2, PresetFacts
<1>4. Gentle(k, b, t, {})
  BY <1>0, <1>2, PresetGentle
<1>5. Gentle(b, r.k, t, IF r.at = "block" THEN {"mp"} ELSE {})
  BY <1>0, <1>2, <1>3, SectionGentle
<1>6. Gentle(k, r.k, t, IF r.at = "block" THEN {"mp"} ELSE {})
  BY <1>4, <1>5, GentleTrans
<1>7. k' = r.k /\ CallsStay(th, th', t)
  BY <1>0, <1>1, GoStays
<1>8. DOMAIN k = Fields /\ DOMAIN k.mp = {"list", "free"}
  BY <1>0 DEF KInv, Kernel, KType, Stocked, MpOK
<1>9. CASE k.mp.free = 0
  <2>1. Keeps(k, k', {})
    BY <1>1, <1>7, <1>8, <1>9, MpTaken
  <2>2. Gentle(k, k', t, {"mp"}) /\ Stock(k, "mp") = 0
    BY <1>6, <1>7, <1>9, GentleMore DEF Stock
  <2> QED BY <1>0, <1>7, <2>1, <2>2, EmptyInforms
<1>10. CASE k.mp.free # 0
  <2>1. r.at = "top" /\ r.val = Head(k.mp.list) /\ r.k = [k EXCEPT !.mp.free = @ - 1, !.mp.list = Tail(@)]
    BY <1>1, <1>10 DEF rt_mp_alloc, Ret
  <2>9. r.val = Head(k.mp.list)
    BY <2>1
  <2>8. Head(k.mp.list) # None
    <3>1. IsList(Blocks, k.mp.list) /\ k.mp.free = Len(k.mp.list)
      BY DEF Stocked, MpOK
    <3> QED BY <1>10, <3>1, IpcAssumption DEF IsList
  <2>2. r.k.mp.free = k.mp.free - 1
    BY <1>1, <1>8, <2>8, <2>9, MpTaken
  <2>7. DOMAIN r.k = DOMAIN k /\ \A f \in DOMAIN k : f # "mp" => r.k[f] = k[f]
    BY <2>1
  <2>6. Keeps(k, k', {"mp"})
    BY <1>7, <1>8, <2>7, SameKeeps DEF SameBut
  <2>3. Stock(k', "mp") = Stock(k, "mp") - 1
    BY <1>7, <2>2 DEF Stock
  <2>4. ASSUME NEW w \in StockLists \ {"mp"} PROVE Stock(k', w) = Stock(k, w)
    BY <1>8, <2>4, <2>6, SameStock DEF StockLists
  <2>5. Gentle(k, k', t, {}) /\ Keeps(k, k', Store)
    BY <1>0, <1>6, <1>7, <2>1, <2>6, KeepsMore
  <2> QED BY <1>0, <1>7, <2>3, <2>4, <2>5, TakeInforms
<1> QED BY <1>9, <1>10

\* The calls on the memory pool.
LEMMA PoolInforms ==
  ASSUME Safe, Safe', Stocked, NEW t, MpAlloc(t) \/ MpWoken(t) \/ MpFree(t)
  PROVE  Informs
<1>0. "mp" \in StockLists /\ OpOf("mp") = "mp_alloc" /\ {"mp"} \subseteq Store
  BY DEF StockLists, OpOf, Store
<1>1. CASE MpAlloc(t)
  <2>1. PICK n \in load.to : Go(t, rt_mp_alloc(k, t, n), "mp_alloc", n, None)
    BY <1>1 DEF MpAlloc
  <2>2. Enter(t, "mp_alloc")
    BY <1>1 DEF MpAlloc
  <2>3. t = k.cur /\ t \in Threads /\ th[t].at = "top" /\ k.stat[t] = "running" /\ n \in Int
    BY <2>2, Entering
  <2>4. OnlyFor(k, th, t, "mp")
    BY <1>0, <2>3, OnlyOwn DEF Waiting
  <2> QED BY <2>1, <2>3, <2>4, AllocInforms
<1>2. CASE MpWoken(t)
  <2>1. PICK n : /\ n = TimeLeft(t) /\ Woken(t, "mp_alloc")
                 /\ Go(t, IF k.err[t] # "EOK" THEN Ret(k, k.err[t]) ELSE rt_mp_alloc(k, t, n), "mp_alloc", n, None)
    BY <1>2 DEF MpWoken
  <2>2. t = k.cur /\ t \in Threads /\ th[t].op = "mp_alloc" /\ k.stat[t] = "running" /\ n \in Int
    BY <2>1, Waking
  <2>3. CASE k.err[t] # "EOK"
    <3>1. Go(t, Ret(k, k.err[t]), "mp_alloc", n, None) /\ Ret(k, k.err[t]).k = k
      BY <2>1, <2>3 DEF Ret
    <3> QED BY <2>3, <3>1, ReturnInforms
  <2>4. CASE k.err[t] = "EOK"
    <3>1. Go(t, rt_mp_alloc(k, t, n), "mp_alloc", n, None)
      BY <2>1, <2>4
    <3>2. OnlyFor(k, th, t, "mp")
      BY <1>0, <2>2, OnlyOwn
    <3> QED BY <2>2, <3>1, <3>2, AllocInforms
  <2> QED BY <2>3, <2>4
<1>3. CASE MpFree(t)
  <2>1. PICK x, r : /\ Enter(t, "mp_free") /\ r = rt_mp_free(k, x) /\ Go(t, r, "mp_free", 0, None)
    BY <1>3 DEF MpFree
  <2>2. t = k.cur /\ t \in Threads /\ th[t].at \notin Waiting /\ k.stat[t] = "running" /\ KInv(k)
    BY <2>1, Entering DEF Waiting
  <2>3. Section(k, r, "mp_free", InWait(k, "mp"), {"mp"}) /\ r.at \in {"top", "resched"}
    BY <2>1, <2>2, PoolFreed
  <2>4. DOMAIN k = Fields /\ DOMAIN k.mp = {"list", "free"}
    BY <2>2 DEF KInv, Kernel, KType, Stocked, MpOK
  <2>5. PICK b : b = [k EXCEPT !.mp.free = @ + 1, !.mp.list = Cons(x, @)] /\ r = finish(b, "mp", None)
    BY <2>1 DEF rt_mp_free
  <2>6. SameBut(k, b, {"mp"}) /\ b.mp.free = k.mp.free + 1
    BY <2>4, <2>5 DEF SameBut, Fields
  <2>7. Keeps(b, r.k, {}) /\ DOMAIN b = Fields
    BY <2>5, <2>6, IpcFrames DEF SameBut
  <2>8. r.k.mp = b.mp
    BY <2>7 DEF Keeps, Outer
  <2>9. k' = r.k /\ Keeps(k, k', {"mp"})
    BY <1>0, <2>1, <2>2, <2>3, CallMild
  <2>10. Stock(k', "mp") = Stock(k, "mp") + 1
    BY <2>6, <2>8, <2>9 DEF Stock
  <2>11. ASSUME NEW w \in StockLists \ {"mp"} PROVE Stock(k', w) = Stock(k, w)
    BY <2>4, <2>9, <2>11, SameStock DEF StockLists
  <2> QED BY <1>0, <2>1, <2>2, <2>3, <2>5, <2>6, <2>10, <2>11, HandInforms
<1> QED BY <1>1, <1>2, <1>3

\* The counters are in range, and no mutex is taken.
Ranged(c) ==
  /\ c.lock \in 0 .. LockMax /\ c.sem \in Units0 /\ c.ev \subseteq Bits
  /\ \A x \in Mutexes : c.m[x].owner = None /\ c.m[x].hold = 0
Alert == Announced(k, th) /\ SemAwaits(k) /\ EvAwaits(k) /\ Ranged(k)

\* A step that leaves the counters alone.
LEMMA RangeKept ==
  ASSUME Safe, NEW F, Keeps(k, k', F), Ranged(k), "m" \notin F,
         "lock" \in F => k'.lock \in 0 .. LockMax, "sem" \in F => k'.sem \in Units0, "ev" \in F => k'.ev \subseteq Bits
  PROVE  Ranged(k')
<1>1. DOMAIN k = Fields
  BY DEF Safe, System, Base, KInv, Kernel, KType
<1>2. \A f \in Outer \ F : k'[f] = k[f]
  BY <1>1 DEF Keeps
<1>3. k'.m = k.m /\ (k'.lock = k.lock \/ "lock" \in F) /\ (k'.sem = k.sem \/ "sem" \in F) /\ (k'.ev = k.ev \/ "ev" \in F)
  BY <1>2 DEF Outer
<1> QED BY <1>3 DEF Ranged

\* The steps that do not concern the objects, or the scheduler lock only.
LEMMA DriftAwake ==
  ASSUME Safe, Safe', Stocked, Alert, Drifts({"lock"}, {}), k'.lock \in 0 .. LockMax
  PROVE  Alert'
<1>1. Keeps(k, k', {"lock"})
  BY DEF Drifts
<1>2. Ranged(k')
  BY <1>1, RangeKept DEF Alert
<1>3. Announced(k', th')
  BY DriftAnnounces DEF Alert, Store, StockLists
<1>4. SemAwaits(k') /\ EvAwaits(k')
  <2>1. "sem" \notin {"lock"} \cup {} /\ ({"ev"} \cup EvWait) \cap ({"lock"} \cup {}) = {}
    BY DEF EvWait
  <2> QED BY <2>1, DriftAwaits DEF Alert
<1> QED BY <1>2, <1>3, <1>4 DEF Alert

\* The steps that leave the lock alone too.
LEMMA QuietAwake ==
  ASSUME Safe, Safe', Stocked, Alert, Drifts({}, {})
  PROVE  Alert'
<1>1. Keeps(k, k', {}) /\ DOMAIN k = Fields
  BY DEF Drifts, Safe, System, Base, KInv, Kernel, KType
<1>2. k'.lock = k.lock
  BY <1>1 DEF Keeps, Outer
<1>3. Drifts({"lock"}, {})
  BY DriftsMore
<1> QED BY <1>2, <1>3, DriftAwake DEF Alert, Ranged

\* The steps on the semaphore.
LEMMA SemAwake ==
  ASSUME Safe, Safe', Stocked, Alert, SemDrift
  PROVE  Alert'
<1>1. Drifts({"sem"}, {"sem"}) /\ SemAwaits(k') /\ k'.sem \in Units0
  BY DEF SemDrift, Alert, Ranged
<1>2. Keeps(k, k', {"sem"})
  BY <1>1 DEF Drifts
<1>3. Ranged(k')
  BY <1>1, <1>2, RangeKept DEF Alert
<1>4. Announced(k', th')
  BY <1>1, DriftAnnounces DEF Alert, Store, StockLists
<1>5. EvAwaits(k')
  <2>1. ({"ev"} \cup EvWait) \cap ({"sem"} \cup {"sem"}) = {}
    BY DEF EvWait
  <2> QED BY <1>1, <2>1, DriftAwaits DEF Alert
<1> QED BY <1>1, <1>3, <1>4, <1>5 DEF Alert

\* The steps on the event object.
LEMMA EvAwake ==
  ASSUME Safe, Safe', Stocked, Alert, EvDrift
  PROVE  Alert'
<1>1. Drifts(EvWait, {"ev"}) /\ EvAwaits(k') /\ k'.ev \subseteq Bits
  BY DEF EvDrift, Alert, Ranged
<1>2. Keeps(k, k', EvWait)
  BY <1>1 DEF Drifts
<1>3. Ranged(k')
  BY <1>1, <1>2, RangeKept DEF Alert, EvWait
<1>4. Announced(k', th')
  BY <1>1, DriftAnnounces DEF Alert, Store, StockLists, EvWait
<1>5. SemAwaits(k')
  <2>1. "sem" \notin EvWait \cup {"ev"}
    BY DEF EvWait
  <2> QED BY <1>1, <2>1, DriftAwaits DEF Alert
<1> QED BY <1>1, <1>3, <1>4, <1>5 DEF Alert

\* The steps on the mailbox, the message queue and the memory pool.
LEMMA InformsAwake ==
  ASSUME Safe, Safe', Alert, Informs
  PROVE  Alert'
<1>1. Keeps(k, k', Store) /\ Announced(k', th') /\ SemAwaits(k') /\ EvAwaits(k')
  BY MildAwaits DEF Informs, Mild, Alert
<1>2. Ranged(k')
  BY <1>1, RangeKept DEF Alert, Store
<1> QED BY <1>1, <1>2 DEF Alert

\* Every step of a thread.
LEMMA ThreadAwake ==
  ASSUME Safe, Safe', Stocked, Alert, NEW t \in Threads, ThreadStep(t)
  PROVE  Alert'
<1>1. CASE Sched(t)
  BY <1>1, SchedDrifts, QuietAwake
<1>2. CASE \/ Yield(t) \/ Sleep(t) \/ SleepWoken(t) \/ SuspendSelf(t) \/ Resume(t)
           \/ Startup(t) \/ StartupCheck(t) \/ Unlink(t) \/ Insert(t) \/ Exit(t)
  BY <1>2, ThreadDrifts, QuietAwake
<1>3. CASE EnterCritical(t) \/ rt_exit_critical(t)
  BY <1>3, LockDrifts, LockAside, DriftAwake DEF Alert, Ranged
<1>4. CASE SemTake(t) \/ SemWoken(t) \/ SemRelease(t) \/ SemControl(t)
  BY <1>4, SemDrifts, SemAwake
<1>5. CASE EventSend(t) \/ EventRecv(t) \/ EventWoken(t) \/ EventControl(t)
  BY <1>5, EventDrifts, EvAwake
<1>6. CASE MbSend(t) \/ MbSendWoken(t) \/ MbUrgent(t) \/ MbRecv(t) \/ MbRecvWoken(t) \/ MbControl(t)
  BY <1>6, MailInforms, InformsAwake
<1>7. CASE \/ MqSend(t) \/ MqSendWoken(t) \/ MqUrgent(t) \/ MqRecv(t) \/ MqRecvWoken(t)
           \/ MqCopied(t) \/ MqControl(t)
  BY <1>7, MsgInforms, InformsAwake
<1>8. CASE MpAlloc(t) \/ MpWoken(t) \/ MpFree(t)
  BY <1>8, PoolInforms, InformsAwake
<1>9. CASE \/ Close(t) \/ CloseRemove(t) \/ Closed(t) \/ MutexTake(t) \/ MutexWoken(t) \/ MutexRelease(t) \/ SetCeiling(t)
  BY <1>9, LeftOut
<1> QED BY <1>1, <1>2, <1>3, <1>4, <1>5, <1>6, <1>7, <1>8, <1>9 DEF ThreadStep

\* Every step of the system.
LEMMA NextAwake ==
  ASSUME Safe, Safe', Stocked, Stocked', Alert, [Next]_vars
  PROVE  Alert'
<1>1. CASE \E t \in Threads : ThreadStep(t)
  BY <1>1, ThreadAwake
<1>2. CASE Reap
  BY <1>2, ReapDrifts, QuietAwake
<1>3. CASE Tick
  BY <1>3, TickDrifts, QuietAwake
<1>4. CASE IdleLoop \/ UNCHANGED vars
  BY <1>4 DEF IdleLoop, vars, Alert
<1>5. CASE Isr
  <2>1. CASE Handler("sem_release", rt_sem_release(k))
    BY <2>1, IsrSemDrifts, SemAwake
  <2>2. CASE \E set \in SUBSET Bits \ {{}} : Handler("event_send", rt_event_send(k, set))
    BY <2>2, IsrEventDrifts, EvAwake
  <2>3. CASE \E v \in Vals : Handler("mb_send", _rt_mb_send_wait(k, k.cur, v, 0))
    BY <2>3, IsrMailInforms, InformsAwake
  <2> QED BY <1>5, <2>1, <2>2, <2>3 DEF Isr
<1> QED BY <1>1, <1>2, <1>3, <1>4, <1>5 DEF Next

\* Nobody waits when the scheduler has been started.
LEMMA InitAwake ==
  ASSUME Init, Safe
  PROVE  Alert
<1>1. PICK c : c = FoldLeft(rt_thread_startup, Fresh(load), load.order)
  OBVIOUS
<1>2. load \in Loads /\ k = rt_system_scheduler_start(c) /\ th = [t \in Threads |-> Top]
  BY <1>1 DEF Init
<1>3. Keeps(Fresh(load), k, {})
  BY <1>1, <1>2, BootKeeps
<1>4. PICK b : b = Fresh(load)
  OBVIOUS
<1>5. DOMAIN b = Fields
  BY <1>4 DEF Fresh, Fields
<1>6. /\ k.lock = b.lock /\ k.sem = b.sem /\ k.ev = b.ev /\ k.evset = b.evset /\ k.evinfo = b.evinfo
      /\ k.m = b.m
  BY <1>3, <1>4, <1>5 DEF Keeps, Outer
<1>7. /\ b.lock = 0 /\ b.sem = 0 /\ b.ev = {} /\ DOMAIN b.evset = Threads /\ DOMAIN b.evinfo = Threads
      /\ \A x \in Mutexes : b.m[x].owner = None /\ b.m[x].hold = 0
  BY <1>4 DEF Fresh
<1>8. Ranged(k)
  BY <1>6, <1>7, IpcAssumption, ValsAssumption DEF Ranged, Units0
<1>9. KInv(k) /\ \A t \in Threads : Own(load, k, th[t], t) /\ th[t].at = "top"
  BY <1>2 DEF Safe, System, Base, Top
<1>10. ASSUME NEW w \in IpcLists PROVE k.wait[w] = << >> /\ \A t \in Threads : ~InList(t, k.wait[w])
  <2>1. w \in Lists \ {"defunct"}
    BY DEF IpcLists, Lists
  <2>2. \A t \in Threads : ~InList(t, k.wait[w])
    BY <1>9, <2>1 DEF Own
  <2>3. k.wait[w] \in Seq(Threads)
    BY <1>9, <2>1 DEF KInv, Kernel, KType
  <2> QED BY <2>2, <2>3, InListDef
<1>11. StockLists \subseteq IpcLists /\ "sem" \in IpcLists /\ "ev" \in IpcLists
  BY DEF StockLists, IpcLists, WaitLists
<1>12. Announced(k, th)
  BY <1>10, <1>11 DEF Announced, Claim
<1>13. SemAwaits(k)
  BY <1>10, <1>11 DEF SemAwaits
<1>14. EvAwaits(k)
  BY <1>6, <1>7, <1>10, <1>11 DEF EvAwaits
<1> QED BY <1>8, <1>12, <1>13, <1>14 DEF Alert

\* The inductive invariant of the wake-ups.
WakeInv == StockInv /\ (IpcLoad(load) => Alert)

\* It holds at first, and every step keeps it.
LEMMA WakeKept ==
  /\ Init => WakeInv
  /\ WakeInv /\ [Next]_vars => WakeInv'
<1>1. ASSUME Init PROVE WakeInv
  BY <1>1, StockKept, InitAwake DEF WakeInv, StockInv, RtInv
<1>2. ASSUME WakeInv, [Next]_vars PROVE WakeInv'
  <2>1. StockInv /\ StockInv' /\ load' = load
    BY <1>2, StockKept, LoadKept DEF WakeInv
  <2>2. ASSUME IpcLoad(load) PROVE Alert'
    <3>1. IpcLoad(load)'
      BY <2>1, <2>2 DEF IpcLoad
    <3>2. Safe /\ Stocked /\ Safe' /\ Stocked' /\ Alert
      BY <1>2, <2>1, <2>2, <3>1 DEF WakeInv, StockInv, RtInv
    <3> QED BY <1>2, <3>2, NextAwake
  <2> QED BY <2>1, <2>2 DEF WakeInv, IpcLoad
<1> QED BY <1>1, <1>2

\* What there is of what a waiting thread wants has been announced to a thread
\* that is about to take it, in every reachable state of a load of IpcLoad.
LEMMA AlwaysAwake == Spec => []WakeInv
BY WakeKept, PTL DEF Spec

\* No wake-up is lost, in every reachable state of a load of IpcLoad:
\* nobody sleeps on a unit, an event, a mail, a message, room or a block that
\* it could have (ipc.c, mempool.c).
THEOREM RtWakeups == Spec => [](IpcLoad(load) => NoLostWakeup)
<1>1. ASSUME Safe, Alert PROVE NoLostWakeup
  <2>1. k.sem > 0 => k.wait["sem"] = << >>
    BY <1>1 DEF Alert, SemAwaits
  <2>2. ASSUME NEW i \in DOMAIN k.wait["ev"]
        PROVE  ~Satisfied(k.ev, k.evset[k.wait["ev"][i]], k.evinfo[k.wait["ev"][i]])
    <3>1. k.wait["ev"] \in Seq(Threads)
      BY <1>1 DEF Safe, System, Base, KInv, Kernel, KType, Lists, WaitLists
    <3>2. PICK u : u = k.wait["ev"][i]
      OBVIOUS
    <3>3. u \in Threads /\ InList(u, k.wait["ev"])
      BY <2>2, <3>1, <3>2 DEF InList
    <3> QED BY <1>1, <3>2, <3>3 DEF Alert, EvAwaits, Wanting
  <2>3. ASSUME NEW w \in StockLists
        PROVE  k.wait[w] # << >> => Stock(k, w) <= Cardinality(Resumed(OpOf(w)))
    BY <1>1, <2>3 DEF Alert, Announced, Claim, Res, Resumed
  <2>4. /\ k.wait["mb_recv"] # << >> => k.mb.entry <= Cardinality(Resumed("mb_recv"))
        /\ k.wait["mb_send"] # << >> => MbSize - k.mb.entry <= Cardinality(Resumed("mb_send"))
        /\ k.wait["mq_recv"] # << >> => k.mq.entry <= Cardinality(Resumed("mq_recv"))
        /\ k.wait["mq_send"] # << >> => Chained(k.mq.free) <= Cardinality(Resumed("mq_send"))
        /\ k.wait["mp"] # << >> => k.mp.free <= Cardinality(Resumed("mp_alloc"))
    BY <2>3 DEF StockLists, Stock, OpOf, Chained
  <2>5. ASSUME NEW w \in {<<"mb_recv", k.mb.entry>>, <<"mb_send", MbSize - k.mb.entry>>,
                          <<"mq_recv", k.mq.entry>>, <<"mq_send", Chained(k.mq.free)>>}
        PROVE  k.wait[w[1]] # << >> => w[2] <= Cardinality(Resumed(w[1]))
    BY <2>4, <2>5
  <2> QED BY <2>1, <2>2, <2>4, <2>5 DEF NoLostWakeup
<1> QED BY <1>1, AlwaysAwake, PTL DEF WakeInv, StockInv, RtInv

\* Every field of the kernel state keeps its type, the offsets and counters of
\* the objects stay in range and no thread is in a list twice, in every
\* reachable state of a load of IpcLoad (scheduler_up.c, ipc.c).
THEOREM RtTypes == Spec => [](IpcLoad(load) => RtTypeOK)
<1>1. ASSUME Safe, Stocked, Alert PROVE RtTypeOK
  <2>1. KInv(k) /\ k.cur \in Threads
    BY <1>1 DEF Safe, System, Base
  <2>2. /\ k.group \subseteq Prios /\ k.yld \subseteq Threads
        /\ k.stat \in [Threads -> {"init", "ready", "running", "suspend", "close"}]
        /\ k.prio \in [Threads -> Prios] /\ k.err \in [Threads -> Errors] /\ k.slice \in [Threads -> 1 .. Slice]
        /\ DOMAIN k.wait = Lists
    BY <2>1 DEF KInv, Kernel, KType, Stats
  <2>3. ASSUME NEW S, NEW s, IsList(S, s) PROVE IsInjective(s)
    BY <2>3 DEF IsList, Distinct, IsInjective
  <2>4. (\A p \in Prios : IsInjective(k.ready[p])) /\ \A w \in DOMAIN k.wait : IsInjective(k.wait[w])
    BY <2>1, <2>2, <2>3 DEF KInv, Kernel, ReadyOK, WaitOK
  <2>5. /\ k.lock \in 0 .. LockMax /\ k.sem \in 0 .. SemMax /\ k.ev \subseteq Bits
        /\ \A x \in Mutexes : k.m[x].owner \in Threads \cup {None} /\ k.m[x].hold \in 0 .. HoldMax
    BY <1>1, HoldAssumption DEF Alert, Ranged, Units0
  <2>6. k.mb.in \in 0 .. MbSize - 1 /\ k.mb.out \in 0 .. MbSize - 1 /\ k.mb.entry \in 0 .. MbSize
    BY <1>1 DEF Stocked, MbOK
  <2>7. k.mq.entry \in 0 .. MqSize /\ {k.mq.head, k.mq.tail, k.mq.free} \subseteq 0 .. MqSize
    <3>1. PICK Q, R : SlotUse(k.mq, th, Q, R)
      BY <1>1 DEF Stocked, MqOK
    <3>2. /\ Path(k.mq.next, k.mq.head, Q) /\ Path(k.mq.next, k.mq.free, R) /\ k.mq.entry = Len(Q)
          /\ k.mq.tail = At(Q, Len(Q)) /\ IsList(Slots, Q)
      BY <3>1 DEF SlotUse, Path
    <3>3. Len(Q) \in Nat /\ Len(Q) <= MqSize /\ MqSize \in Nat
      BY <3>2, SlotCount
    <3>4. (k.mq.head = Null \/ k.mq.head \in Slots) /\ (k.mq.free = Null \/ k.mq.free \in Slots)
      BY <3>2, PathEmpty
    <3>5. k.mq.tail = Null \/ k.mq.tail \in Slots
      BY <3>2 DEF At, IsList
    <3> QED BY <3>2, <3>3, <3>4, <3>5 DEF Slots, Null
  <2> QED BY <2>1, <2>2, <2>4, <2>5, <2>6, <2>7 DEF RtTypeOK
<1> QED BY <1>1, AlwaysAwake, PTL DEF WakeInv, StockInv, RtInv
=============================================================================
