----------------------------- MODULE MCRtKernel ----------------------------
(***************************************************************************)
(* Loads for model checking RtKernel: three threads and the idle thread.   *)
(***************************************************************************)
EXTENDS RtProps

MCThreads == {"a", "b", "c", "idle"}

(* A load whose threads a, b, c have priorities p[1], p[2], p[3] and calls *)
(* o[1], o[2], o[3]                                                        *)
Load(p, o, isr, to) ==
  [order |-> <<"idle", "c", "b", "a">>,
   prio |-> [a |-> p[1], b |-> p[2], c |-> p[3], idle |-> MaxPrio],
   ops |-> [a |-> o[1], b |-> o[2], c |-> o[3], idle |-> {}],
   isr |-> isr, to |-> to, flag |-> "FIFO", ceils |-> {0, 1}, any |-> FALSE]

SemLoad ==
  [Load(<<0, 1, 1>>, <<{"sem_take", "suspend"}, {"sem_take", "sem_release"},
                       {"sem_take", "sem_release", "sem_control",
                        "resume"}>>,
        {"tick", "sem_release"}, {2, Forever}) EXCEPT !.flag = "PRIO"]
EventLoad ==
  Load(<<0, 1, 1>>, <<{"event_recv"}, {"event_recv"},
                      {"event_send", "event_control"}>>,
       {"event_send"}, {0, Forever})
MailLoad ==
  Load(<<1, 0, 1>>, <<{"mb_recv"}, {"mb_send", "sleep"}, {"mb_urgent"}>>,
       {"tick", "mb_send"}, {1})
MailResetLoad ==
  Load(<<0, 1, 1>>, <<{"mb_recv"}, {"mb_send"}, {"mb_urgent", "mb_control"}>>,
       {"tick", "mb_send"}, {1})
MsgLoad ==
  Load(<<1, 0, 1>>, <<{"mq_recv"}, {"mq_send", "sleep"},
                      {"mq_urgent", "mq_control"}>>,
       {"tick"}, {1})
PoolLoad ==
  Load(<<0, 1, 1>>, [i \in 1 .. 3 |-> {"mp_alloc", "mp_free"}],
       {"tick"}, {0, 2, Forever})
ThreadLoad ==
  [Load(<<0, 1, 1>>, <<{"sleep", "suspend", "resume", "startup"},
                       {"yield", "sleep", "suspend", "exit"},
                       {"yield", "suspend", "exit", "critical"}>>,
        {"tick"}, {2}) EXCEPT !.any = TRUE]
CloseLoad ==
  [Load(<<0, 1, 1>>, <<{"suspend", "startup", "close"},
                       {"yield", "suspend", "resume", "exit", "close"},
                       {"yield", "suspend", "startup", "close", "critical"}>>,
        {}, {}) EXCEPT !.any = TRUE]
MutexLoad ==
  Load(<<0, 1, 2>>,
       [i \in 1 .. 3 |-> {"mutex_take", "mutex_release", "suspend", "resume"}],
       {}, {0, Forever})
CeilLoad ==
  Load(<<0, 1, 2>>, <<{"mutex_take", "mutex_release", "suspend"},
                      {"mutex_take", "mutex_release"},
                      {"mutex_take", "mutex_release", "resume",
                       "set_ceiling"}>>,
       {}, {Forever})

MCLoads == {SemLoad, EventLoad, MailLoad, MailResetLoad, MsgLoad, PoolLoad,
            ThreadLoad, CloseLoad, MutexLoad, CeilLoad}

(* Three threads of one priority that do nothing but yield *)
MCYieldLoads == {Load(<<1, 1, 1>>, [i \in 1 .. 3 |-> {"yield"}], {}, {})}
=============================================================================
