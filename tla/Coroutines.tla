----------------------------- MODULE Coroutines -----------------------------
(***************************************************************************)
(* What a thread may rely on: it has registers and a stack of its own, one *)
(* thread runs at a time, and control moves only when the running thread   *)
(* asks for it.  A thread that is resumed goes on after its call, with     *)
(* everything as it left it.  A new thread starts at its own entry with    *)
(* its own parameter.  Thread 0 is the boot code.                          *)
(***************************************************************************)
EXTENDS Naturals, Sequences

CONSTANTS Threads, Values, Regs, MaxDepth

VARIABLES
  thread,   \* thread[t]: where it is, its registers and its stack
  current,  \* the running thread
  target    \* whom the running thread switches to, or 0

coVars == <<thread, current, target>>

Dead == [at |-> "dead"]
Fresh == [at |-> "fresh"]

CoInit ==
  /\ thread[0].at = "body" /\ thread[0].stack = << >>
  /\ \A t \in Threads : thread[t] = Dead
  /\ current = 0 /\ target = 0

me == thread[current]
Become(loc) == thread' = [thread EXCEPT ![current] = loc]
Still == UNCHANGED <<current, target>>

\* A new thread, or a dead one again.
Create(t) ==
  /\ me.at = "body" /\ thread[t] = Dead
  /\ thread' = [thread EXCEPT ![t] = Fresh] /\ Still

\* The first thing a new thread does.  Its registers hold anything.
Start ==
  /\ me = Fresh /\ Still
  /\ thread'[current].at = "body" /\ thread'[current].arg = current
  /\ thread'[current].stack = << >>
  /\ \A t \in (Threads \cup {0}) \ {current} : thread'[t] = thread[t]

\* A register is set, pushed or popped.
Work ==
  /\ me.at = "body" /\ Still
  /\ \E r \in Regs :
       \/ \E v \in Values : Become([me EXCEPT !.x[r] = v])
       \/ Len(me.stack) < MaxDepth /\ Become([me EXCEPT !.stack = <<me.x[r]>> \o @])
       \/ me.stack # << >> /\ Become([me EXCEPT !.stack = Tail(@), !.x[r] = Head(me.stack)])

\* The running thread names its successor, to come back or not.
Leave(to) ==
  /\ me.at = "body" /\ to # current /\ thread[to] # Dead
  /\ \E at \in {"away", "gone"} : Become([me EXCEPT !.at = at])
  /\ target' = to /\ UNCHANGED current

Switch ==
  /\ me.at \in {"away", "gone"}
  /\ Become(IF me.at = "gone" THEN Dead ELSE [me EXCEPT !.at = "back"])
  /\ current' = target /\ target' = 0

Resume == me.at = "back" /\ Become([me EXCEPT !.at = "body"]) /\ Still

CoNext == (\E t \in Threads : Create(t) \/ Leave(t)) \/ Start \/ Work \/ Switch \/ Resume

CoSpec == CoInit /\ [][CoNext]_coVars
=============================================================================
