--------------------------- MODULE ContextSwitch ---------------------------
(***************************************************************************)
(* Threads of RT-Thread on one NPC core: the trap entry of trap.S, the     *)
(* event dispatch of cte.c and the switch of context.c, with the calls of  *)
(* the RT-Thread scheduler as their environment.  There are no interrupts  *)
(* on npc (iset does nothing): a thread runs until it calls a switch.      *)
(*                                                                         *)
(* An address is a stack and a slot in it; a slot holds a word, a Context  *)
(* or the arguments of a thread.  Stack 0 is the boot stack.  The boot     *)
(* code has run __am_cte_init, so mtvec is __am_asm_trap and the handler   *)
(* is ev_handler.                                                          *)
(***************************************************************************)
EXTENDS Naturals, Sequences, FiniteSets

CONSTANTS
  Threads,  \* the thread objects, numbers from 1
  Size,     \* slots of a stack
  Values    \* what a thread computes with

ASSUME ThreadsAssumption ==
  Threads \subseteq Nat \ {0} /\ Size \in Nat /\ Size >= 2 /\ Values \subseteq Nat

NULL == 0
Stacks == Threads \cup {0}

\* Words: values, code addresses and pointers into a stack.
Word(k, n, i) == [k |-> k, n |-> n, i |-> i]
Val(v) == Word("val", v, 0)
Code(label) == Word(label, 0, 0)
Body(t) == Word("body", t, 0)
Ptr(s, i) == Word("ptr", s, i)
NullPtr == Word("null", 0, 0)
Junk == Word("junk", 0, 0)
MinusOne == Word("minus1", 0, 0)

\* The registers that matter here.  s1 and t0 stand for all that a thread
\* computes with, one kept by calls and one not.
Saved == {"ra", "t0", "s0", "s1", "a0", "a5"}
Free == {"s1", "t0"}

VARIABLES
  pc, sp, x,      \* the core: program counter, stack pointer, registers
  mepc, mcause,
  memory,         \* memory[s][i]: slot i of stack s
  thread_sp,      \* the sp field of a thread, or NULL
  switch_from, switch_to,  \* the globals of context.c
  live            \* threads between creation and exit (RT-Thread)

vars == <<pc, sp, x, mepc, mcause, memory, thread_sp, switch_from, switch_to, live>>

\* The thread on whose stack the core runs.
self == sp.n
InBody == pc = Body(self)

-----------------------------------------------------------------------------
CtxInit ==
  /\ pc = Body(0) /\ sp = Ptr(0, Size)
  /\ x = [r \in Saved |-> Val(0)]
  /\ mepc = Code("none") /\ mcause = 0
  /\ memory = [s \in Stacks |-> [i \in 0 .. Size - 1 |-> Junk]]
  /\ thread_sp = [t \in Threads |-> NullPtr]
  /\ switch_from = NULL /\ switch_to = NULL /\ live = {}

\* Mutant: the Context overlaps the arguments.
kcontext_at_end(end) == end
\* kcontext: the address of the Context below kstack.end.
kcontext(end) == Ptr(end.n, end.i - 1)

FreshContext(args) ==
  [x |-> [r \in Saved |-> IF r = "s0" THEN args ELSE
                          IF r = "s1" THEN Code("thread_start") ELSE Val(0)],
   mcause |-> 0, mepc |-> Code("kcontext_start")]

\* rt_thread_create or rt_thread_init fill the stack and call this.
rt_hw_stack_init(t) ==
  LET args == Ptr(t, Size - 1)
      c == kcontext(args)
  IN /\ InBody /\ t \notin live /\ t # self
     /\ memory' = [memory EXCEPT ![t] =
          [i \in 0 .. Size - 1 |->
             IF i = c.i THEN FreshContext(args)
             ELSE IF i = args.i THEN [tentry |-> t, parameter |-> t] ELSE Junk]]
     /\ thread_sp' = [thread_sp EXCEPT ![t] = c]
     /\ live' = live \cup {t}
     /\ UNCHANGED <<pc, sp, x, mepc, mcause, switch_from, switch_to>>

\* Mutant: a5 is not set.
yield_no_a5 ==
  /\ x' = [x EXCEPT !["ra"] = pc]
  /\ pc' = Code("ecall")
\* yield, up to its ecall.
yield ==
  /\ x' = [x EXCEPT !["a5"] = MinusOne, !["ra"] = pc]
  /\ pc' = Code("ecall")

rt_hw_context_switch_to(to) ==
  /\ InBody /\ self = 0 /\ to \in live
  /\ switch_from' = NULL /\ switch_to' = to
  /\ yield /\ UNCHANGED <<sp, mepc, mcause, memory, thread_sp>>

rt_hw_context_switch(from, to) ==
  /\ InBody /\ self = from /\ to \in live \ {from}
  /\ switch_from' = from /\ switch_to' = to
  /\ yield /\ UNCHANGED <<sp, mepc, mcause, memory, thread_sp>>

-----------------------------------------------------------------------------
ecall ==
  /\ pc = Code("ecall")
  /\ mepc' = pc /\ mcause' = 11 /\ pc' = Code("__am_asm_trap")
  /\ UNCHANGED <<sp, x, memory, thread_sp, switch_from, switch_to, live>>

\* The first half of __am_asm_trap.  What it and the C code leave in the
\* registers is not used, but for a0.
__am_asm_trap ==
  LET c == Ptr(sp.n, sp.i - 1)
  IN /\ pc = Code("__am_asm_trap")
     /\ sp' = c
     /\ memory' = [memory EXCEPT ![c.n][c.i] = [x |-> x, mcause |-> mcause, mepc |-> mepc]]
     /\ x' = [r \in Saved |-> IF r = "a0" THEN c ELSE Junk]
     /\ pc' = Code("__am_irq_handle")
     /\ UNCHANGED <<mepc, mcause, thread_sp, switch_from, switch_to, live>>

\* c->mepc += 4.
Plus4(w) == IF w = Code("ecall") THEN Code("ret") ELSE Junk

Event(ctx) ==
  CASE ctx.mcause = 11 -> IF ctx.x["a5"] = MinusOne THEN "yield" ELSE "syscall"
    [] OTHER -> "error"

\* Mutant: the Context is copied where its address belongs.
ev_handler_copy(c) ==
  IF switch_from # NULL THEN [thread_sp EXCEPT ![switch_from] = memory[c.n][c.i]] ELSE thread_sp
\* ev_handler of EVENT_YIELD: the sp fields after it.
ev_handler(c) ==
  IF switch_from # NULL THEN [thread_sp EXCEPT ![switch_from] = c] ELSE thread_sp

__am_irq_handle ==
  LET c == x["a0"]
      ctx == memory[c.n][c.i]
      next == IF switch_to # NULL THEN ev_handler(c)[switch_to] ELSE c
  IN /\ pc = Code("__am_irq_handle")
     /\ IF Event(ctx) # "yield" \/ next = NullPtr
        THEN /\ pc' = Code("assert")
             /\ UNCHANGED <<x, memory, thread_sp, switch_from, switch_to>>
        ELSE /\ memory' = [memory EXCEPT ![c.n][c.i].mepc = Plus4(@)]
             /\ thread_sp' = ev_handler(c)
             /\ x' = [x EXCEPT !["a0"] = next]
             /\ switch_from' = NULL /\ switch_to' = NULL
             /\ pc' = Code("restore")
     /\ UNCHANGED <<sp, mepc, mcause, live>>

\* Mutant: t0 is not in the list of registers to load.
restore_no_t0 ==
  LET c == x["a0"]
      ctx == memory[c.n][c.i]
  IN /\ pc = Code("restore")
     /\ sp' = Ptr(c.n, c.i + 1) /\ x' = [ctx.x EXCEPT !["t0"] = x["t0"]]
     /\ mepc' = ctx.mepc /\ pc' = ctx.mepc
     /\ UNCHANGED <<mcause, memory, thread_sp, switch_from, switch_to, live>>
\* The second half of __am_asm_trap, and mret.
restore ==
  LET c == x["a0"]
      ctx == memory[c.n][c.i]
  IN /\ pc = Code("restore")
     /\ sp' = Ptr(c.n, c.i + 1) /\ x' = ctx.x /\ mepc' = ctx.mepc /\ pc' = ctx.mepc
     /\ UNCHANGED <<mcause, memory, thread_sp, switch_from, switch_to, live>>

ret ==
  /\ pc = Code("ret") /\ pc' = x["ra"]
  /\ UNCHANGED <<sp, x, mepc, mcause, memory, thread_sp, switch_from, switch_to, live>>

kcontext_start ==
  /\ pc = Code("kcontext_start")
  /\ x' = [x EXCEPT !["a0"] = x["s0"], !["ra"] = Code("none")]
  /\ pc' = x["s1"]
  /\ UNCHANGED <<sp, mepc, mcause, memory, thread_sp, switch_from, switch_to, live>>

thread_start ==
  LET args == memory[x["a0"].n][x["a0"].i]
  IN /\ pc = Code("thread_start")
     /\ x' = [x EXCEPT !["a0"] = Val(args.parameter), !["ra"] = Code("thread_start")]
     /\ pc' = Body(args.tentry)
     /\ UNCHANGED <<sp, mepc, mcause, memory, thread_sp, switch_from, switch_to, live>>

-----------------------------------------------------------------------------
\* What threads do by themselves: set, push and pop.  They leave room for a
\* Context on their stack.  Boot code only creates and starts threads.
Top == Size - 1
CanPush == InBody /\ self # 0 /\ sp.i > 1
CanPop == InBody /\ self # 0 /\ sp.i < Top

SetReg(r, v) ==
  /\ InBody /\ self # 0 /\ x' = [x EXCEPT ![r] = Val(v)]
  /\ UNCHANGED <<pc, sp, mepc, mcause, memory, thread_sp, switch_from, switch_to, live>>
Push(r) ==
  /\ CanPush /\ sp' = Ptr(sp.n, sp.i - 1)
  /\ memory' = [memory EXCEPT ![sp.n][sp.i - 1] = x[r]]
  /\ UNCHANGED <<pc, x, mepc, mcause, thread_sp, switch_from, switch_to, live>>
Pop(r) ==
  /\ CanPop /\ sp' = Ptr(sp.n, sp.i + 1)
  /\ x' = [x EXCEPT ![r] = memory[sp.n][sp.i]]
  /\ UNCHANGED <<pc, mepc, mcause, memory, thread_sp, switch_from, switch_to, live>>

\* The scheduler of RT-Thread: start, schedule, and the exit of a thread,
\* which thread_start calls when the entry returns.
Schedule ==
  /\ UNCHANGED live
  /\ \E to \in Threads :
       rt_hw_context_switch_to(to) \/ \E from \in live : rt_hw_context_switch(from, to)
Exit ==
  /\ self \in live /\ sp.i = Top
  /\ \E to \in Threads : rt_hw_context_switch(self, to)
  /\ live' = live \ {self}

CtxNext ==
  \/ \E t \in Threads : rt_hw_stack_init(t)
  \/ Schedule \/ Exit
  \/ ecall \/ __am_asm_trap \/ __am_irq_handle \/ restore \/ ret
  \/ kcontext_start \/ thread_start
  \/ \E r \in Free : (\E v \in Values : SetReg(r, v)) \/ Push(r) \/ Pop(r)

CtxSpec == CtxInit /\ [][CtxNext]_vars
-----------------------------------------------------------------------------
\* Who runs, as a thread sees it: the handler has decided before the registers
\* are loaded.
Running == IF pc = Code("restore") THEN x["a0"].n ELSE sp.n

(***************************************************************************)
(* The view of a thread on itself: registers and stack are in the core, or *)
(* in the Context at a given slot of its stack.                            *)
(***************************************************************************)
At(t, p) ==
  CASE p = Body(t) -> "body"
    [] p = Code("ecall") -> IF t \in live THEN "away" ELSE "gone"
    [] p = Code("ret") -> "back"
    [] p \in {Code("kcontext_start"), Code("thread_start")} -> "fresh"
    [] OTHER -> "lost"

View(t, p, regs, i) ==
  IF At(t, p) = "fresh" THEN [at |-> "fresh"]
  ELSE [at |-> At(t, p), arg |-> regs["a0"].n, x |-> [r \in Free |-> regs[r]],
        stack |-> [j \in 1 .. Top - i |-> memory[t][i + j - 1]]]

ViewOfContext(t, i) == View(t, memory[t][i].mepc, memory[t][i].x, i + 1)

ThreadView(t) ==
  IF t # Running
  THEN IF t \in live THEN ViewOfContext(t, thread_sp[t].i) ELSE [at |-> "dead"]
  ELSE CASE pc = Code("__am_asm_trap") -> View(t, mepc, x, sp.i)
         [] pc \in {Code("__am_irq_handle"), Code("restore")} -> ViewOfContext(t, x["a0"].i)
         [] OTHER -> View(t, pc, x, sp.i)

Co == INSTANCE Coroutines WITH
  Regs <- Free, Values <- {Val(v) : v \in Values}, MaxDepth <- Size,
  thread <- [t \in Stacks |-> ThreadView(t)], current <- Running, target <- switch_to

(***************************************************************************)
(* Saving a Context on the stack of a thread, finding it again through two *)
(* globals and a pointer in the thread, and loading it (trap.S lines       *)
(* 48-74, cte.c lines 7-23, context.c lines 14-29) look to every thread as *)
(* if it had the core for itself: registers, stack and the place after its *)
(* call survive any switches, creations and exits of others.               *)
(***************************************************************************)
ImplementsCoroutines == Co!CoSpec

Words == [k : {"val", "body", "ptr", "null", "junk", "minus1", "none", "ecall", "ret", "kcontext_start",
               "thread_start", "__am_asm_trap", "__am_irq_handle", "restore", "assert"},
          n : Stacks \cup Values, i : 0 .. Size]
Contexts == [x : [Saved -> Words], mcause : {0, 11}, mepc : Words]
Arguments == [tentry : Threads, parameter : Threads]

\* Every register, slot and global keeps its type.
CtxTypeOK ==
  /\ pc \in Words /\ sp \in Words /\ x \in [Saved -> Words]
  /\ mepc \in Words /\ mcause \in {0, 11}
  /\ memory \in [Stacks -> [0 .. Size - 1 -> Words \cup Contexts \cup Arguments]]
  /\ thread_sp \in [Threads -> Words]
  /\ switch_from \in Stacks /\ switch_to \in Stacks /\ live \subseteq Threads

(***************************************************************************)
(* A thread that does not run has a Context that can be resumed: on its    *)
(* own stack, below its arguments, after an ecall or at the start          *)
(* (context.c lines 17-22 and 58-69, cte.c lines 38-45).                   *)
(***************************************************************************)
Resumable(t) ==
  LET p == thread_sp[t]
  IN /\ p.k = "ptr" /\ p.n = t /\ p.i \in 0 .. Size - 2
     /\ memory[t][p.i] \in Contexts
     /\ memory[t][p.i].mepc \in {Code("ret"), Code("kcontext_start")}
WaitingResumable == \A t \in live \ {Running} : Resumable(t)

(***************************************************************************)
(* Only yields reach ev_handler, and it returns a Context: the assertions  *)
(* of context.c line 26 and cte.c line 19 hold.                            *)
(***************************************************************************)
NoAssertion == pc # Code("assert")
=============================================================================
