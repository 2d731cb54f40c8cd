------------------------ MODULE ContextSwitchProofs ------------------------
(***************************************************************************)
(* For any number of threads, any size of their stacks and any values: a   *)
(* waiting thread can be resumed, no assertion of the handler fails, and   *)
(* the switch implements Coroutines.                                       *)
(***************************************************************************)
EXTENDS ContextSwitch, SequenceTheorems, TLAPS

\* The slots of a stack above i, below the arguments, hold words.
WordsAbove(t, i) == \A j \in i .. Size - 2 : memory[t][j] \in Words

\* A Context that can be loaded, at slot i of the stack of t.
Frame(t, i) ==
  /\ i \in 0 .. Size - 2
  /\ memory[t][i] \in Contexts
  /\ WordsAbove(t, i + 1)
  /\ \/ memory[t][i].mepc = Code("ret") /\ memory[t][i].x["ra"] = Body(t)
     \/ /\ memory[t][i].mepc = Code("kcontext_start") /\ i = Size - 2
        /\ memory[t][i].x["s0"] = Ptr(t, Size - 1)
        /\ memory[t][i].x["s1"] = Code("thread_start")

WaitingFrames ==
  \A t \in live \ {Running} : thread_sp[t] = Ptr(t, thread_sp[t].i) /\ Frame(t, thread_sp[t].i)

ArgumentsKept ==
  \A t \in live : memory[t][Size - 1] = [tentry |-> t, parameter |-> t]

\* The stack pointer while the thread itself runs.
StackOK ==
  IF self = 0 THEN sp.i = Size ELSE sp.i \in 1 .. Size - 1 /\ WordsAbove(self, sp.i)

Leaving ==
  /\ switch_to \in live \ {self}
  /\ switch_from = self

\* What __am_asm_trap has saved.
Trapped ==
  /\ IF self = 0 THEN sp.i = Size - 1 ELSE sp.i \in 0 .. Size - 2 /\ WordsAbove(self, sp.i + 1)
  /\ memory[self][sp.i] \in Contexts
  /\ memory[self][sp.i].mepc = Code("ecall")
  /\ memory[self][sp.i].mcause = 11
  /\ memory[self][sp.i].x["ra"] = Body(self)
  /\ memory[self][sp.i].x["a5"] = MinusOne

CoreOK ==
  /\ sp = Ptr(sp.n, sp.i) /\ sp.n \in Stacks
  /\ \/ pc = Body(self) /\ StackOK
     \/ /\ pc = Code("ecall") /\ StackOK /\ Leaving
        /\ x["ra"] = Body(self) /\ x["a5"] = MinusOne
     \/ /\ pc = Code("__am_asm_trap") /\ StackOK /\ Leaving
        /\ x["ra"] = Body(self) /\ x["a5"] = MinusOne
        /\ mepc = Code("ecall") /\ mcause = 11
     \/ pc = Code("__am_irq_handle") /\ Leaving /\ x["a0"] = sp /\ Trapped
     \/ /\ pc = Code("restore") /\ x["a0"] = Ptr(x["a0"].n, x["a0"].i)
        /\ x["a0"].n \in live /\ Frame(x["a0"].n, x["a0"].i)
     \/ pc = Code("ret") /\ StackOK /\ x["ra"] = Body(self)
     \/ /\ pc = Code("kcontext_start") /\ StackOK /\ self \in live /\ sp.i = Size - 1
        /\ x["s0"] = Ptr(self, Size - 1) /\ x["s1"] = Code("thread_start")
     \/ /\ pc = Code("thread_start") /\ StackOK /\ self \in live /\ sp.i = Size - 1
        /\ x["a0"] = Ptr(self, Size - 1)

CtxInv == CtxTypeOK /\ WaitingFrames /\ ArgumentsKept /\ CoreOK

-----------------------------------------------------------------------------
\* The words the code writes are words.
LEMMA WordTypes ==
  /\ \A t \in Stacks : Body(t) \in Words
  /\ \A t \in Stacks, i \in 0 .. Size : Ptr(t, i) \in Words
  /\ \A v \in Stacks \cup Values : Val(v) \in Words
  /\ \A l \in {"none", "ecall", "ret", "kcontext_start", "thread_start",
              "__am_asm_trap", "__am_irq_handle", "restore"} : Code(l) \in Words
  /\ Junk \in Words /\ NullPtr \in Words /\ MinusOne \in Words
  BY ThreadsAssumption
     DEF Words, Word, Body, Ptr, Val, Code, Junk, NullPtr, MinusOne, Stacks

\* The main thread before rt_system_scheduler_start satisfies the invariant.
LEMMA InitInv == CtxInit => CtxInv
<1> SUFFICES ASSUME CtxInit PROVE CtxInv
  OBVIOUS
<1> USE ThreadsAssumption, WordTypes
<1>1. CtxTypeOK
  BY DEF CtxInit, CtxTypeOK, NULL, Stacks
<1>2. WaitingFrames /\ ArgumentsKept
  BY DEF CtxInit, WaitingFrames, ArgumentsKept
<1>3. CoreOK
  BY DEF CtxInit, CoreOK, StackOK, WordsAbove, self, Ptr, Body, Word, Stacks
<1> QED BY <1>1, <1>2, <1>3 DEF CtxInv

\* Only the running thread's registers, code position and stack may change.
LEMMA WaitingUntouched ==
  ASSUME WaitingFrames, Running' = Running, live' \subseteq live,
         \A t \in live' \ {Running} : thread_sp'[t] = thread_sp[t] /\ memory'[t] = memory[t]
  PROVE  WaitingFrames'
  BY DEF WaitingFrames, Frame, WordsAbove

\* rt_hw_stack_init puts a fresh Context below the arguments of a thread not yet live.
LEMMA CreateInv ==
  ASSUME CtxInv, NEW t \in Threads, rt_hw_stack_init(t) PROVE CtxInv'
<1> USE ThreadsAssumption, WordTypes
<1> DEFINE args == Ptr(t, Size - 1)
           c == kcontext(args)
           stack == [i \in 0 .. Size - 1 |->
             IF i = c.i THEN FreshContext(args)
             ELSE IF i = args.i THEN [tentry |-> t, parameter |-> t] ELSE Junk]
<1>1. /\ args \in Words /\ c \in Words /\ args.i = Size - 1
      /\ c = Ptr(t, Size - 2) /\ c.i = Size - 2 /\ c.n = t /\ t \in Stacks
  BY DEF kcontext, Ptr, Word, Stacks
<1>2. FreshContext(args) \in Contexts
  BY <1>1 DEF FreshContext, Contexts, Saved, Stacks
<1>3. stack \in [0 .. Size - 1 -> Words \cup Contexts \cup Arguments]
  BY <1>2 DEF Arguments
<1>4. /\ stack[Size - 2] = FreshContext(args)
      /\ stack[Size - 1] = [tentry |-> t, parameter |-> t]
  BY <1>1
<1>5. /\ pc = Body(self) /\ t \notin live /\ t # self
      /\ memory' = [memory EXCEPT ![t] = stack]
      /\ thread_sp' = [thread_sp EXCEPT ![t] = c]
      /\ live' = live \cup {t}
      /\ UNCHANGED <<pc, sp, x, mepc, mcause, switch_from, switch_to>>
  BY DEF rt_hw_stack_init, InBody
<1> HIDE DEF args, c, stack
<1>6. CtxTypeOK'
  BY <1>1, <1>3, <1>5 DEF CtxTypeOK, CtxInv
<1>7. Running = self /\ Running' = self /\ self' = self
  BY <1>5 DEF Running, Body, Code, Word, self
<1>8. /\ memory'[t] = stack /\ thread_sp'[t] = c
      /\ \A s \in live : memory'[s] = memory[s] /\ thread_sp'[s] = thread_sp[s]
  BY <1>1, <1>5 DEF CtxTypeOK, CtxInv
<1>9. Frame(t, c.i)'
  <2>1. /\ FreshContext(args).mepc = Code("kcontext_start")
        /\ FreshContext(args).x["s0"] = Ptr(t, Size - 1)
        /\ FreshContext(args).x["s1"] = Code("thread_start")
    BY DEF FreshContext, Saved, args
  <2> QED BY <2>1, <1>1, <1>2, <1>4, <1>8 DEF Frame, WordsAbove
<1>10. WaitingFrames'
  <2> SUFFICES ASSUME NEW s \in live' \ {Running'}
               PROVE (thread_sp[s] = Ptr(s, thread_sp[s].i) /\ Frame(s, thread_sp[s].i))'
    BY DEF WaitingFrames
  <2>1. CASE s = t
    BY <2>1, <1>1, <1>8, <1>9
  <2>2. CASE s \in live
    BY <2>2, <1>7, <1>8 DEF CtxInv, WaitingFrames, Frame, WordsAbove
  <2> QED BY <2>1, <2>2, <1>5
<1>11. ArgumentsKept'
  BY <1>4, <1>5, <1>8 DEF CtxInv, ArgumentsKept
<1>12. CoreOK'
  <2>1. StackOK /\ sp = Ptr(sp.n, sp.i) /\ sp.n \in Stacks
    BY <1>5 DEF CtxInv, CoreOK, Body, Code, Word
  <2> QED BY <2>1, <1>5, <1>7 DEF CoreOK, StackOK, WordsAbove, self
<1> QED BY <1>6, <1>10, <1>11, <1>12 DEF CtxInv

\* A thread of the core is in its own code, with its stack pointer in range.
LEMMA InBodyFacts ==
  ASSUME CtxInv, pc = Body(self)
  PROVE  /\ StackOK /\ sp = Ptr(sp.n, sp.i) /\ sp.n \in Stacks
         /\ Running = self
  BY DEF CtxInv, CoreOK, Running, self, Body, Code, Word

\* Actions that leave memory, the sp fields and the threads alone.
LEMMA MemoryUntouched ==
  ASSUME CtxInv, UNCHANGED <<memory, thread_sp, live>>, Running' = Running,
         CtxTypeOK', CoreOK'
  PROVE  CtxInv'
<1>1. WaitingFrames'
  BY WaitingUntouched DEF CtxInv
<1>2. ArgumentsKept'
  BY DEF CtxInv, ArgumentsKept
<1> QED BY <1>1, <1>2 DEF CtxInv

\* A thread that computes in a register disturbs nothing outside the core.
LEMMA SetRegInv ==
  ASSUME CtxInv, NEW r \in Free, NEW v \in Values, SetReg(r, v) PROVE CtxInv'
<1>1. pc = Body(self) /\ pc' = pc /\ sp' = sp /\ self' = self
  BY DEF SetReg, InBody, self
<1>2. Running' = Running
  BY <1>1 DEF Running, self, Body, Code, Word
<1>3. CtxTypeOK'
  BY WordTypes DEF CtxInv, CtxTypeOK, SetReg, Free, Saved
<1>4. CoreOK'
  BY <1>1, InBodyFacts DEF CoreOK, StackOK, WordsAbove, SetReg
<1> QED BY <1>2, <1>3, <1>4, MemoryUntouched DEF SetReg

\* Popping a slot of its own stack gives the running thread a word.
LEMMA PopInv == ASSUME CtxInv, NEW r \in Free, Pop(r) PROVE CtxInv'
<1> USE ThreadsAssumption
<1>1. /\ pc = Body(self) /\ pc' = pc /\ self # 0 /\ sp.i < Size - 1
      /\ sp' = Ptr(sp.n, sp.i + 1)
  BY DEF Pop, CanPop, InBody, Top
<1>2. /\ sp.n \in Stacks /\ sp.i \in 1 .. Size - 1
      /\ WordsAbove(self, sp.i) /\ memory[sp.n][sp.i] \in Words
  BY <1>1, InBodyFacts DEF StackOK, WordsAbove, self
<1>3. self' = self /\ sp'.i = sp.i + 1 /\ sp'.n = sp.n
  BY <1>1 DEF self, Ptr, Word
<1>4. Running' = Running
  BY <1>1, <1>3 DEF Running, self, Body, Code, Word
<1>5. CtxTypeOK'
  BY <1>1, <1>2, WordTypes DEF CtxInv, CtxTypeOK, Pop, Free, Saved
<1>6. CoreOK'
  BY <1>1, <1>2, <1>3 DEF CoreOK, StackOK, WordsAbove, self, Pop
<1> QED BY <1>4, <1>5, <1>6, MemoryUntouched DEF Pop

\* The trap is taken with the stack pointer where the Context will go.
LEMMA EcallInv == ASSUME CtxInv, ecall PROVE CtxInv'
<1>1. Running' = Running /\ self' = self
  BY DEF ecall, Running, self, Code, Word
<1>2. CtxTypeOK'
  BY WordTypes DEF CtxInv, CtxTypeOK, ecall
<1>3. /\ StackOK /\ Leaving /\ x["ra"] = Body(self) /\ x["a5"] = MinusOne
      /\ sp = Ptr(sp.n, sp.i) /\ sp.n \in Stacks
  BY DEF CtxInv, CoreOK, ecall, Code, Body, Word
<1>4. CoreOK'
  BY <1>1, <1>3 DEF ecall, CoreOK, StackOK, WordsAbove, Leaving
<1> QED BY <1>1, <1>2, <1>4, MemoryUntouched DEF ecall

\* Returning from rt_hw_context_switch brings the thread back to its body.
LEMMA RetInv == ASSUME CtxInv, ret PROVE CtxInv'
<1>1. StackOK /\ x["ra"] = Body(self) /\ sp = Ptr(sp.n, sp.i) /\ sp.n \in Stacks
  BY DEF CtxInv, CoreOK, ret, Code, Body, Word
<1>2. pc' = Body(self) /\ self' = self
  BY <1>1 DEF ret, self
<1>3. Running' = Running
  BY <1>2 DEF ret, Running, self, Body, Code, Word
<1>4. CtxTypeOK'
  BY <1>1, <1>2, WordTypes DEF CtxInv, CtxTypeOK, ret, self
<1>5. CoreOK'
  BY <1>1, <1>2 DEF ret, CoreOK, StackOK, WordsAbove
<1> QED BY <1>3, <1>4, <1>5, MemoryUntouched DEF ret

\* The first instructions of a fresh thread move its argument into place.
LEMMA KcontextStartInv == ASSUME CtxInv, kcontext_start PROVE CtxInv'
<1> USE ThreadsAssumption
<1>1. /\ StackOK /\ self \in live /\ sp = Ptr(sp.n, sp.i) /\ sp.n \in Stacks
      /\ sp.i = Size - 1
      /\ x["s0"] = Ptr(self, Size - 1) /\ x["s1"] = Code("thread_start")
  BY DEF CtxInv, CoreOK, kcontext_start, Code, Body, Word
<1>2. /\ pc' = Code("thread_start") /\ self' = self /\ x'["a0"] = Ptr(self, Size - 1)
  BY <1>1 DEF kcontext_start, self, CtxInv, CtxTypeOK, Saved
<1>3. Running' = Running
  BY <1>2 DEF kcontext_start, Running, self, Code, Word
<1>4. CtxTypeOK'
  BY <1>1, <1>2, WordTypes DEF CtxInv, CtxTypeOK, kcontext_start, Saved
<1>5. CoreOK'
  BY <1>1, <1>2 DEF kcontext_start, CoreOK, StackOK, WordsAbove
<1> QED BY <1>3, <1>4, <1>5, MemoryUntouched DEF kcontext_start

\* The entry wrapper of context.c reads arguments nobody has overwritten.
LEMMA ThreadStartInv == ASSUME CtxInv, thread_start PROVE CtxInv'
<1> USE ThreadsAssumption
<1>1. /\ StackOK /\ self \in live /\ sp = Ptr(sp.n, sp.i) /\ sp.n \in Stacks
      /\ x["a0"] = Ptr(self, Size - 1)
  BY DEF CtxInv, CoreOK, thread_start, Code, Body, Word
<1>2. memory[x["a0"].n][x["a0"].i] = [tentry |-> self, parameter |-> self]
  BY <1>1 DEF CtxInv, ArgumentsKept, Ptr, Word
<1>3. /\ pc' = Body(self) /\ self' = self
      /\ x' = [x EXCEPT !["a0"] = Val(self), !["ra"] = Code("thread_start")]
  BY <1>2 DEF thread_start, self
<1>4. Running' = Running
  BY <1>3 DEF thread_start, Running, self, Body, Code, Word
<1>5. CtxTypeOK'
  <2>1. /\ Val(self) \in Words /\ Body(self) \in Words /\ Code("thread_start") \in Words
    BY <1>1, WordTypes DEF self
  <2>2. x' \in [Saved -> Words]
    BY <2>1, <1>3 DEF CtxInv, CtxTypeOK
  <2>3. UNCHANGED <<sp, mepc, mcause, memory, thread_sp, switch_from, switch_to, live>>
    BY DEF thread_start
  <2> QED BY <2>1, <2>2, <2>3, <1>3 DEF CtxInv, CtxTypeOK
<1>6. CoreOK'
  BY <1>1, <1>3 DEF thread_start, CoreOK, StackOK, WordsAbove
<1> QED BY <1>4, <1>5, <1>6, MemoryUntouched DEF thread_start

\* mret from a Context on the stack of the thread the handler chose.
LEMMA RestoreInv == ASSUME CtxInv, restore PROVE CtxInv'
<1> USE ThreadsAssumption
<1> DEFINE c == x["a0"]
           ctx == memory[c.n][c.i]
<1>1. c.n \in live /\ Frame(c.n, c.i)
  BY DEF CtxInv, CoreOK, restore, Code, Body, Word
<1>2. /\ sp' = Ptr(c.n, c.i + 1) /\ x' = ctx.x /\ mepc' = ctx.mepc /\ pc' = ctx.mepc
      /\ pc = Code("restore")
  BY DEF restore
<1>3. /\ ctx \in Contexts /\ c.i \in 0 .. Size - 2 /\ c.n \in Stacks /\ c.n # 0
      /\ \/ ctx.mepc = Code("ret") /\ ctx.x["ra"] = Body(c.n)
         \/ /\ ctx.mepc = Code("kcontext_start") /\ c.i = Size - 2
            /\ ctx.x["s0"] = Ptr(c.n, Size - 1) /\ ctx.x["s1"] = Code("thread_start")
      /\ WordsAbove(c.n, c.i + 1)
  BY <1>1 DEF Frame, CtxInv, CtxTypeOK, Stacks
<1> HIDE DEF c, ctx
<1>4. self' = c.n /\ sp'.n = c.n /\ sp'.i = c.i + 1
  BY <1>2 DEF self, Ptr, Word
<1>5. Running' = Running
  <2>1. Running = c.n
    BY <1>2 DEF Running, c
  <2>2. pc' # Code("restore")
    BY <1>2, <1>3 DEF Code, Word
  <2> QED BY <2>1, <2>2, <1>4 DEF Running
<1>6. CtxTypeOK'
  <2>1. ctx.x \in [Saved -> Words] /\ ctx.mepc \in Words
    BY <1>3 DEF Contexts
  <2>2. Ptr(c.n, c.i + 1) \in Words
    BY <1>3, WordTypes
  <2> QED BY <2>1, <2>2, <1>2 DEF CtxInv, CtxTypeOK, restore
<1>7. CoreOK'
  <2>1. StackOK' /\ sp' = Ptr(sp'.n, sp'.i) /\ sp'.n \in Stacks
    BY <1>2, <1>3, <1>4 DEF StackOK, WordsAbove, restore
  <2>2. self' \in live'
    BY <1>1, <1>4 DEF restore, c
  <2> QED BY <2>1, <2>2, <1>2, <1>3, <1>4 DEF CoreOK
<1> QED BY <1>5, <1>6, <1>7, MemoryUntouched DEF restore

\* Actions that write one slot of the running thread's stack, below the
\* arguments of the thread.
LEMMA OwnSlotWritten ==
  ASSUME CtxInv, Running = self, Running' = self, UNCHANGED <<thread_sp, live>>,
         NEW STATE i, i \in 0 .. Size - 1, self = 0 \/ i # Size - 1,
         NEW STATE w, memory' = [memory EXCEPT ![self][i] = w],
         CtxTypeOK', CoreOK'
  PROVE  CtxInv'
<1> USE ThreadsAssumption
<1>1. \A t \in live \ {self} : memory'[t] = memory[t]
  BY DEF CtxInv, CtxTypeOK, Stacks
<1>2. WaitingFrames'
  BY <1>1, WaitingUntouched DEF CtxInv
<1>3. \A t \in live : memory'[t][Size - 1] = memory[t][Size - 1]
  BY <1>1 DEF CtxInv, CtxTypeOK, Stacks
<1>4. ArgumentsKept'
  BY <1>3 DEF CtxInv, ArgumentsKept
<1> QED BY <1>2, <1>4 DEF CtxInv

\* Pushing a word keeps the arguments and every waiting frame.
LEMMA PushInv == ASSUME CtxInv, NEW r \in Free, Push(r) PROVE CtxInv'
<1> USE ThreadsAssumption
<1> DEFINE i == sp.i - 1
<1>1. /\ pc = Body(self) /\ pc' = pc /\ self # 0 /\ sp.i > 1
      /\ sp' = Ptr(self, i) /\ memory' = [memory EXCEPT ![self][i] = x[r]]
      /\ UNCHANGED <<x, mepc, mcause, thread_sp, switch_from, switch_to, live>>
  BY DEF Push, CanPush, InBody, self
<1>2. /\ self \in Stacks /\ sp.i \in 1 .. Size - 1 /\ Running = self
      /\ WordsAbove(self, sp.i) /\ x[r] \in Words
  BY <1>1, InBodyFacts DEF StackOK, CtxInv, CtxTypeOK, Free, Saved, self
<1>3. i \in 0 .. Size - 2 /\ i \in 1 .. Size - 1 /\ i + 1 = sp.i
  BY <1>1, <1>2
<1> HIDE DEF i
<1>4. self' = self /\ sp'.i = i /\ sp'.n = self
  BY <1>1 DEF self, Ptr, Word
<1>5. Running' = self
  BY <1>1, <1>4 DEF Running, self, Body, Code, Word
<1>6. CtxTypeOK'
  <2>1. Ptr(self, i) \in Words
    BY <1>2, <1>3, WordTypes
  <2>2. memory' \in [Stacks -> [0 .. Size - 1 -> Words \cup Contexts \cup Arguments]]
    BY <1>1, <1>2, <1>3 DEF CtxInv, CtxTypeOK
  <2> QED BY <2>1, <2>2, <1>1 DEF CtxInv, CtxTypeOK
<1>7. \A j \in i .. Size - 2 : memory'[self][j] \in Words
  <2>1. \A j \in 0 .. Size - 1 : memory'[self][j] = IF j = i THEN x[r] ELSE memory[self][j]
    BY <1>1, <1>2 DEF CtxInv, CtxTypeOK
  <2> QED BY <2>1, <1>2, <1>3, <1>4 DEF WordsAbove
<1>8. CoreOK'
  <2>1. StackOK'
    BY <1>1, <1>3, <1>4, <1>7 DEF StackOK, WordsAbove
  <2> QED BY <2>1, <1>1, <1>2, <1>4 DEF CoreOK
<1>9. i \in 0 .. Size - 1 /\ i # Size - 1
  BY <1>3
<1> QED BY <1>1, <1>2, <1>5, <1>6, <1>8, <1>9, OwnSlotWritten

\* The trap entry saves all registers in a Context on the stack it found.
LEMMA TrapInv == ASSUME CtxInv, __am_asm_trap PROVE CtxInv'
<1> USE ThreadsAssumption
<1> DEFINE i == sp.i - 1
           ctx == [x |-> x, mcause |-> mcause, mepc |-> mepc]
<1>1. /\ StackOK /\ Leaving /\ x["ra"] = Body(self) /\ x["a5"] = MinusOne
      /\ mepc = Code("ecall") /\ mcause = 11 /\ self \in Stacks
  BY DEF CtxInv, CoreOK, __am_asm_trap, Code, Body, Word, self
<1>2. /\ sp' = Ptr(self, i) /\ x' = [r \in Saved |-> IF r = "a0" THEN Ptr(self, i) ELSE Junk]
      /\ pc = Code("__am_asm_trap") /\ pc' = Code("__am_irq_handle")
      /\ memory' = [memory EXCEPT ![self][i] = ctx]
      /\ UNCHANGED <<mepc, mcause, thread_sp, switch_from, switch_to, live>>
  BY DEF __am_asm_trap, Ptr, Word, self
<1>3. ctx \in Contexts
  BY DEF Contexts, CtxInv, CtxTypeOK
<1>4. /\ ctx.mepc = Code("ecall") /\ ctx.mcause = 11
      /\ ctx.x["ra"] = Body(self) /\ ctx.x["a5"] = MinusOne
  BY <1>1
<1>5. /\ IF self = 0 THEN i = Size - 1 ELSE i \in 0 .. Size - 2 /\ WordsAbove(self, i + 1)
      /\ i \in 0 .. Size - 1
  BY <1>1 DEF StackOK
<1> HIDE DEF i, ctx
<1>6. self' = self /\ sp'.i = i /\ sp'.n = self /\ x'["a0"] = sp'
  BY <1>2 DEF self, Ptr, Word, Saved
<1>7. Running = self /\ Running' = self
  BY <1>2, <1>6 DEF Running, self, Code, Word
<1>8. CtxTypeOK'
  <2>1. Ptr(self, i) \in Words
    BY <1>1, <1>5, WordTypes
  <2>2. memory' \in [Stacks -> [0 .. Size - 1 -> Words \cup Contexts \cup Arguments]]
    BY <1>1, <1>2, <1>3, <1>5 DEF CtxInv, CtxTypeOK
  <2> QED BY <2>1, <2>2, <1>2, WordTypes DEF CtxInv, CtxTypeOK
<1>9. Trapped'
  <2>1. \A j \in 0 .. Size - 1 : memory'[self][j] = IF j = i THEN ctx ELSE memory[self][j]
    BY <1>1, <1>2 DEF CtxInv, CtxTypeOK
  <2>2. self # 0 => \A j \in i + 1 .. Size - 2 : memory'[self][j] \in Words
    BY <2>1, <1>5 DEF WordsAbove
  <2>3. self # 0 => WordsAbove(self, sp.i + 1)'
    BY <2>2, <1>6 DEF WordsAbove
  <2>4. memory'[self'][sp'.i] = ctx
    BY <2>1, <1>5, <1>6
  <2> QED BY <2>3, <2>4, <1>3, <1>4, <1>5, <1>6 DEF Trapped
<1>10. CoreOK'
  BY <1>1, <1>2, <1>6, <1>9 DEF CoreOK, Leaving
<1>11. self = 0 \/ i # Size - 1
  BY <1>5
<1> QED BY <1>2, <1>5, <1>7, <1>8, <1>10, <1>11, OwnSlotWritten

\* The three ways to leave a thread.
LEMMA LeaveInv ==
  ASSUME CtxInv, pc = Body(self), yield, live' \subseteq live,
         switch_from' = self, switch_to' \in live' \ {self},
         UNCHANGED <<sp, mepc, mcause, memory, thread_sp>>
  PROVE  CtxInv'
<1> USE ThreadsAssumption
<1>1. /\ StackOK /\ sp = Ptr(sp.n, sp.i) /\ sp.n \in Stacks /\ Running = self /\ self' = self
  BY InBodyFacts DEF self
<1>2. /\ pc' = Code("ecall") /\ x' = [x EXCEPT !["a5"] = MinusOne, !["ra"] = Body(self)]
      /\ x'["a5"] = MinusOne /\ x'["ra"] = Body(self)
  BY DEF yield, CtxInv, CtxTypeOK, Saved
<1>3. Running' = self
  BY <1>1, <1>2 DEF Running, Code, Word, self
<1>4. CtxTypeOK'
  <2>1. MinusOne \in Words /\ Body(self) \in Words /\ Code("ecall") \in Words
    BY <1>1, WordTypes DEF self
  <2>2. self \in Stacks /\ live' \subseteq Threads /\ switch_to' \in Stacks
    BY <1>1 DEF CtxInv, CtxTypeOK, Stacks, self
  <2> QED BY <2>1, <2>2, <1>2 DEF CtxInv, CtxTypeOK, Saved
<1>5. WaitingFrames'
  BY <1>1, <1>3, WaitingUntouched DEF CtxInv
<1>6. ArgumentsKept'
  BY DEF CtxInv, ArgumentsKept
<1>7. CoreOK'
  BY <1>1, <1>2 DEF CoreOK, StackOK, WordsAbove, Leaving
<1> QED BY <1>4, <1>5, <1>6, <1>7 DEF CtxInv

\* A thread that yields is waiting in its own call.
LEMMA ScheduleInv == ASSUME CtxInv, Schedule PROVE CtxInv'
<1> USE ThreadsAssumption
<1>1. PICK to \in Threads :
        rt_hw_context_switch_to(to) \/ \E from \in live : rt_hw_context_switch(from, to)
  BY DEF Schedule
<1>2. CASE rt_hw_context_switch_to(to)
  <2>1. switch_from' = self /\ switch_to' \in live \ {self} /\ pc = Body(self)
    BY <1>2 DEF rt_hw_context_switch_to, NULL, InBody, CtxInv, CtxTypeOK
  <2> QED BY <1>2, <2>1, LeaveInv DEF rt_hw_context_switch_to, Schedule
<1>3. ASSUME NEW from \in live, rt_hw_context_switch(from, to) PROVE CtxInv'
  <2>1. switch_from' = self /\ switch_to' \in live \ {self} /\ pc = Body(self)
    BY <1>3 DEF rt_hw_context_switch, InBody
  <2> QED BY <1>3, <2>1, LeaveInv DEF rt_hw_context_switch, Schedule
<1> QED BY <1>1, <1>2, <1>3

\* A thread that ends is never scheduled again.
LEMMA ExitInv == ASSUME CtxInv, Exit PROVE CtxInv'
<1>1. PICK to \in Threads : rt_hw_context_switch(self, to)
  BY DEF Exit
<1>2. /\ live' = live \ {self} /\ pc = Body(self) /\ yield
      /\ switch_from' = self /\ switch_to' \in live' \ {self}
      /\ UNCHANGED <<sp, mepc, mcause, memory, thread_sp>>
  BY <1>1 DEF Exit, rt_hw_context_switch, InBody
<1> QED BY <1>2, LeaveInv

\* What a pass through the handler does: the Context of the thread that left
\* is complete, and the core is about to load that of its successor.
Handled ==
  LET to == switch_to
      ctx == memory[self][sp.i]
      new == [ctx EXCEPT !.mepc = Code("ret")]
  IN /\ pc = Code("__am_irq_handle") /\ Trapped /\ sp = Ptr(sp.n, sp.i) /\ sp.n \in Stacks
     /\ to \in live /\ to # self /\ self \in Stacks /\ to \in Threads
     /\ ctx.mepc = Code("ecall") /\ Running = self
     /\ thread_sp[to] = Ptr(to, thread_sp[to].i) /\ Frame(to, thread_sp[to].i)
     /\ thread_sp' \in [Threads -> Words]
     /\ self \in live => thread_sp'[self] = sp
     /\ \A t \in Threads \ {self} : thread_sp'[t] = thread_sp[t]
     /\ switch_from' = NULL /\ switch_to' = NULL /\ pc' = Code("restore")
     /\ UNCHANGED <<sp, mepc, mcause, live>>
     /\ new \in Contexts /\ new.mepc = Code("ret") /\ new.x["ra"] = Body(self) /\ new.x = ctx.x
     /\ memory' = [memory EXCEPT ![self][sp.i] = new]
     /\ sp.i \in 0 .. Size - 1
     /\ self # 0 => sp.i \in 0 .. Size - 2 /\ WordsAbove(self, sp.i + 1)
     /\ self' = self /\ x'["a0"] = thread_sp[to] /\ x' \in [Saved -> Words]
     /\ Running' = to
     /\ \A t \in Stacks \ {self} : memory'[t] = memory[t]
     /\ \A j \in 0 .. Size - 1 : memory'[self][j] = IF j = sp.i THEN new ELSE memory[self][j]

(***************************************************************************)
(* The handler: the thread that left becomes a waiting one, and the one    *)
(* that is switched to was waiting.                                        *)
(***************************************************************************)
LEMMA HandleFacts == ASSUME CtxInv, __am_irq_handle PROVE Handled
<1> USE ThreadsAssumption
<1> DEFINE c == x["a0"]
           ctx == memory[c.n][c.i]
           next == IF switch_to # NULL THEN ev_handler(c)[switch_to] ELSE c
           to == switch_to
<1>1. /\ pc = Code("__am_irq_handle") /\ Leaving /\ c = sp /\ Trapped
      /\ sp = Ptr(sp.n, sp.i) /\ sp.n \in Stacks
  BY DEF CtxInv, CoreOK, __am_irq_handle, Code, Body, Word
<1>2. /\ to \in live /\ to # self /\ to # NULL /\ switch_from = self /\ self \in Stacks
      /\ to \in Threads
  BY <1>1 DEF Leaving, NULL, CtxInv, CtxTypeOK, self
<1>3. /\ ctx \in Contexts /\ ctx = memory[self][sp.i] /\ ctx.mcause = 11
      /\ ctx.x["a5"] = MinusOne /\ ctx.mepc = Code("ecall") /\ ctx.x["ra"] = Body(self)
  BY <1>1 DEF Trapped, self
<1>4. Event(ctx) = "yield"
  BY <1>3 DEF Event
<1>5. Running = self
  BY <1>1 DEF Running, self, Code, Word
<1>6. thread_sp[to] = Ptr(to, thread_sp[to].i) /\ Frame(to, thread_sp[to].i)
  BY <1>2, <1>5 DEF CtxInv, WaitingFrames
<1>7. /\ ev_handler(c) \in [Threads -> Words] /\ ev_handler(c)[to] = thread_sp[to]
      /\ self \in live => ev_handler(c)[self] = sp
      /\ \A t \in Threads \ {self} : ev_handler(c)[t] = thread_sp[t]
  <2>1. c \in Words /\ thread_sp \in [Threads -> Words] /\ live \subseteq Threads
    BY <1>1 DEF CtxInv, CtxTypeOK
  <2>2. CASE self = 0
    BY <2>1, <2>2, <1>2 DEF ev_handler, NULL
  <2>3. CASE self # 0
    <3>1. self \in Threads /\ ev_handler(c) = [thread_sp EXCEPT ![self] = sp]
      BY <2>3, <1>1, <1>2 DEF ev_handler, NULL, Stacks
    <3> QED BY <3>1, <2>1, <1>1, <1>2
  <2> QED BY <2>2, <2>3
<1>8. next = thread_sp[to] /\ next # NullPtr
  BY <1>2, <1>6, <1>7 DEF Ptr, NullPtr, Word
<1>9. /\ memory' = [memory EXCEPT ![c.n][c.i].mepc = Plus4(@)]
      /\ thread_sp' = ev_handler(c) /\ x' = [x EXCEPT !["a0"] = next]
      /\ switch_from' = NULL /\ switch_to' = NULL /\ pc' = Code("restore")
      /\ UNCHANGED <<sp, mepc, mcause, live>>
  BY <1>4, <1>8 DEF __am_irq_handle
<1> DEFINE new == [ctx EXCEPT !.mepc = Code("ret")]
<1>10. /\ new \in Contexts /\ new.mepc = Code("ret") /\ new.x["ra"] = Body(self)
  <2>1. Code("ret") \in Words
    BY WordTypes
  <2> QED BY <2>1, <1>3 DEF Contexts
<1>11. memory' = [memory EXCEPT ![self][sp.i] = new]
  BY <1>1, <1>3, <1>9 DEF Plus4, self
<1>12. /\ sp.i \in 0 .. Size - 1
       /\ self # 0 => sp.i \in 0 .. Size - 2 /\ WordsAbove(self, sp.i + 1)
  <2>1. CASE self = 0
    BY <2>1, <1>1 DEF Trapped
  <2>2. CASE self # 0
    BY <2>2, <1>1 DEF Trapped
  <2> QED BY <2>1, <2>2
<1>13. /\ self' = self /\ x'["a0"] = thread_sp[to] /\ x' \in [Saved -> Words]
  BY <1>2, <1>8, <1>9 DEF self, CtxInv, CtxTypeOK, Saved
<1>14. Running' = to
  BY <1>6, <1>9, <1>13 DEF Running, Ptr, Word
<1> HIDE DEF c, ctx, next, new
<1>15. /\ \A t \in Stacks \ {self} : memory'[t] = memory[t]
       /\ \A j \in 0 .. Size - 1 : memory'[self][j] = IF j = sp.i THEN new ELSE memory[self][j]
  BY <1>2, <1>11, <1>12 DEF CtxInv, CtxTypeOK, Stacks
<1>16. new = [memory[self][sp.i] EXCEPT !.mepc = Code("ret")] /\ new.x = memory[self][sp.i].x
       /\ memory[self][sp.i].mepc = Code("ecall")
  BY <1>3 DEF new, ctx, Contexts
<1>17. /\ thread_sp' \in [Threads -> Words] /\ (self \in live => thread_sp'[self] = sp)
       /\ \A t \in Threads \ {self} : thread_sp'[t] = thread_sp[t]
  BY <1>7, <1>9
<1> QED
  BY <1>1, <1>2, <1>5, <1>6, <1>9, <1>10, <1>11, <1>12, <1>13, <1>14, <1>15, <1>16, <1>17
     DEF Handled

\* ev_handler stores the Context of the old thread and returns that of the new one.
LEMMA HandleInv == ASSUME CtxInv, __am_irq_handle PROVE CtxInv'
<1> USE ThreadsAssumption
<1> DEFINE to == switch_to
           new == [memory[self][sp.i] EXCEPT !.mepc = Code("ret")]
<1>1. /\ pc = Code("__am_irq_handle") /\ sp = Ptr(sp.n, sp.i) /\ sp.n \in Stacks
      /\ pc' = Code("restore") /\ switch_from' = NULL /\ switch_to' = NULL
      /\ UNCHANGED <<sp, mepc, mcause, live>>
  BY HandleFacts DEF Handled
<1>2. to \in live /\ to # self /\ self \in Stacks /\ to \in Threads
  BY HandleFacts DEF Handled
<1>5. Running = self
  BY HandleFacts DEF Handled
<1>6. thread_sp[to] = Ptr(to, thread_sp[to].i) /\ Frame(to, thread_sp[to].i)
  BY HandleFacts DEF Handled
<1>7. /\ thread_sp' \in [Threads -> Words] /\ (self \in live => thread_sp'[self] = sp)
      /\ \A t \in Threads \ {self} : thread_sp'[t] = thread_sp[t]
  BY HandleFacts DEF Handled
<1>10. new \in Contexts /\ new.mepc = Code("ret") /\ new.x["ra"] = Body(self)
  BY HandleFacts DEF Handled
<1>11. memory' = [memory EXCEPT ![self][sp.i] = new]
  BY HandleFacts DEF Handled
<1>12. /\ sp.i \in 0 .. Size - 1
       /\ self # 0 => sp.i \in 0 .. Size - 2 /\ WordsAbove(self, sp.i + 1)
  BY HandleFacts DEF Handled
<1>13. self' = self /\ x'["a0"] = thread_sp[to] /\ x' \in [Saved -> Words]
  BY HandleFacts DEF Handled
<1>14. Running' = to
  BY HandleFacts DEF Handled
<1>15. /\ \A t \in Stacks \ {self} : memory'[t] = memory[t]
       /\ \A j \in 0 .. Size - 1 : memory'[self][j] = IF j = sp.i THEN new ELSE memory[self][j]
       /\ live \subseteq Stacks
  BY HandleFacts DEF Handled, CtxInv, CtxTypeOK, Stacks
<1> HIDE DEF new
<1>16. CtxTypeOK'
  <2>1. memory' \in [Stacks -> [0 .. Size - 1 -> Words \cup Contexts \cup Arguments]]
    BY <1>2, <1>10, <1>11, <1>12 DEF CtxInv, CtxTypeOK
  <2> QED BY <2>1, <1>7, <1>1, <1>13, WordTypes DEF CtxInv, CtxTypeOK, NULL, Stacks
<1>17. WaitingFrames'
  <2> SUFFICES ASSUME NEW t \in live \ {to}
               PROVE (thread_sp[t] = Ptr(t, thread_sp[t].i) /\ Frame(t, thread_sp[t].i))'
    BY <1>1, <1>14 DEF WaitingFrames
  <2>1. CASE t # self
    <3>1. thread_sp[t] = Ptr(t, thread_sp[t].i) /\ Frame(t, thread_sp[t].i)
      BY <2>1, <1>5 DEF CtxInv, WaitingFrames
    <3>2. thread_sp'[t] = thread_sp[t] /\ memory'[t] = memory[t]
      BY <2>1, <1>7, <1>1, <1>15 DEF CtxInv, CtxTypeOK
    <3> QED BY <3>1, <3>2 DEF Frame, WordsAbove
  <2>2. CASE t = self
    <3>1. /\ thread_sp'[t] = sp /\ t # 0 /\ sp.n = t
      BY <2>2, <1>7, <1>1 DEF CtxInv, CtxTypeOK, self
    <3>2. sp.i \in 0 .. Size - 2 /\ WordsAbove(t, sp.i + 1)
      BY <2>2, <3>1, <1>12
    <3>3. /\ memory'[t][sp.i] = new
          /\ \A j \in sp.i + 1 .. Size - 2 : memory'[t][j] \in Words
      BY <2>2, <3>2, <1>15 DEF WordsAbove
    <3> QED BY <2>2, <3>1, <3>2, <3>3, <1>1, <1>10 DEF Frame, WordsAbove
  <2> QED BY <2>1, <2>2
<1>18. ArgumentsKept'
  <2>1. \A t \in live : t # 0 /\ memory'[t][Size - 1] = memory[t][Size - 1]
    <3> SUFFICES ASSUME NEW t \in live
                 PROVE t # 0 /\ memory'[t][Size - 1] = memory[t][Size - 1]
      OBVIOUS
    <3>1. t # 0
      BY DEF CtxInv, CtxTypeOK
    <3>2. CASE t = self
      BY <3>1, <3>2, <1>12, <1>15
    <3>3. CASE t # self
      BY <3>1, <3>3, <1>15
    <3> QED BY <3>1, <3>2, <3>3
  <2> QED BY <2>1, <1>1 DEF CtxInv, ArgumentsKept
<1>19. CoreOK'
  <2>1. Frame(to, thread_sp[to].i) /\ memory'[to] = memory[to]
    BY <1>2, <1>6, <1>15
  <2>2. x'["a0"] = Ptr(to, thread_sp[to].i) /\ x'["a0"].n = to /\ x'["a0"].i = thread_sp[to].i
    BY <1>6, <1>13 DEF Ptr, Word
  <2>3. Frame(x["a0"].n, x["a0"].i)'
    BY <2>1, <2>2 DEF Frame, WordsAbove
  <2> QED BY <2>2, <2>3, <1>1, <1>2, <1>1 DEF CoreOK
<1> QED BY <1>16, <1>17, <1>18, <1>19 DEF CtxInv

\* Every step keeps CtxInv.
LEMMA NextInv == CtxInv /\ [CtxNext]_vars => CtxInv'
<1> SUFFICES ASSUME CtxInv, [CtxNext]_vars PROVE CtxInv'
  OBVIOUS
<1>1. CASE UNCHANGED vars
  BY <1>1 DEF vars, CtxInv, CtxTypeOK, WaitingFrames, Frame, WordsAbove, Running, ArgumentsKept,
              CoreOK, StackOK, Leaving, Trapped, self
<1>2. CASE CtxNext
  BY <1>2, CreateInv, ScheduleInv, ExitInv, EcallInv, TrapInv, HandleInv, RestoreInv, RetInv,
     KcontextStartInv, ThreadStartInv, SetRegInv, PushInv, PopInv DEF CtxNext
<1> QED BY <1>1, <1>2

(***************************************************************************)
(* Every thread that waits can be resumed, whatever threads are created,   *)
(* switched and ended, and for any number of threads and any stack size:   *)
(* its sp field leads to a Context on its own stack (context.c lines       *)
(* 14-29, trap.S lines 48-74).                                             *)
(***************************************************************************)
THEOREM ThreadsResumable == CtxSpec => []WaitingResumable
<1>1. CtxInv => WaitingResumable
  <2> SUFFICES ASSUME CtxInv, NEW t \in live \ {Running} PROVE Resumable(t)
    BY DEF WaitingResumable
  <2>1. thread_sp[t] = Ptr(t, thread_sp[t].i) /\ Frame(t, thread_sp[t].i)
    BY DEF CtxInv, WaitingFrames
  <2>2. thread_sp[t].k = "ptr" /\ thread_sp[t].n = t
    BY <2>1 DEF Ptr, Word
  <2> QED BY <2>1, <2>2 DEF Resumable, Frame
<1> QED BY <1>1, InitInv, NextInv, PTL DEF CtxSpec

(***************************************************************************)
(* ev_handler sees nothing but yields and returns a Context, so neither    *)
(* its assertion (context.c line 26) nor the one of __am_irq_handle (cte.c *)
(* line 19) fails.                                                         *)
(***************************************************************************)
THEOREM HandlerNeverAsserts == CtxSpec => []NoAssertion
<1>1. CtxInv => NoAssertion
  BY DEF CtxInv, CoreOK, NoAssertion, Code, Body, Word
<1> QED BY <1>1, InitInv, NextInv, PTL DEF CtxSpec

(***************************************************************************)
(* Registers, slots and globals keep their types: trap.S writes a Context  *)
(* only where one fits and never over the arguments of a thread.           *)
(***************************************************************************)
THEOREM ContextTypes == CtxSpec => []CtxTypeOK
<1>1. CtxInv => CtxTypeOK
  BY DEF CtxInv
<1> QED BY <1>1, InitInv, NextInv, PTL DEF CtxSpec

-----------------------------------------------------------------------------
(***************************************************************************)
(* The refinement: every step of the core is one step of Coroutines or     *)
(* none, seen through the views of the threads on themselves.              *)
(***************************************************************************)

\* The slots of a stack above i as a sequence, topmost first.
StackOf(slots, i) == [j \in 1 .. Top - i |-> slots[i + j - 1]]

\* What a thread that is not fresh sees: its place, argument, registers and stack.
Full(loc, regs, slots, i) ==
  [at |-> loc, arg |-> regs["a0"].n, x |-> [r \in Free |-> regs[r]],
   stack |-> StackOf(slots, i)]

\* The view depends on the registers a thread computes with, and its argument.
LEMMA FullEqual ==
  ASSUME NEW loc, NEW regs, NEW regs2, NEW slots, NEW i,
         regs["a0"] = regs2["a0"], \A r \in Free : regs[r] = regs2[r]
  PROVE  Full(loc, regs, slots, i) = Full(loc, regs2, slots, i)
  BY DEF Full

\* A change of place.
LEMMA FullAt ==
  ASSUME NEW loc, NEW loc2, NEW regs, NEW slots, NEW i
  PROVE  /\ Full(loc, regs, slots, i).at = loc
         /\ [Full(loc, regs, slots, i) EXCEPT !.at = loc2] = Full(loc2, regs, slots, i)
<1> DEFINE b == [r \in Free |-> regs[r]]
           d == StackOf(slots, i)
<1>1. \A l : Full(l, regs, slots, i) = [at |-> l, arg |-> regs["a0"].n, x |-> b, stack |-> d]
  BY DEF Full
<1> HIDE DEF b, d
<1> QED BY <1>1

\* Where a thread is, by its program counter.
LEMMA AtValues ==
  ASSUME NEW t
  PROVE  /\ At(t, Body(t)) = "body" /\ At(t, Code("ret")) = "back"
         /\ At(t, Code("ecall")) = IF t \in live THEN "away" ELSE "gone"
         /\ At(t, Code("kcontext_start")) = "fresh" /\ At(t, Code("thread_start")) = "fresh"
  BY DEF At, Body, Code, Word

\* The views that occur, by program counter.
LEMMA Views ==
  ASSUME NEW t, NEW regs, NEW i
  PROVE  /\ View(t, Body(t), regs, i) = Full("body", regs, memory[t], i)
         /\ View(t, Code("ret"), regs, i) = Full("back", regs, memory[t], i)
         /\ View(t, Code("ecall"), regs, i)
              = Full(IF t \in live THEN "away" ELSE "gone", regs, memory[t], i)
         /\ View(t, Code("kcontext_start"), regs, i) = [at |-> "fresh"]
         /\ View(t, Code("thread_start"), regs, i) = [at |-> "fresh"]
  BY AtValues DEF View, Full, StackOf

\* The view of the running thread, by what the core is doing.
RunningViews ==
  /\ Running \in Stacks
  /\ pc # Code("restore") => Running = self
  /\ pc = Body(self) => ThreadView(self) = Full("body", x, memory[self], sp.i)
  /\ pc = Code("ret") => ThreadView(self) = Full("back", x, memory[self], sp.i)
  /\ pc = Code("ecall") =>
       ThreadView(self) = Full(IF self \in live THEN "away" ELSE "gone", x, memory[self], sp.i)
  /\ pc \in {Code("kcontext_start"), Code("thread_start")} =>
       ThreadView(self) = [at |-> "fresh"]
  /\ pc = Code("__am_asm_trap") =>
       ThreadView(self) = Full(IF self \in live THEN "away" ELSE "gone", x, memory[self], sp.i)
  /\ pc = Code("__am_irq_handle") => ThreadView(self) = ViewOfContext(self, sp.i)
  /\ pc = Code("restore") => ThreadView(Running) = ViewOfContext(Running, x["a0"].i)

\* What the mapping shows of the running thread, per code position.
LEMMA RunningView == CtxInv => RunningViews
<1> SUFFICES ASSUME CtxInv PROVE RunningViews
  OBVIOUS
<1>1. /\ sp.n \in Stacks /\ sp = Ptr(sp.n, sp.i) /\ live \subseteq Stacks
      /\ pc = Code("restore") => x["a0"].n \in live
      /\ pc = Code("__am_irq_handle") => x["a0"] = sp
      /\ pc = Code("__am_asm_trap") => mepc = Code("ecall")
  BY DEF CtxInv, CoreOK, CtxTypeOK, Stacks, Code, Body, Word
<1>2. Running \in Stacks /\ (pc # Code("restore") => Running = self)
  BY <1>1 DEF Running, self
<1>3. CASE pc = Body(self)
  <2>1. ThreadView(self) = View(self, pc, x, sp.i)
    BY <1>2, <1>3 DEF ThreadView, Body, Code, Word
  <2> QED BY <1>2, <1>3, <2>1, Views DEF RunningViews, Body, Code, Word
<1>4. CASE pc \in {Code("ret"), Code("ecall"), Code("kcontext_start"), Code("thread_start")}
  <2>1. ThreadView(self) = View(self, pc, x, sp.i)
    BY <1>2, <1>4 DEF ThreadView, Code, Word
  <2>2. /\ pc # Body(self)
        /\ pc \notin {Code("__am_asm_trap"), Code("__am_irq_handle"), Code("restore")}
    BY <1>4 DEF Body, Code, Word
  <2>3. /\ pc = Code("ret") => ThreadView(self) = Full("back", x, memory[self], sp.i)
        /\ pc = Code("ecall") =>
             ThreadView(self) = Full(IF self \in live THEN "away" ELSE "gone", x, memory[self], sp.i)
        /\ pc \in {Code("kcontext_start"), Code("thread_start")} =>
             ThreadView(self) = [at |-> "fresh"]
    BY <2>1, Views
  <2> QED BY <1>2, <2>2, <2>3 DEF RunningViews
<1>5. CASE pc = Code("__am_asm_trap")
  <2>1. ThreadView(self) = View(self, Code("ecall"), x, sp.i)
    BY <1>1, <1>2, <1>5 DEF ThreadView, Code, Word
  <2> QED BY <1>2, <1>5, <2>1, Views DEF RunningViews, Body, Code, Word
<1>6. CASE pc = Code("__am_irq_handle")
  <2>1. ThreadView(self) = ViewOfContext(self, sp.i)
    BY <1>1, <1>2, <1>6 DEF ThreadView, Code, Word
  <2> QED BY <1>2, <1>6, <2>1 DEF RunningViews, Body, Code, Word
<1>7. CASE pc = Code("restore")
  <2>1. ThreadView(Running) = ViewOfContext(Running, x["a0"].i)
    BY <1>1, <1>2, <1>7 DEF ThreadView, Code, Word
  <2> QED BY <1>2, <1>7, <2>1 DEF RunningViews, Body, Code, Word
<1>8. \/ pc = Body(self)
      \/ pc \in {Code("ret"), Code("ecall"), Code("kcontext_start"), Code("thread_start")}
      \/ pc \in {Code("__am_asm_trap"), Code("__am_irq_handle"), Code("restore")}
  BY DEF CtxInv, CoreOK
<1> QED
  BY <1>3, <1>4, <1>5, <1>6, <1>7, <1>8

\* The same of the next state.
LEMMA RunningViewNext == ASSUME CtxInv' PROVE RunningViews'
  BY RunningView, PTL

\* A thread that does not run sees nothing of a step that keeps its stack.
LEMMA OthersKept ==
  ASSUME NEW t \in Stacks, t # Running, t # Running', memory'[t] = memory[t],
         t \in live' <=> t \in live, t \in live => thread_sp'[t] = thread_sp[t]
  PROVE  ThreadView(t)' = ThreadView(t)
<1>1. CASE t \in live
  BY <1>1 DEF ThreadView, ViewOfContext, View, At
<1>2. CASE t \notin live
  BY <1>2 DEF ThreadView
<1> QED BY <1>1, <1>2

\* A waiting thread that lives is not dead, and a dead one is.
LEMMA WaitingView ==
  ASSUME CtxInv, NEW t \in Stacks, t # Running
  PROVE  /\ t \in live => ThreadView(t).at \in {"back", "fresh"}
         /\ t \notin live => ThreadView(t) = [at |-> "dead"]
<1>1. ASSUME t \in live PROVE ThreadView(t).at \in {"back", "fresh"}
  <2>1. Frame(t, thread_sp[t].i) /\ ThreadView(t) = ViewOfContext(t, thread_sp[t].i)
    BY <1>1 DEF CtxInv, WaitingFrames, ThreadView
  <2> DEFINE ctx == memory[t][thread_sp[t].i]
  <2>2. ctx.mepc = Code("ret") \/ ctx.mepc = Code("kcontext_start")
    BY <2>1 DEF Frame
  <2>3. ThreadView(t) = View(t, ctx.mepc, ctx.x, thread_sp[t].i + 1)
    BY <2>1 DEF ViewOfContext
  <2> HIDE DEF ctx
  <2> QED BY <2>2, <2>3, Views, FullAt
<1> QED BY <1>1 DEF ThreadView

\* The step of a thread that goes on running.
LEMMA Becomes ==
  ASSUME CtxInv, Running' = Running,
         \A t \in Stacks \ {Running} : ThreadView(t)' = ThreadView(t),
         NEW loc, ThreadView(Running)' = loc
  PROVE  Co!Become(loc)
<1>1. Running \in Stacks
  BY RunningView DEF RunningViews
<1> QED BY <1>1 DEF Co!Become

\* The views of the others, when only the running thread's stack changes.
LEMMA OnlySelf ==
  ASSUME CtxInv, Running' = Running,
         \A t \in Stacks \ {Running} : memory'[t] = memory[t],
         UNCHANGED thread_sp, live' = live \/ live' = live \ {Running}
  PROVE  \A t \in Stacks \ {Running} : ThreadView(t)' = ThreadView(t)
  BY OthersKept

\* A new thread appears, fresh; nobody else notices.
LEMMA CreateCo ==
  ASSUME CtxInv, CtxInv', NEW t \in Threads, rt_hw_stack_init(t)
  PROVE  Co!Create(t)
<1> USE ThreadsAssumption
<1> DEFINE args == Ptr(t, Size - 1)
           c == kcontext(args)
           stack == [i \in 0 .. Size - 1 |->
             IF i = c.i THEN FreshContext(args)
             ELSE IF i = args.i THEN [tentry |-> t, parameter |-> t] ELSE Junk]
<1>1. /\ pc = Body(self) /\ t \notin live /\ t # self
      /\ memory' = [memory EXCEPT ![t] = stack]
      /\ thread_sp' = [thread_sp EXCEPT ![t] = c]
      /\ live' = live \cup {t}
      /\ UNCHANGED <<pc, sp, x, mepc, mcause, switch_from, switch_to>>
  BY DEF rt_hw_stack_init, InBody
<1>2. /\ args.i = Size - 1 /\ c = Ptr(t, Size - 2) /\ c.i = Size - 2 /\ t \in Stacks
      /\ stack[Size - 2] = FreshContext(args)
  BY DEF kcontext, Ptr, Word, Stacks
<1>3. FreshContext(args).mepc = Code("kcontext_start")
  BY DEF FreshContext
<1> HIDE DEF args, c, stack
<1>4. /\ memory \in [Stacks -> [0 .. Size - 1 -> Words \cup Contexts \cup Arguments]]
      /\ thread_sp \in [Threads -> Words] /\ live \subseteq Threads
  BY DEF CtxInv, CtxTypeOK
<1>5. self \in Stacks /\ Running = self /\ Running' = self /\ self' = self
  BY <1>1, InBodyFacts DEF Running, self, Body, Code, Word
<1>6. ThreadView(t) = [at |-> "dead"]
  BY <1>1, <1>2, <1>5, WaitingView
<1>7. ThreadView(t)' = [at |-> "fresh"]
  <2>1. thread_sp'[t].i = Size - 2 /\ memory'[t][Size - 2].mepc = Code("kcontext_start")
    BY <1>1, <1>2, <1>3, <1>4
  <2>2. ThreadView(t)' = ViewOfContext(t, Size - 2)'
    BY <1>1, <1>5, <2>1 DEF ThreadView
  <2>3. At(t, Code("kcontext_start"))' = "fresh"
    BY DEF At, Body, Code, Word
  <2>4. ViewOfContext(t, Size - 2)' = [at |-> "fresh"]
    BY <2>1, <2>3 DEF ViewOfContext, View
  <2> QED BY <2>2, <2>4
<1>8. ASSUME NEW s \in Stacks, s # t PROVE ThreadView(s)' = ThreadView(s)
  <2>1. memory'[s] = memory[s] /\ (s \in live' <=> s \in live)
        /\ (s \in live => thread_sp'[s] = thread_sp[s])
    BY <1>1, <1>4, <1>8
  <2>2. CASE s = self
    <3>1. ThreadView(self) = Full("body", x, memory[self], sp.i)
      BY <1>1, RunningView DEF RunningViews
    <3>2. ThreadView(self)' = Full("body", x, memory[self], sp.i)'
      BY <1>1, <1>5, RunningViewNext DEF RunningViews
    <3> QED BY <1>1, <1>5, <2>1, <2>2, <3>1, <3>2
  <2>3. CASE s # self
    BY <1>5, <2>1, <2>3, OthersKept
  <2> QED BY <2>2, <2>3
<1>9. ThreadView(self).at = "body"
  BY <1>1, RunningView DEF RunningViews, Full
<1> QED
  BY <1>1, <1>2, <1>5, <1>6, <1>7, <1>8, <1>9 DEF Co!Create, Co!me, Co!Dead, Co!Fresh, Co!Still

\* The running thread leaves: it keeps its registers and its stack.
LEMMA LeaveCo ==
  ASSUME CtxInv, CtxInv', pc = Body(self), yield, live' = live \/ live' = live \ {self},
         NEW to \in live \ {self}, switch_to' = to,
         UNCHANGED <<sp, mepc, mcause, memory, thread_sp>>
  PROVE  Co!Leave(to)
<1>1. /\ self \in Stacks /\ Running = self /\ self' = self
      /\ pc' = Code("ecall") /\ x' = [x EXCEPT !["a5"] = MinusOne, !["ra"] = pc]
  BY InBodyFacts DEF self, yield
<1>2. Running' = Running
  BY <1>1 DEF Running, Code, Word, self
<1>3. x'["a0"] = x["a0"] /\ \A r \in Free : x'[r] = x[r]
  BY <1>1 DEF CtxInv, CtxTypeOK, Saved, Free
<1>4. \A t \in Stacks \ {Running} : ThreadView(t)' = ThreadView(t)
  BY <1>1, <1>2, OnlySelf
<1> DEFINE loc == IF self \in live' THEN "away" ELSE "gone"
<1>5. ThreadView(self) = Full("body", x, memory[self], sp.i)
  BY RunningView DEF RunningViews
<1>6. ThreadView(self)' = Full(IF self \in live THEN "away" ELSE "gone", x, memory[self], sp.i)'
  BY <1>1, RunningViewNext DEF RunningViews
<1>7. ThreadView(self)' = [ThreadView(self) EXCEPT !.at = loc]
  <2>1. ThreadView(self)' = Full(loc, x', memory[self], sp.i)
    BY <1>1, <1>6
  <2>2. Full(loc, x', memory[self], sp.i) = Full(loc, x, memory[self], sp.i)
    BY <1>3, FullEqual
  <2> QED BY <1>5, <2>1, <2>2, FullAt
<1>8. ThreadView(Running)' = [ThreadView(self) EXCEPT !.at = loc]
  BY <1>1, <1>2, <1>7
<1> HIDE DEF loc
<1>9. Co!Become([ThreadView(self) EXCEPT !.at = loc])
  BY <1>2, <1>4, <1>8, Becomes
<1>10. to \in Stacks /\ ThreadView(to).at \in {"back", "fresh"}
  BY <1>1, WaitingView DEF CtxInv, CtxTypeOK, Stacks
<1>11. Co!me = ThreadView(self) /\ ThreadView(self).at = "body"
  BY <1>1, <1>5 DEF Co!me, Full
<1>12. loc \in {"away", "gone"}
  BY DEF loc
<1> QED
  BY <1>1, <1>2, <1>9, <1>10, <1>11, <1>12 DEF Co!Leave, Co!Dead

\* That is a sequence.
LEMMA StackSeq ==
  ASSUME NEW S, NEW slots \in [0 .. Size - 1 -> S], NEW i \in 0 .. Size - 1
  PROVE  /\ StackOf(slots, i) \in Seq(S)
         /\ Len(StackOf(slots, i)) = Top - i
         /\ \A j \in 1 .. Top - i : StackOf(slots, i)[j] = slots[i + j - 1]
<1> USE ThreadsAssumption
<1>1. Top - i \in Nat /\ StackOf(slots, i) \in [1 .. Top - i -> S]
  BY DEF StackOf, Top
<1>2. StackOf(slots, i) \in Seq(S)
  BY <1>1, SeqDef
<1>3. DOMAIN StackOf(slots, i) = 1 .. Top - i
  BY <1>1
<1>4. Len(StackOf(slots, i)) = Top - i
  BY <1>1, <1>2, <1>3, LenProperties
<1> QED BY <1>2, <1>4 DEF StackOf

\* Pushing a word.
LEMMA StackPush ==
  ASSUME NEW S, NEW slots \in [0 .. Size - 1 -> S], NEW slots2 \in [0 .. Size - 1 -> S],
         NEW i \in 1 .. Size - 1, NEW v, slots2[i - 1] = v,
         \A j \in i .. Size - 1 : slots2[j] = slots[j]
  PROVE  StackOf(slots2, i - 1) = <<v>> \o StackOf(slots, i)
<1> USE ThreadsAssumption
<1> DEFINE s == StackOf(slots, i)
           s2 == StackOf(slots2, i - 1)
<1>1. /\ s \in Seq(S) /\ Len(s) = Top - i
      /\ \A j \in 1 .. Top - i : s[j] = slots[i + j - 1]
  BY StackSeq
<1>2. /\ s2 \in Seq(S) /\ Len(s2) = Top - i + 1
      /\ \A j \in 1 .. Top - i + 1 : s2[j] = slots2[i + j - 2]
  <2> DEFINE k == i - 1
  <2>1. k \in 0 .. Size - 1 /\ s2 = StackOf(slots2, k)
    OBVIOUS
  <2> HIDE DEF k, s2
  <2>2. slots2 \in [0 .. Size - 1 -> S]
    OBVIOUS
  <2>3. /\ StackOf(slots2, k) \in Seq(S) /\ Len(StackOf(slots2, k)) = Top - k
        /\ \A j \in 1 .. Top - k : StackOf(slots2, k)[j] = slots2[k + j - 1]
    BY ONLY <2>1, <2>2, StackSeq
  <2>4. /\ s2 \in Seq(S) /\ Len(s2) = Top - k
        /\ \A j \in 1 .. Top - k : s2[j] = slots2[k + j - 1]
    BY <2>1, <2>3
  <2> QED BY <2>4 DEF Top, k
<1>3. v \in S
  OBVIOUS
<1>4. <<v>> \in Seq(S) /\ Len(<<v>>) = 1 /\ <<v>>[1] = v
  BY <1>3
<1> HIDE DEF s, s2
<1> DEFINE c == <<v>> \o s
<1>5. /\ c \in Seq(S) /\ Len(c) = 1 + (Top - i)
      /\ \A j \in 1 .. 1 + (Top - i) : c[j] = IF j <= 1 THEN v ELSE s[j - 1]
  BY <1>1, <1>4, ConcatProperties
<1> HIDE DEF c
<1>6. \A j \in 1 .. Len(s2) : s2[j] = c[j]
  BY <1>1, <1>2, <1>5 DEF Top
<1>7. s2 = c
  BY <1>2, <1>5, <1>6, SeqEqual DEF Top
<1> QED BY <1>7 DEF s, s2, c

\* Popping a word.
LEMMA StackPop ==
  ASSUME NEW S, NEW slots \in [0 .. Size - 1 -> S], NEW i \in 0 .. Size - 2
  PROVE  /\ StackOf(slots, i) # << >> /\ Head(StackOf(slots, i)) = slots[i]
         /\ StackOf(slots, i + 1) = Tail(StackOf(slots, i))
<1> USE ThreadsAssumption
<1> DEFINE s == StackOf(slots, i)
           s2 == StackOf(slots, i + 1)
<1>1. /\ s \in Seq(S) /\ Len(s) = Top - i
      /\ \A j \in 1 .. Top - i : s[j] = slots[i + j - 1]
  BY StackSeq
<1>2. /\ s2 \in Seq(S) /\ Len(s2) = Top - (i + 1)
      /\ \A j \in 1 .. Top - (i + 1) : s2[j] = slots[(i + 1) + j - 1]
  <2>1. i + 1 \in 0 .. Size - 1
    OBVIOUS
  <2> QED BY <2>1, StackSeq
<1> HIDE DEF s, s2
<1>3. s # << >> /\ Head(s) = slots[i]
  <2>1. Len(s) >= 1 /\ s[1] = slots[i]
    BY <1>1 DEF Top
  <2> QED BY <1>1, <2>1, EmptySeq
<1> DEFINE u == Tail(s)
<1>4. u \in Seq(S) /\ Len(u) = Len(s) - 1 /\ \A j \in 1 .. Len(u) : u[j] = s[j + 1]
  BY <1>1, <1>3, HeadTailProperties
<1> HIDE DEF u
<1>5. \A j \in 1 .. Len(s2) : s2[j] = u[j]
  BY <1>1, <1>2, <1>4 DEF Top
<1>6. Len(s2) = Len(u)
  BY <1>1, <1>2, <1>4 DEF Top
<1>7. s2 = u
  BY <1>2, <1>4, <1>5, <1>6, SeqEqual
<1> QED BY <1>3, <1>7 DEF s, s2, u

\* The stack is replaced.
LEMMA FullStack ==
  ASSUME NEW loc, NEW regs, NEW slots, NEW i, NEW slots2, NEW k
  PROVE  /\ Full(loc, regs, slots, i).stack = StackOf(slots, i)
         /\ \A r \in Free : Full(loc, regs, slots, i).x[r] = regs[r]
         /\ Full(loc, regs, slots2, k)
              = [Full(loc, regs, slots, i) EXCEPT !.stack = StackOf(slots2, k)]
<1> DEFINE b == [q \in Free |-> regs[q]]
<1>1. \A m, j : Full(loc, regs, m, j)
                  = [at |-> loc, arg |-> regs["a0"].n, x |-> b, stack |-> StackOf(m, j)]
  BY DEF Full
<1>2. \A r \in Free : b[r] = regs[r]
  OBVIOUS
<1> HIDE DEF b
<1> QED BY <1>1, <1>2

\* A thread computes.
LEMMA SetRegCo ==
  ASSUME CtxInv, CtxInv', NEW r \in Free, NEW v \in Values, SetReg(r, v)
  PROVE  Co!Work
<1>1. /\ pc = Body(self) /\ x' = [x EXCEPT ![r] = Val(v)] /\ self' = self
      /\ UNCHANGED <<pc, sp, mepc, mcause, memory, thread_sp, switch_from, switch_to, live>>
  BY DEF SetReg, InBody, self
<1>2. self \in Stacks /\ Running = self /\ Running' = Running
  BY <1>1, InBodyFacts DEF self, Running, Body, Code, Word
<1>3. \A t \in Stacks \ {Running} : ThreadView(t)' = ThreadView(t)
  BY <1>1, <1>2, OnlySelf
<1>4. ThreadView(self) = Full("body", x, memory[self], sp.i)
  BY <1>1, RunningView DEF RunningViews
<1>5. ThreadView(Running)' = Full("body", x', memory[self], sp.i)
  BY <1>1, <1>2, RunningViewNext DEF RunningViews
<1>6. x \in [Saved -> Words]
  BY DEF CtxInv, CtxTypeOK
<1>7. ThreadView(Running)' = [ThreadView(self) EXCEPT !.x[r] = Val(v)]
  <2>1. x' = [x EXCEPT ![r] = Val(v)]
    BY <1>1
  <2> DEFINE d == StackOf(memory[self], sp.i)
             w == Val(v)
             n == x["a0"].n
             b == [q \in Free |-> x[q]]
             b2 == [q \in Free |-> x'[q]]
  <2>2. /\ Full("body", x, memory[self], sp.i) = [at |-> "body", arg |-> n, x |-> b, stack |-> d]
        /\ Full("body", x', memory[self], sp.i) = [at |-> "body", arg |-> n, x |-> b2, stack |-> d]
        /\ b2 = [b EXCEPT ![r] = w]
    <3>1. x'["a0"] = x["a0"] /\ b2 = [b EXCEPT ![r] = w]
      BY <1>6, <2>1 DEF Saved, Free
    <3> QED BY <3>1 DEF Full
  <2> HIDE DEF w, n, b, b2
  <2>3. [at |-> "body", arg |-> n, x |-> b2, stack |-> d]
          = [[at |-> "body", arg |-> n, x |-> b, stack |-> d] EXCEPT !.x[r] = w]
    BY <2>2
  <2> HIDE DEF d
  <2> QED BY <1>4, <1>5, <2>2, <2>3 DEF w
<1>8. Co!Become([ThreadView(self) EXCEPT !.x[r] = Val(v)])
  BY <1>2, <1>3, <1>7, Becomes
<1>9. Co!me = ThreadView(self) /\ ThreadView(self).at = "body"
  BY <1>2, <1>4, FullAt DEF Co!me
<1> QED BY <1>1, <1>2, <1>8, <1>9 DEF Co!Work, Co!Still

\* A push is a step of the abstract thread on its stack.
LEMMA PushCo ==
  ASSUME CtxInv, CtxInv', NEW r \in Free, Push(r)
  PROVE  Co!Work
<1> USE ThreadsAssumption
<1> DEFINE i == sp.i
<1>1. /\ pc = Body(self) /\ self # 0 /\ i > 1 /\ sp' = Ptr(self, i - 1)
      /\ memory' = [memory EXCEPT ![self][i - 1] = x[r]]
      /\ UNCHANGED <<pc, x, mepc, mcause, thread_sp, switch_from, switch_to, live>>
  BY DEF Push, CanPush, InBody, self
<1>2. self \in Stacks /\ Running = self /\ i \in 1 .. Size - 1
  BY <1>1, InBodyFacts DEF self, StackOK
<1>3. self' = self /\ sp'.i = i - 1 /\ Running' = Running
  BY <1>1, <1>2 DEF self, Running, Body, Code, Ptr, Word
<1> DEFINE S == Words \cup Contexts \cup Arguments
<1>4. memory \in [Stacks -> [0 .. Size - 1 -> S]] /\ memory' \in [Stacks -> [0 .. Size - 1 -> S]]
  BY DEF CtxInv, CtxTypeOK
<1> HIDE DEF S, i
<1>5. /\ \A t \in Stacks \ {Running} : memory'[t] = memory[t]
      /\ memory'[self][i - 1] = x[r]
      /\ \A j \in i .. Size - 1 : memory'[self][j] = memory[self][j]
  BY <1>1, <1>2, <1>4
<1>6. \A t \in Stacks \ {Running} : ThreadView(t)' = ThreadView(t)
  BY <1>1, <1>3, <1>5, OnlySelf
<1>7. ThreadView(self) = Full("body", x, memory[self], i)
  BY <1>1, RunningView DEF RunningViews, i
<1>8. ThreadView(Running)' = Full("body", x, memory'[self], i - 1)
  BY <1>1, <1>2, <1>3, RunningViewNext DEF RunningViews
<1>9. StackOf(memory'[self], i - 1) = <<x[r]>> \o StackOf(memory[self], i)
  <2> DEFINE m == memory[self]
             m2 == memory'[self]
  <2>1. m \in [0 .. Size - 1 -> S] /\ m2 \in [0 .. Size - 1 -> S]
    BY <1>2, <1>4
  <2>2. m2[i - 1] = x[r] /\ \A j \in i .. Size - 1 : m2[j] = m[j]
    BY <1>5
  <2>3. i \in 1 .. Size - 1
    BY <1>2
  <2> HIDE DEF m, m2
  <2>4. StackOf(m2, i - 1) = <<x[r]>> \o StackOf(m, i)
    BY ONLY <2>1, <2>2, <2>3, StackPush
  <2> QED BY <2>4 DEF m, m2
<1>10. Len(StackOf(memory[self], i)) < Size
  <2>1. memory[self] \in [0 .. Size - 1 -> S] /\ i \in 0 .. Size - 1
    BY <1>2, <1>4
  <2>2. Len(StackOf(memory[self], i)) = Top - i
    BY ONLY <2>1, StackSeq
  <2> QED BY <2>1, <2>2 DEF Top
<1> DEFINE v == ThreadView(self)
<1>11. v.stack = StackOf(memory[self], i) /\ v.x[r] = x[r] /\ v.at = "body"
  BY <1>7, FullStack, FullAt
<1>12. ThreadView(Running)' = [v EXCEPT !.stack = <<v.x[r]>> \o v.stack]
  <2> DEFINE m == memory[self]
             m2 == memory'[self]
             k == i - 1
  <2> HIDE DEF m, m2, k
  <2>1. Full("body", x, m2, k) = [Full("body", x, m, i) EXCEPT !.stack = StackOf(m2, k)]
    BY ONLY FullStack
  <2>2. ThreadView(Running)' = [v EXCEPT !.stack = StackOf(m2, k)]
    BY <1>7, <1>8, <2>1 DEF m, m2, k
  <2>3. StackOf(m2, k) = <<v.x[r]>> \o v.stack
    BY <1>9, <1>11 DEF m, m2, k
  <2> QED BY <2>2, <2>3
<1>13. Co!me = v
  BY <1>2 DEF Co!me
<1> HIDE DEF v
<1>14. Co!Become([v EXCEPT !.stack = <<v.x[r]>> \o v.stack])
  BY <1>3, <1>6, <1>12, Becomes
<1> QED BY <1>1, <1>3, <1>10, <1>11, <1>13, <1>14 DEF Co!Work, Co!Still

\* A pop is a step of the abstract thread on its stack.
LEMMA PopCo ==
  ASSUME CtxInv, CtxInv', NEW r \in Free, Pop(r)
  PROVE  Co!Work
<1> USE ThreadsAssumption
<1> DEFINE i == sp.i
<1>1. /\ pc = Body(self) /\ self # 0 /\ i < Size - 1 /\ sp' = Ptr(self, i + 1)
      /\ x' = [x EXCEPT ![r] = memory[self][i]]
      /\ UNCHANGED <<pc, mepc, mcause, memory, thread_sp, switch_from, switch_to, live>>
  BY DEF Pop, CanPop, InBody, self, Top
<1>2. self \in Stacks /\ Running = self /\ i \in 0 .. Size - 2
  BY <1>1, InBodyFacts DEF self, StackOK
<1>3. self' = self /\ sp'.i = i + 1 /\ Running' = Running
  BY <1>1, <1>2 DEF self, Running, Body, Code, Ptr, Word
<1> DEFINE S == Words \cup Contexts \cup Arguments
<1>4. memory \in [Stacks -> [0 .. Size - 1 -> S]] /\ x \in [Saved -> Words]
  BY DEF CtxInv, CtxTypeOK
<1> HIDE DEF S, i
<1>5. \A t \in Stacks \ {Running} : ThreadView(t)' = ThreadView(t)
  BY <1>1, <1>3, OnlySelf
<1>6. ThreadView(self) = Full("body", x, memory[self], i)
  BY <1>1, RunningView DEF RunningViews, i
<1>7. ThreadView(Running)' = Full("body", x', memory[self], i + 1)
  BY <1>1, <1>2, <1>3, RunningViewNext DEF RunningViews
<1> DEFINE s == StackOf(memory[self], i)
           v == ThreadView(self)
<1>8. s # << >> /\ Head(s) = memory[self][i] /\ StackOf(memory[self], i + 1) = Tail(s)
  BY <1>2, <1>4, StackPop
<1>9. v.stack = s /\ v.at = "body"
  BY <1>6, FullStack, FullAt
<1> DEFINE w == memory[self][i]
           d == StackOf(memory[self], i + 1)
           n == x["a0"].n
           b == [q \in Free |-> x[q]]
           b2 == [q \in Free |-> x'[q]]
<1>10. /\ Full("body", x, memory[self], i + 1) = [at |-> "body", arg |-> n, x |-> b, stack |-> d]
       /\ Full("body", x', memory[self], i + 1) = [at |-> "body", arg |-> n, x |-> b2, stack |-> d]
       /\ b2 = [b EXCEPT ![r] = w]
  <2>1. x' = [x EXCEPT ![r] = w]
    BY <1>1
  <2> HIDE DEF w
  <2>2. x'["a0"] = x["a0"] /\ b2 = [b EXCEPT ![r] = w]
    BY <1>4, <2>1 DEF Saved, Free
  <2> QED BY <2>2 DEF Full
<1> HIDE DEF n, b, b2
<1>11. Full("body", x, memory[self], i + 1) = [v EXCEPT !.stack = d]
  <2> DEFINE k == i + 1
  <2> HIDE DEF k
  <2>1. Full("body", x, memory[self], k)
          = [Full("body", x, memory[self], i) EXCEPT !.stack = StackOf(memory[self], k)]
    BY ONLY FullStack
  <2> QED BY <1>6, <2>1 DEF k
<1>12. ThreadView(Running)' = [v EXCEPT !.stack = Tail(v.stack), !.x[r] = Head(v.stack)]
  <2>1. w = Head(v.stack) /\ d = Tail(v.stack)
    BY <1>8, <1>9
  <2> DEFINE g == [at |-> "body", arg |-> n, x |-> b, stack |-> d]
             g2 == [at |-> "body", arg |-> n, x |-> b2, stack |-> d]
  <2>2. g2 = [g EXCEPT !.x[r] = w]
    BY <1>10
  <2>3. ThreadView(Running)' = g2 /\ g = [v EXCEPT !.stack = d]
    BY <1>7, <1>10, <1>11
  <2> HIDE DEF g, g2, v, w, d
  <2>4. ThreadView(Running)' = [[v EXCEPT !.stack = d] EXCEPT !.x[r] = w]
    BY <2>2, <2>3
  <2> QED BY <2>1, <2>4
<1>13. Co!me = v
  BY <1>2 DEF Co!me
<1> HIDE DEF v, s
<1> DEFINE u == [v EXCEPT !.stack = Tail(@), !.x[r] = Head(v.stack)]
<1>14. ThreadView(Running)' = u
  BY <1>12
<1> HIDE DEF u
<1>15. Co!Become(u)
  BY <1>3, <1>5, <1>14, Becomes
<1> QED BY <1>1, <1>3, <1>8, <1>9, <1>13, <1>15 DEF Co!Work, Co!Still, u

\* The step of a thread that sees nothing of it.
LEMMA Stutters ==
  ASSUME CtxInv, Running' = Running, UNCHANGED switch_to,
         \A t \in Stacks \ {Running} : ThreadView(t)' = ThreadView(t),
         ThreadView(Running)' = ThreadView(Running)
  PROVE  UNCHANGED Co!coVars
<1>1. \A t \in Stacks : ThreadView(t)' = ThreadView(t)
  OBVIOUS
<1> QED BY <1>1 DEF Co!coVars

\* A thread calls the scheduler, or boot code starts it.
LEMMA ScheduleCo ==
  ASSUME CtxInv, CtxInv', Schedule
  PROVE  \E t \in Threads : Co!Leave(t)
<1> USE ThreadsAssumption
<1>1. PICK to \in Threads :
        rt_hw_context_switch_to(to) \/ \E from \in live : rt_hw_context_switch(from, to)
  BY DEF Schedule
<1>2. CASE rt_hw_context_switch_to(to)
  <2>1. to \in live \ {self} /\ switch_to' = to /\ pc = Body(self)
    BY <1>2 DEF rt_hw_context_switch_to, InBody, CtxInv, CtxTypeOK
  <2>2. Co!Leave(to)
    BY <1>2, <2>1, LeaveCo DEF rt_hw_context_switch_to, Schedule
  <2> QED BY <2>2
<1>3. ASSUME NEW from \in live, rt_hw_context_switch(from, to) PROVE Co!Leave(to)
  <2>1. to \in live \ {self} /\ switch_to' = to /\ pc = Body(self)
    BY <1>3 DEF rt_hw_context_switch, InBody
  <2> QED BY <1>3, <2>1, LeaveCo DEF rt_hw_context_switch, Schedule
<1> QED BY <1>1, <1>2, <1>3

\* A thread ends.
LEMMA ExitCo ==
  ASSUME CtxInv, CtxInv', Exit
  PROVE  \E t \in Threads : Co!Leave(t)
<1>1. PICK to \in Threads : rt_hw_context_switch(self, to)
  BY DEF Exit
<1>2. /\ live' = live \ {self} /\ pc = Body(self) /\ yield
      /\ switch_to' = to /\ to \in live \ {self}
      /\ UNCHANGED <<sp, mepc, mcause, memory, thread_sp>>
  BY <1>1 DEF Exit, rt_hw_context_switch, InBody
<1>3. Co!Leave(to)
  BY <1>2, LeaveCo
<1> QED BY <1>3

\* The view of a thread through a Context.
ContextViews ==
  \A t \in Stacks, i \in 0 .. Size - 1 :
    LET ctx == memory[t][i]
    IN /\ ctx.mepc = Code("ecall") =>
            ViewOfContext(t, i) = Full(IF t \in live THEN "away" ELSE "gone", ctx.x, memory[t], i + 1)
       /\ ctx.mepc = Code("ret") => ViewOfContext(t, i) = Full("back", ctx.x, memory[t], i + 1)
       /\ ctx.mepc = Code("kcontext_start") => ViewOfContext(t, i) = [at |-> "fresh"]

\* A saved Context shows the registers and the stack it was made from.
LEMMA ContextView == ContextViews
<1> SUFFICES ASSUME NEW t \in Stacks, NEW i \in 0 .. Size - 1
             PROVE LET ctx == memory[t][i]
                   IN /\ ctx.mepc = Code("ecall") =>
                           ViewOfContext(t, i)
                             = Full(IF t \in live THEN "away" ELSE "gone", ctx.x, memory[t], i + 1)
                      /\ ctx.mepc = Code("ret") =>
                           ViewOfContext(t, i) = Full("back", ctx.x, memory[t], i + 1)
                      /\ ctx.mepc = Code("kcontext_start") => ViewOfContext(t, i) = [at |-> "fresh"]
  BY DEF ContextViews
<1> DEFINE ctx == memory[t][i]
<1>1. ViewOfContext(t, i) = View(t, ctx.mepc, ctx.x, i + 1)
  BY DEF ViewOfContext
<1> HIDE DEF ctx
<1>2. /\ ctx.mepc = Code("ecall") =>
           ViewOfContext(t, i) = Full(IF t \in live THEN "away" ELSE "gone", ctx.x, memory[t], i + 1)
      /\ ctx.mepc = Code("ret") => ViewOfContext(t, i) = Full("back", ctx.x, memory[t], i + 1)
      /\ ctx.mepc = Code("kcontext_start") => ViewOfContext(t, i) = [at |-> "fresh"]
  BY <1>1, Views
<1> QED BY <1>2 DEF ctx

\* The same after a step.
LEMMA ContextViewNext == ContextViews'
  BY ContextView, PTL

\* Slots below the stack do not show.
LEMMA StackSame ==
  ASSUME NEW slots, NEW slots2, NEW i \in 0 .. Size,
         \A j \in i .. Size - 2 : slots2[j] = slots[j]
  PROVE  StackOf(slots2, i) = StackOf(slots, i)
<1> USE ThreadsAssumption
<1>1. \A j \in 1 .. Top - i : i + j - 1 \in i .. Size - 2
  BY DEF Top
<1> QED BY <1>1 DEF StackOf

\* A thread shows the same if its registers and the slots in use are the same.
LEMMA FullSame ==
  ASSUME NEW loc, NEW regs, NEW slots, NEW slots2, NEW i \in 0 .. Size,
         \A j \in i .. Size - 2 : slots2[j] = slots[j]
  PROVE  Full(loc, regs, slots2, i) = Full(loc, regs, slots, i)
  BY StackSame DEF Full

\* The trap is taken.
LEMMA EcallCo == ASSUME CtxInv, CtxInv', ecall PROVE UNCHANGED Co!coVars
<1>1. /\ pc = Code("ecall") /\ pc' = Code("__am_asm_trap") /\ self' = self
      /\ UNCHANGED <<sp, x, memory, thread_sp, switch_from, switch_to, live>>
  BY DEF ecall, self
<1>2. Running = self /\ Running' = Running
  BY <1>1 DEF Running, self, Code, Word
<1>3. \A t \in Stacks \ {Running} : ThreadView(t)' = ThreadView(t)
  BY <1>1, <1>2, OnlySelf
<1>4. ThreadView(self) = Full(IF self \in live THEN "away" ELSE "gone", x, memory[self], sp.i)
  BY <1>1, RunningView DEF RunningViews
<1>5. ThreadView(self)' = Full(IF self \in live THEN "away" ELSE "gone", x, memory[self], sp.i)'
  BY <1>1, RunningViewNext DEF RunningViews
<1>6. ThreadView(Running)' = ThreadView(Running)
  BY <1>1, <1>2, <1>4, <1>5
<1> QED BY <1>1, <1>2, <1>3, <1>6, Stutters

\* The registers move to the stack.
LEMMA TrapCo == ASSUME CtxInv, CtxInv', __am_asm_trap PROVE UNCHANGED Co!coVars
<1> USE ThreadsAssumption
<1> DEFINE i == sp.i - 1
           ctx == [x |-> x, mcause |-> mcause, mepc |-> mepc]
           loc == IF self \in live THEN "away" ELSE "gone"
<1>1. StackOK /\ mepc = Code("ecall") /\ self \in Stacks /\ pc = Code("__am_asm_trap")
  BY DEF CtxInv, CoreOK, __am_asm_trap, Code, Body, Word, self
<1>2. /\ sp' = Ptr(self, i) /\ pc' = Code("__am_irq_handle")
      /\ memory' = [memory EXCEPT ![self][i] = ctx]
      /\ UNCHANGED <<thread_sp, switch_to, live>>
  BY DEF __am_asm_trap, Ptr, Word, self
<1>3. i \in 0 .. Size - 1 /\ i + 1 = sp.i /\ i + 1 \in 0 .. Size
  BY <1>1 DEF StackOK
<1>4. ctx.x = x /\ ctx.mepc = Code("ecall")
  BY <1>1
<1> HIDE DEF i, ctx
<1>5. self' = self /\ sp'.i = i
  BY <1>2 DEF self, Ptr, Word
<1>6. Running = self /\ Running' = Running
  BY <1>1, <1>2, <1>5 DEF Running, self, Code, Word
<1>7. /\ \A t \in Stacks \ {self} : memory'[t] = memory[t]
      /\ memory'[self][i] = ctx
      /\ \A j \in i + 1 .. Size - 2 : memory'[self][j] = memory[self][j]
  BY <1>1, <1>2, <1>3 DEF CtxInv, CtxTypeOK
<1>8. \A t \in Stacks \ {Running} : ThreadView(t)' = ThreadView(t)
  BY <1>2, <1>6, <1>7, OnlySelf
<1>9. ThreadView(self) = Full(loc, x, memory[self], i + 1)
  BY <1>1, <1>3, RunningView DEF RunningViews
<1>10. ThreadView(self)' = Full(loc, x, memory'[self], i + 1)
  <2>1. ThreadView(self)' = ViewOfContext(self, sp.i)'
    BY <1>2, RunningViewNext DEF RunningViews
  <2>2. memory'[self'][sp'.i].mepc = Code("ecall") /\ memory'[self'][sp'.i].x = x
    BY <1>4, <1>5, <1>7
  <2>3. ViewOfContext(self, sp.i)'
          = Full(IF self \in live THEN "away" ELSE "gone", memory[self][sp.i].x, memory[self], sp.i + 1)'
    BY <1>1, <1>3, <1>5, <2>2, ContextViewNext DEF ContextViews
  <2> QED BY <1>2, <1>5, <2>1, <2>2, <2>3
<1> HIDE DEF loc
<1>11. Full(loc, x, memory'[self], i + 1) = Full(loc, x, memory[self], i + 1)
  BY <1>3, <1>7, FullSame
<1>12. ThreadView(Running)' = ThreadView(Running)
  BY <1>5, <1>6, <1>9, <1>10, <1>11
<1> QED BY <1>2, <1>6, <1>8, <1>12, Stutters

\* The registers come back from the stack.
LEMMA RestoreCo == ASSUME CtxInv, CtxInv', restore PROVE UNCHANGED Co!coVars
<1> USE ThreadsAssumption
<1> DEFINE c == x["a0"]
           t == c.n
           i == c.i
           ctx == memory[t][i]
<1>1. t \in live /\ Frame(t, i) /\ pc = Code("restore")
  BY DEF CtxInv, CoreOK, restore, Code, Body, Word
<1>2. /\ sp' = Ptr(t, i + 1) /\ x' = ctx.x /\ pc' = ctx.mepc
      /\ UNCHANGED <<memory, thread_sp, switch_to, live>>
  BY DEF restore
<1>3. /\ i \in 0 .. Size - 1 /\ t \in Stacks
      /\ ctx.mepc = Code("ret") \/ ctx.mepc = Code("kcontext_start")
  BY <1>1 DEF Frame, CtxInv, CtxTypeOK, Stacks
<1>4. Running = t
  BY <1>1 DEF Running
<1>5. ThreadView(t) = ViewOfContext(t, i)
  BY <1>1, <1>4, RunningView DEF RunningViews
<1> HIDE DEF c, t, i, ctx
<1>6. self' = t /\ sp'.i = i + 1
  BY <1>2 DEF self, Ptr, Word
<1>7. Running' = Running
  BY <1>2, <1>3, <1>4, <1>6 DEF Running, self, Code, Word
<1>8. \A s \in Stacks \ {Running} : ThreadView(s)' = ThreadView(s)
  BY <1>2, <1>7, OnlySelf
<1>9. ThreadView(Running)' = ThreadView(t)
  <2>1. CASE ctx.mepc = Code("ret")
    <3>1. ThreadView(t) = Full("back", ctx.x, memory[t], i + 1)
      BY <1>3, <1>5, <2>1, ContextView DEF ContextViews, ctx
    <3>2. ThreadView(self)' = Full("back", x, memory[self], sp.i)'
      BY <1>2, <2>1, RunningViewNext DEF RunningViews
    <3> QED BY <1>2, <1>4, <1>6, <1>7, <3>1, <3>2
  <2>2. CASE ctx.mepc = Code("kcontext_start")
    <3>1. ThreadView(t) = [at |-> "fresh"]
      BY <1>3, <1>5, <2>2, ContextView DEF ContextViews, ctx
    <3>2. ThreadView(self)' = [at |-> "fresh"]
      BY <1>2, <2>2, RunningViewNext DEF RunningViews
    <3> QED BY <1>4, <1>6, <1>7, <3>1, <3>2
  <2> QED BY <1>3, <2>1, <2>2
<1>10. ThreadView(Running)' = ThreadView(Running)
  BY <1>4, <1>7, <1>9
<1> QED BY <1>2, <1>7, <1>8, <1>10, Stutters

\* The call that left returns.
LEMMA RetCo == ASSUME CtxInv, CtxInv', ret PROVE Co!Resume
<1>1. pc = Code("ret") /\ x["ra"] = Body(self)
  BY DEF CtxInv, CoreOK, ret, Code, Body, Word
<1>2. /\ pc' = Body(self) /\ self' = self
      /\ UNCHANGED <<sp, x, memory, thread_sp, switch_to, live>>
  BY <1>1 DEF ret, self
<1>3. Running = self /\ Running' = Running
  BY <1>1, <1>2 DEF Running, self, Body, Code, Word
<1>4. \A t \in Stacks \ {Running} : ThreadView(t)' = ThreadView(t)
  BY <1>2, <1>3, OnlySelf
<1> DEFINE v == ThreadView(self)
<1>5. v = Full("back", x, memory[self], sp.i)
  BY <1>1, RunningView DEF RunningViews
<1>6. ThreadView(self)' = Full("body", x, memory[self], sp.i)'
  BY <1>2, RunningViewNext DEF RunningViews
<1>7. ThreadView(Running)' = [v EXCEPT !.at = "body"] /\ v.at = "back"
  BY <1>2, <1>3, <1>5, <1>6, FullAt
<1>8. Co!me = v /\ self \in Stacks
  BY <1>3, RunningView DEF Co!me, RunningViews
<1> HIDE DEF v
<1>9. Co!Become([v EXCEPT !.at = "body"])
  BY <1>3, <1>4, <1>7, Becomes
<1> QED BY <1>2, <1>3, <1>7, <1>8, <1>9 DEF Co!Resume, Co!Still

\* The first instructions of a new thread.
LEMMA KcontextStartCo == ASSUME CtxInv, CtxInv', kcontext_start PROVE UNCHANGED Co!coVars
<1>1. pc = Code("kcontext_start") /\ x["s1"] = Code("thread_start")
  BY DEF CtxInv, CoreOK, kcontext_start, Code, Body, Word
<1>2. /\ pc' = Code("thread_start") /\ self' = self
      /\ UNCHANGED <<sp, memory, thread_sp, switch_to, live>>
  BY <1>1 DEF kcontext_start, self
<1>3. Running = self /\ Running' = Running
  BY <1>1, <1>2 DEF Running, self, Code, Word
<1>4. \A t \in Stacks \ {Running} : ThreadView(t)' = ThreadView(t)
  BY <1>2, <1>3, OnlySelf
<1>5. ThreadView(self) = [at |-> "fresh"]
  BY <1>1, RunningView DEF RunningViews
<1>6. ThreadView(self)' = [at |-> "fresh"]
  BY <1>2, RunningViewNext DEF RunningViews
<1>7. ThreadView(Running)' = ThreadView(Running)
  BY <1>2, <1>3, <1>5, <1>6
<1> QED BY <1>2, <1>3, <1>4, <1>7, Stutters

\* A new thread enters its body with its own parameter and an empty stack.
LEMMA ThreadStartCo == ASSUME CtxInv, CtxInv', thread_start PROVE Co!Start
<1> USE ThreadsAssumption
<1>1. /\ pc = Code("thread_start") /\ self \in live /\ sp.i = Size - 1
      /\ x["a0"] = Ptr(self, Size - 1)
  BY DEF CtxInv, CoreOK, thread_start, Code, Body, Word
<1>2. memory[x["a0"].n][x["a0"].i] = [tentry |-> self, parameter |-> self]
  BY <1>1 DEF CtxInv, ArgumentsKept, Ptr, Word
<1>3. /\ pc' = Body(self) /\ self' = self
      /\ x' = [x EXCEPT !["a0"] = Val(self), !["ra"] = Code("thread_start")]
      /\ UNCHANGED <<sp, memory, thread_sp, switch_to, live>>
  BY <1>2 DEF thread_start, self
<1>4. Running = self /\ Running' = Running /\ self \in Stacks
  BY <1>1, <1>3, RunningView DEF Running, self, Body, Code, Word, RunningViews
<1>5. \A t \in Stacks \ {Running} : ThreadView(t)' = ThreadView(t)
  BY <1>3, <1>4, OnlySelf
<1>6. ThreadView(self) = [at |-> "fresh"]
  BY <1>1, RunningView DEF RunningViews
<1>7. ThreadView(self)' = Full("body", x, memory[self], sp.i)'
  BY <1>3, RunningViewNext DEF RunningViews
<1>8. x'["a0"].n = self
  BY <1>3 DEF Val, Word, Saved, CtxInv, CtxTypeOK
<1>9. StackOf(memory[self], sp.i) = << >>
  <2>1. 1 .. Top - sp.i = {}
    BY <1>1 DEF Top
  <2> QED BY <2>1 DEF StackOf
<1>10. ThreadView(self)' = Full("body", x', memory[self], sp.i)
  BY <1>3, <1>7
<1>11. /\ ThreadView(self)'.at = "body" /\ ThreadView(self)'.arg = self
       /\ ThreadView(self)'.stack = << >>
  BY <1>8, <1>9, <1>10 DEF Full
<1>12. ThreadView(Running)' = ThreadView(self)'
  BY <1>3, <1>4
<1>13. Co!me = [at |-> "fresh"]
  BY <1>4, <1>6 DEF Co!me
<1> QED
  BY <1>3, <1>4, <1>5, <1>11, <1>12, <1>13 DEF Co!Start, Co!Fresh, Co!Still, Stacks

\* The handler turns to the successor.  The thread that left will come back
\* after its call, or is dead.
LEMMA HandleCo == ASSUME CtxInv, CtxInv', __am_irq_handle PROVE Co!Switch
<1> USE ThreadsAssumption
<1> DEFINE to == switch_to
           ctx == memory[self][sp.i]
           new == [ctx EXCEPT !.mepc = Code("ret")]
           v == ThreadView(self)
           next == IF v.at = "gone" THEN [at |-> "dead"] ELSE [v EXCEPT !.at = "back"]
<1>1. /\ pc = Code("__am_irq_handle") /\ pc' = Code("restore") /\ switch_to' = 0
      /\ UNCHANGED <<sp, live>> /\ self' = self /\ Running = self /\ Running' = to
  BY HandleFacts DEF Handled, NULL
<1>2. to \in live /\ to # self /\ self \in Stacks /\ to \in Stacks
  BY HandleFacts DEF Handled, Stacks
<1>3. /\ thread_sp[to] = Ptr(to, thread_sp[to].i) /\ x'["a0"] = thread_sp[to]
      /\ self \in live => thread_sp'[self] = sp
      /\ \A t \in Threads \ {self} : thread_sp'[t] = thread_sp[t]
  BY HandleFacts DEF Handled
<1>4. /\ ctx.mepc = Code("ecall") /\ new.mepc = Code("ret") /\ new.x = ctx.x
      /\ sp.i \in 0 .. Size - 1
      /\ \A t \in Stacks \ {self} : memory'[t] = memory[t]
      /\ \A j \in 0 .. Size - 1 : memory'[self][j] = IF j = sp.i THEN new ELSE memory[self][j]
  BY HandleFacts DEF Handled
<1>5. live \subseteq Threads /\ live \subseteq Stacks
  BY DEF CtxInv, CtxTypeOK, Stacks
<1>6. v = Full(IF self \in live THEN "away" ELSE "gone", ctx.x, memory[self], sp.i + 1)
  <2>1. v = ViewOfContext(self, sp.i)
    BY <1>1, RunningView DEF RunningViews
  <2> QED BY <1>2, <1>4, <2>1, ContextView DEF ContextViews
<1> HIDE DEF to, ctx, new
<1>7. ThreadView(self)' = next
  <2>1. self' # Running'
    BY <1>1, <1>2
  <2>2. CASE self \in live
    <3>1. ThreadView(self)' = ViewOfContext(self, sp.i)'
      BY <1>1, <1>3, <2>1, <2>2 DEF ThreadView
    <3>2. memory'[self'][sp'.i].mepc = Code("ret") /\ memory'[self'][sp'.i].x = ctx.x
      BY <1>1, <1>4
    <3>3. ViewOfContext(self, sp.i)' = Full("back", memory[self][sp.i].x, memory[self], sp.i + 1)'
      BY <1>1, <1>2, <1>4, <3>2, ContextViewNext DEF ContextViews
    <3>4. ThreadView(self)' = Full("back", ctx.x, memory'[self], sp.i + 1)
      BY <1>1, <3>1, <3>2, <3>3
    <3>5. Full("back", ctx.x, memory'[self], sp.i + 1) = Full("back", ctx.x, memory[self], sp.i + 1)
      <4> DEFINE i == sp.i + 1
      <4>1. i \in 0 .. Size /\ \A j \in i .. Size - 2 : memory'[self][j] = memory[self][j]
        BY <1>4
      <4> HIDE DEF i
      <4>2. Full("back", ctx.x, memory'[self], i) = Full("back", ctx.x, memory[self], i)
        BY <4>1, FullSame
      <4> QED BY <4>2 DEF i
    <3>6. v = Full("away", ctx.x, memory[self], sp.i + 1)
      BY <1>6, <2>2
    <3>7. v.at = "away" /\ [v EXCEPT !.at = "back"] = Full("back", ctx.x, memory[self], sp.i + 1)
      BY <3>6, FullAt
    <3> HIDE DEF v
    <3> QED BY <3>4, <3>5, <3>7
  <2>3. CASE self \notin live
    <3>1. ThreadView(self)' = [at |-> "dead"]
      BY <1>1, <2>1, <2>3 DEF ThreadView
    <3>2. v.at = "gone"
      BY <1>6, <2>3, FullAt
    <3> HIDE DEF v
    <3> QED BY <3>1, <3>2
  <2> QED BY <2>2, <2>3
<1>8. ASSUME NEW t \in Stacks, t # self PROVE ThreadView(t)' = ThreadView(t)
  <2>1. CASE t # to
    BY <1>1, <1>3, <1>4, <1>5, <1>8, <2>1, OthersKept
  <2>2. CASE t = to
    <3>1. ThreadView(t) = ViewOfContext(t, thread_sp[t].i)
      BY <1>1, <1>2, <2>2 DEF ThreadView
    <3>2. ThreadView(Running)' = ViewOfContext(Running, x["a0"].i)'
      BY <1>1, RunningViewNext DEF RunningViews
    <3>3. Running' = t /\ x'["a0"].i = thread_sp[t].i /\ memory'[t] = memory[t] /\ live' = live
      BY <1>1, <1>3, <1>4, <1>8, <2>2
    <3>4. ViewOfContext(Running, x["a0"].i)' = ViewOfContext(t, thread_sp[t].i)
      BY <3>3 DEF ViewOfContext, View, At
    <3>5. ThreadView(t)' = ThreadView(Running)'
      BY <3>3
    <3> QED BY <3>1, <3>2, <3>4, <3>5
  <2> QED BY <2>1, <2>2
<1>9. Co!me = v /\ v.at \in {"away", "gone"}
  BY <1>1, <1>2, <1>6, FullAt DEF Co!me
<1> HIDE DEF next, v
<1>10. Co!Become(next)
  <2>1. ThreadView(self)' = next /\ Running = self
    BY <1>1, <1>7
  <2>2. [t \in Stacks |-> ThreadView(t)'] = [[t \in Stacks |-> ThreadView(t)] EXCEPT ![self] = next]
    BY <1>1, <1>2, <1>7, <1>8
  <2> QED BY <2>1, <2>2 DEF Co!Become
<1> QED BY <1>1, <1>9, <1>10 DEF Co!Switch, Co!Dead, next, to

\* The initial state maps to an initial state of Coroutines.
LEMMA InitCo == ASSUME CtxInit PROVE Co!CoInit
<1> USE ThreadsAssumption
<1>1. /\ pc = Body(0) /\ sp = Ptr(0, Size) /\ sp.i = Size /\ self = 0 /\ live = {}
      /\ switch_to = 0 /\ Running = 0
  BY DEF CtxInit, Ptr, Word, Body, Code, self, Running, NULL
<1>2. CtxInv
  BY InitInv
<1>3. ThreadView(0) = Full("body", x, memory[0], sp.i)
  BY <1>1, <1>2, RunningView DEF RunningViews
<1>4. StackOf(memory[0], sp.i) = << >>
  <2>1. 1 .. Top - sp.i = {}
    BY <1>1 DEF Top
  <2> QED BY <2>1 DEF StackOf
<1>5. ThreadView(0).at = "body" /\ ThreadView(0).stack = << >>
  BY <1>3, <1>4 DEF Full
<1>6. \A t \in Threads : ThreadView(t) = [at |-> "dead"] /\ t \in Stacks
  BY <1>1 DEF ThreadView, Stacks
<1>7. 0 \in Stacks
  BY DEF Stacks
<1> QED BY <1>1, <1>5, <1>6, <1>7 DEF Co!CoInit, Co!Dead

\* Every step of the core is a step of Coroutines, or nobody sees it.
LEMMA NextCo ==
  ASSUME CtxInv, CtxInv', [CtxNext]_vars
  PROVE  [Co!CoNext]_(Co!coVars)
<1>1. CASE UNCHANGED vars
  <2>1. \A t \in Stacks : ThreadView(t)' = ThreadView(t)
    BY <1>1 DEF vars, ThreadView, ViewOfContext, View, At, Running
  <2> QED BY <1>1, <2>1 DEF vars, Running, Co!coVars
<1>2. CASE CtxNext
  <2>1. CASE \E t \in Threads : rt_hw_stack_init(t)
    BY <2>1, CreateCo DEF Co!CoNext
  <2>2. CASE Schedule
    BY <2>2, ScheduleCo DEF Co!CoNext
  <2>3. CASE Exit
    BY <2>3, ExitCo DEF Co!CoNext
  <2>4. CASE ecall \/ __am_asm_trap \/ restore \/ kcontext_start
    BY <2>4, EcallCo, TrapCo, RestoreCo, KcontextStartCo
  <2>5. CASE __am_irq_handle
    BY <2>5, HandleCo DEF Co!CoNext
  <2>6. CASE ret
    BY <2>6, RetCo DEF Co!CoNext
  <2>7. CASE thread_start
    BY <2>7, ThreadStartCo DEF Co!CoNext
  <2>8. CASE \E r \in Free : (\E v \in Values : SetReg(r, v)) \/ Push(r) \/ Pop(r)
    BY <2>8, SetRegCo, PushCo, PopCo DEF Co!CoNext
  <2> QED BY <1>2, <2>1, <2>2, <2>3, <2>4, <2>5, <2>6, <2>7, <2>8 DEF CtxNext
<1> QED BY <1>1, <1>2

(***************************************************************************)
(* The switch of trap.S, cte.c and context.c implements Coroutines: every  *)
(* thread sees its registers, its stack and the place after its call as it *)
(* left them, whatever the others do in between, and a new thread starts   *)
(* at its entry with its parameter.  For any number of threads, any depth  *)
(* of their stacks and any values.                                         *)
(***************************************************************************)
THEOREM SwitchesAreCoroutines == CtxSpec => ImplementsCoroutines
<1>1. CtxInit => Co!CoInit
  BY InitCo
<1>2. CtxInv /\ CtxInv' /\ [CtxNext]_vars => [Co!CoNext]_(Co!coVars)
  BY NextCo
<1> QED BY <1>1, <1>2, InitInv, NextInv, PTL DEF CtxSpec, ImplementsCoroutines, Co!CoSpec
=============================================================================
