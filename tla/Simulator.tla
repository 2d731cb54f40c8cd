------------------------------ MODULE Simulator -----------------------------
(***************************************************************************)
(* The simulator of npc/csrc/main.cpp: the loop that clocks the core, what *)
(* it does with every retired instruction (history ring, UART, reference), *)
(* why it stops, and the commands of a script.  CommitRing and UartExpect  *)
(* are its parts; the core and the reference (difftest.cpp, NEMU) are      *)
(* environment: the core retires any instruction or none in a cycle, the   *)
(* reference the same one or another.                                      *)
(*                                                                         *)
(* A retired instruction is one of Events: a byte is a store of it to the  *)
(* transmit register, "ebreak" an ebreak, "trap" any other instruction     *)
(* that traps, "inst" everything else.                                     *)
(***************************************************************************)
EXTENDS CommitRing, UartExpect, FiniteSets

CONSTANTS
  Pcs,        \* the addresses of the program
  ResetPc,    \* args.reset_pc
  MaxCycles,  \* args.max_cycles
  MaxBreaks,  \* 16: the room for breakpoints
  Counts,     \* the arguments of step and run
  Setups      \* how the simulator is built and started, see setup

ASSUME SimAssumption ==
  /\ ResetPc \in Pcs /\ MaxCycles \in Nat /\ MaxBreaks \in Nat /\ Counts \subseteq Nat
  /\ Chars \cup {"inst", "ebreak", "trap"} \subseteq Events
  /\ \A s \in Setups : s.insts \subseteq Events

VARIABLES
  setup,      \* debug: NPC_DEBUG, the build with debug ports; difftest: whether
              \* there is a reference; texts: --uart-expect; cmds: the commands
              \* of the script; insts: the events of the program
  cycles,     \* cycles_
  pc,         \* debug_pc: the next instruction to retire
  halted,     \* debug_halted
  breaks,     \* breakpoints_
  cmd,        \* the command that is executed
  result,     \* the reason in last_result
  ref,        \* the reference: how many events it has recorded, the last one,
              \* and whether it has ended
  same,       \* history: every event of the reference was that of the core
  differed    \* history: a difference was reported

coreVars == <<cycles, pc, halted>>
refVars  == <<ref, same, differed>>
simVars  == <<ringVars, uartVars, coreVars, refVars, setup, breaks, cmd, result>>

NoCmd  == [op |-> "idle", left |-> 0, target |-> ResetPc, retired |-> FALSE]
SpecOp == [NoCmd EXCEPT !.op = "spec"]
Running == cmd.op \notin {"idle", "exited"}

Good(reason) == reason \in {"good_trap", "uart_eot", "uart_expect"}

SimInit ==
  /\ setup \in Setups
  /\ RingInit /\ UartInit /\ uart_expect \in setup.texts
  /\ cycles = 0 /\ pc = ResetPc /\ halted = FALSE
  /\ breaks = {} /\ result = "none"
  /\ cmd = IF setup.debug THEN NoCmd ELSE SpecOp
  /\ ref = [count |-> 0, last |-> Unused, ended |-> FALSE]
  /\ same = TRUE /\ differed = FALSE

-----------------------------------------------------------------------------
(* How an iteration of the loop ends *)
End(reason) == cmd' = NoCmd /\ result' = reason
Limit(c, reason) == IF c >= MaxCycles THEN "cycle_limit" ELSE reason

(* Nothing stops the run: step counts down, run_to and run_until_reg call  *)
(* step(1) again unless that has met the limit.                            *)
After(c, retired) ==
  LET more == [cmd EXCEPT !.left = IF @ > 0 THEN @ - 1 ELSE @,
                          !.retired = @ \/ retired]
      last_one == IF cmd.op = "step" THEN cmd.left = 1 ELSE c >= MaxCycles
  IN  IF last_one THEN End(Limit(c, "step_done"))
                  ELSE cmd' = more /\ UNCHANGED result

Reached == cmd.op = "to" /\ pc = cmd.target

\* Mutant: a cycle without a commit is not counted.
Bubble_uncounted ==
  After(cycles, FALSE) /\ UNCHANGED <<coreVars, ringVars, uartVars, refVars>>
Bubble ==
  /\ cycles' = cycles + 1 /\ After(cycles + 1, FALSE)
  /\ UNCHANGED <<pc, halted, ringVars, uartVars, refVars>>

(* The two conditions on the UART, looked at after every retirement.  The  *)
(* flags stay set.                                                         *)
\* Mutant: only what this instruction did counts.
uart_stop_now(ev) ==
  CASE ev = EOT -> "uart_eot"
    [] ev # EOT /\ uart_expect_seen' /\ ~uart_expect_seen -> "uart_expect"
    [] OTHER -> "none"
uart_stop(ev) ==
  CASE uart_eot' -> "uart_eot"
    [] ~uart_eot' /\ uart_expect_seen' -> "uart_expect"
    [] OTHER -> "none"

(* Difftest::step: the reference retires one instruction, unless it has    *)
(* ended: then its last event is compared again.  It agrees only on the    *)
(* same event, and ends at an ebreak, or at a trap it has no handler for.  *)
difftest_step(ev, agrees) ==
  \E r \in {ev, "inst", "ebreak"}, replay_ok \in BOOLEAN, aborts \in BOOLEAN :
    /\ ref' = IF ref.ended THEN ref
              ELSE [count |-> ref.count + 1, last |-> r,
                    ended |-> r = "ebreak" \/ (r = "trap" /\ aborts)]
    /\ agrees = (replay_ok /\ ref'.last = ev)
    /\ same' = (same /\ (ref.ended \/ r = pushed'[ref.count + 1]))
    /\ differed' = (differed \/ ~agrees)

\* Mutant: the address that was just left is looked up.
breakpoint_hit_late(p) == pc \in breaks
breakpoint_hit(p) == p \in breaks

(* Why the run stops after ev, once the UART and the reference have not    *)
(* stopped it: stays is whether the core halted, a0 what x10 is.           *)
trap_stop(ev, a0) ==
  CASE ev = "ebreak" -> IF a0 = 0 THEN "good_trap" ELSE "bad_trap"
    [] ev = "trap" /\ halted' -> "illegal_inst"
    [] ev # "ebreak" /\ ~halted' /\ breakpoint_hit(pc') -> "breakpoint"
    [] OTHER -> "none"

(* An instruction retires.  Without a vector a trap halts the core.        *)
Retire(ev, next_pc, vector, a0) ==
  /\ Len(pushed) < MaxPush
  /\ cycles' = cycles + 1
  /\ push(ev) /\ pushed' = Append(pushed, ev)
  /\ IF ev \in Chars THEN commit_mmio_write(TRUE, ev) ELSE UNCHANGED uartVars
  /\ halted' = (ev \in {"ebreak", "trap"} /\ ~vector)
  /\ pc' = IF halted' THEN pc ELSE next_pc
  /\ IF uart_stop(ev) # "none" THEN End(uart_stop(ev)) /\ UNCHANGED refVars
     ELSE \E agrees \in BOOLEAN :
       /\ IF setup.difftest THEN difftest_step(ev, agrees)
                      ELSE agrees = TRUE /\ UNCHANGED refVars
       /\ CASE ~agrees -> End("difftest_mismatch")
            [] agrees /\ trap_stop(ev, a0) # "none" -> End(trap_stop(ev, a0))
            [] agrees /\ trap_stop(ev, a0) = "none" -> After(cycles + 1, TRUE)

(* One iteration of the loop of step.  A core that has halted says BAD.    *)
Iterate ==
  /\ Running /\ setup.debug
  /\ \/ Reached /\ End("target_pc") /\ UNCHANGED <<coreVars, ringVars, uartVars, refVars>>
     \/ /\ cmd.op = "until" /\ End("target_reg")
        /\ UNCHANGED <<coreVars, ringVars, uartVars, refVars>>
     \/ /\ ~Reached /\ (halted \/ cycles >= MaxCycles)
        /\ End(IF halted THEN "bad_trap" ELSE "cycle_limit")
        /\ UNCHANGED <<coreVars, ringVars, uartVars, refVars>>
     \/ /\ ~Reached /\ ~halted /\ cycles < MaxCycles
        /\ \/ Bubble
           \/ \E ev \in setup.insts, p \in Pcs, vector \in BOOLEAN, a0 \in {0, 1} :
                Retire(ev, p, vector, a0)
  /\ UNCHANGED <<setup, breaks>>

(* The loop of a build without debug ports: a cycle may bring a byte.      *)
SpecIterate ==
  /\ Running /\ ~setup.debug
  /\ IF uart_eot \/ uart_expect_seen \/ cycles >= MaxCycles
     THEN /\ End(IF uart_eot THEN "uart_eot"
                 ELSE IF uart_expect_seen THEN "uart_expect" ELSE "cycle_limit")
          /\ UNCHANGED <<cycles, uartVars>>
     ELSE /\ cycles' = cycles + 1 /\ UNCHANGED <<cmd, result>>
          /\ \/ UNCHANGED uartVars
             \/ \E ch \in Chars : Len(out) < MaxOut /\ commit_mmio_write(TRUE, ch)
  /\ UNCHANGED <<pc, halted, ringVars, refVars, setup, breaks>>

-----------------------------------------------------------------------------
(* Commands *)
Command(name) == /\ cmd.op = "idle" /\ name \in setup.cmds
                 /\ UNCHANGED <<ringVars, uartVars, refVars, setup>>

(* The result of the command before is not read any more. *)
Start(c) == cmd' = c /\ result' = "none"

\* step n, run n
Step ==
  /\ Command("step") /\ UNCHANGED <<coreVars, breaks>>
  /\ \E n \in Counts :
       IF n = 0 THEN End(Limit(cycles, "step_done"))
       ELSE Start([NoCmd EXCEPT !.op = "step", !.left = n])

\* run to p, run until reg
RunTo ==
  /\ Command("run") /\ UNCHANGED <<coreVars, breaks>>
  /\ \/ \E p \in Pcs : Start([NoCmd EXCEPT !.op = "to", !.target = p])
     \/ Start([NoCmd EXCEPT !.op = "until"])

(* The ring, the UART and the reference keep their states.  *)
Reset ==
  /\ Command("reset") /\ UNCHANGED <<breaks, cmd, result>>
  /\ cycles' = 0 /\ pc' = ResetPc /\ halted' = FALSE

\* Mutant: one breakpoint more than there is room.
add_breakpoint_full(p) ==
  breaks' = IF Cardinality(breaks) > MaxBreaks THEN breaks ELSE breaks \cup {p}
add_breakpoint(p) ==
  breaks' = IF Cardinality(breaks) >= MaxBreaks THEN breaks ELSE breaks \cup {p}

Breakpoints ==
  /\ Command("break") /\ UNCHANGED <<coreVars, cmd, result>>
  /\ \/ \E p \in Pcs : add_breakpoint(p)
     \/ \E p \in breaks : breaks' = breaks \ {p}
     \/ breaks' = {}

\* The end of main, with the check of x1.
Exit ==
  /\ cmd.op = "idle" /\ cmd' = [NoCmd EXCEPT !.op = "exited"]
  /\ \E x1_ok \in BOOLEAN :
       result' = IF setup.debug /\ ~x1_ok /\ Good(result) THEN "check_failed" ELSE result
  /\ UNCHANGED <<ringVars, uartVars, coreVars, refVars, setup, breaks>>

SimNext == Iterate \/ SpecIterate \/ Step \/ RunTo \/ Reset \/ Breakpoints \/ Exit

(* The simulator is one thread: once a command has begun it goes on.       *)
SimSpec == /\ SimInit /\ [][SimNext]_simVars
           /\ WF_simVars(Iterate \/ SpecIterate)

-----------------------------------------------------------------------------
\* The parts have their types, the cycle limit and the room for breakpoints
\* are kept (main.cpp lines 180 and 282).
SimTypeOK ==
  /\ RingTypeOK /\ UartTypeOK
  /\ cycles \in 0 .. MaxCycles /\ pc \in Pcs /\ halted \in BOOLEAN
  /\ breaks \subseteq Pcs /\ Cardinality(breaks) <= MaxBreaks
  /\ ref.count \in 0 .. Len(pushed)

Agreed ==
  same /\ \A i \in ref.count + 1 .. Len(pushed) : pushed[i] = "ebreak"

\* A verdict of a command is earned, whatever commands came before it: for the
\* UART, the byte or the text was output; for an ebreak, it was the last
\* instruction to retire and, with a reference and no difference reported,
\* both machines have retired the same instructions one by one.  Only further
\* ebreaks are compared with the last event of a reference that has stopped
\* (main.cpp lines 229-262, difftest.cpp lines 85-103, ref.c lines 55-59).
VerdictIsEarned ==
  ~Running =>
    /\ result = "uart_eot" => \E i \in DOMAIN out : out[i] = EOT
    /\ result = "uart_expect" => uart_expect # << >> /\ Occurs
    /\ result = "good_trap" => pushed # << >> /\ pushed[Len(pushed)] = "ebreak"
                               /\ (setup.difftest /\ ~differed => Agreed)

\* A command stops in front of every breakpoint: an instruction at a breakpoint
\* retires only as the first one of a command, through run, run to and run
\* until reg alike (main.cpp lines 264-270).
BreakpointsHonoured ==
  [][pushed' # pushed /\ pc \in breaks => ~cmd.retired]_simVars

\* Every command ends, also a run to an address that is never reached or on a
\* core that retires nothing (main.cpp lines 309-323).
CommandEnds == Running ~> ~Running
=============================================================================
