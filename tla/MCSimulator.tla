---------------------------- MODULE MCSimulator ----------------------------
(***************************************************************************)
(* Set-ups for model checking Simulator.                                   *)
(***************************************************************************)
EXTENDS Simulator

(* A run that waits for an output, with the ring, the UART and resets      *)
Output == [debug |-> TRUE, difftest |-> FALSE, texts |-> Texts,
           cmds |-> {"step", "reset"}, insts |-> Chars \cup {"inst"}]

(* A run against the reference *)
Reference == [debug |-> TRUE, difftest |-> TRUE, texts |-> {<< >>, <<"m">>},
              cmds |-> {"step", "reset"}, insts |-> Events \ {"s"}]

(* Debugging: breakpoints and all ways to run *)
Debugging == [debug |-> TRUE, difftest |-> FALSE, texts |-> {<< >>},
              cmds |-> {"step", "run", "break", "reset"},
              insts |-> {"inst", "ebreak", "trap"}]

(* The build without debug ports *)
NoDebug == [debug |-> FALSE, difftest |-> FALSE, texts |-> Texts,
            cmds |-> {}, insts |-> {}]

MCSetups == {Output, Reference, Debugging, NoDebug}
=============================================================================
