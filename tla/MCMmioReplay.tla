---------------------------- MODULE MCMmioReplay ----------------------------
(***************************************************************************)
(* Words for the runs of MmioReplay: one with zeros above its first byte,  *)
(* as a character in a register, and two in which lanes and signs differ.  *)
(***************************************************************************)
EXTENDS MmioReplay

ALane(a, b, c, d) == [i \in Lanes |-> CASE i = 0 -> a [] i = 1 -> b [] i = 2 -> c [] i = 3 -> d]

McData ==
  {ALane("7f", "00", "00", "00"), ALane("ff", "7f", "00", "ff"), ALane("7f", "ff", "7f", "00")}
=============================================================================
