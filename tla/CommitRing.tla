----------------------------- MODULE CommitRing -----------------------------
(***************************************************************************)
(* The bounded history of retired instructions: class CommitRing of        *)
(* npc/csrc/main.cpp and the ring of nemu/src/utils/state.c.  The two are  *)
(* the same algorithm; the size of the first comes from the command line,  *)
(* where zero counts as one.                                               *)
(***************************************************************************)
EXTENDS Naturals, Sequences

CONSTANTS
  Events,   \* what a slot can hold
  Sizes,    \* the requested sizes
  MaxPush   \* bound on the events of a run

ASSUME RingAssumption == Sizes \subseteq Nat /\ MaxPush \in Nat

VARIABLES
  slots,    \* entries_.size()
  entries,  \* entries_
  next,     \* next_
  count,    \* count_
  pushed    \* history: every event ever pushed

ringVars == <<slots, entries, next, count, pushed>>

\* An entry before its first use.
Unused == "unused"

RingInit ==
  /\ \E size \in Sizes : slots = IF size = 0 THEN 1 ELSE size
  /\ entries = [i \in 0 .. slots - 1 |-> Unused]
  /\ next = 0 /\ count = 0 /\ pushed = << >>

\* Mutant: the count goes on when the ring is full.
push_count_unbounded(ev) ==
  /\ entries' = [entries EXCEPT ![next] = ev]
  /\ next' = (next + 1) % slots
  /\ count' = count + 1
  /\ UNCHANGED slots
push(ev) ==
  /\ entries' = [entries EXCEPT ![next] = ev]
  /\ next' = (next + 1) % slots
  /\ count' = IF count < slots THEN count + 1 ELSE count
  /\ UNCHANGED slots

RingNext ==
  \E ev \in Events :
    Len(pushed) < MaxPush /\ push(ev) /\ pushed' = Append(pushed, ev)

RingSpec == RingInit /\ [][RingNext]_ringVars

-----------------------------------------------------------------------------
\* How many events last(n) gives: zero asks for all.
last_length(n) == IF n = 0 \/ n > count THEN count ELSE n

last_slot(n, i) ==
  LET first == (next + slots - last_length(n)) % slots
  IN (first + i) % slots

\* Mutant: the start is computed as if the ring were not full.
last_from_zero(n) ==
  [i \in 1 .. last_length(n) |-> entries[i - 1]]
last(n) == [i \in 1 .. last_length(n) |-> entries[last_slot(n, i - 1)]]

\* commit_event_get_last and commit_event_copy_last of NEMU.
commit_event_copy_last(max_n) == IF max_n = 0 THEN << >> ELSE last(max_n)

(***************************************************************************)
(* Registers of the ring stay in range (main.cpp lines 120-124).           *)
(***************************************************************************)
RingTypeOK ==
  /\ slots \in Nat \ {0}
  /\ entries \in [0 .. slots - 1 -> Events \cup {Unused}]
  /\ next \in 0 .. slots - 1 /\ count \in 0 .. slots
  /\ pushed \in Seq(Events)

(***************************************************************************)
(* last(n) shows the most recent events, oldest first, for every fill      *)
(* level, before and after the wrap (main.cpp lines 126-135): as many as   *)
(* asked for, or all that are kept, which is all until the ring is full.   *)
(***************************************************************************)
LastIsRecent ==
  /\ count = slots \/ count = Len(pushed)
  /\ \A n \in 0 .. slots + 1 :
       last(n) = SubSeq(pushed, Len(pushed) - last_length(n) + 1, Len(pushed))
=============================================================================
