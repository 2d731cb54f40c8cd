----------------------------- MODULE UartExpect -----------------------------
(***************************************************************************)
(* The UART of the simulated memory (npc/csrc/memory.cpp) as a stop        *)
(* condition: the matcher of --uart-expect and the end-of-transmission     *)
(* byte.  commit_mmio_write, called for every retired store of a debug     *)
(* build, and write32 of a build without debug ports hold the same code.   *)
(***************************************************************************)
EXTENDS Naturals, Sequences

CONSTANTS
  Chars,    \* the bytes that are written
  EOT,      \* the byte 0x04
  MaxText,  \* bound on the length of the expected text
  MaxOut    \* bound on the length of the output

ASSUME UartAssumption == EOT \in Chars /\ MaxText \in Nat /\ MaxOut \in Nat

VARIABLES
  uart_expect, uart_expect_pos, uart_expect_seen, uart_eot,
  out       \* history: every byte the UART was given

uartVars == <<uart_expect, uart_expect_pos, uart_expect_seen, uart_eot, out>>

Texts == UNION {[1 .. n -> Chars] : n \in 0 .. MaxText}

set_uart_expect(text) ==
  uart_expect = text /\ uart_expect_pos = 0 /\ uart_expect_seen = FALSE

UartInit ==
  /\ \E text \in Texts : set_uart_expect(text)
  /\ uart_eot = FALSE /\ out = << >>

\* The position after ch.  Mutant: a mismatch keeps the position.
next_pos_kept(ch) ==
  IF ch = uart_expect[uart_expect_pos + 1] THEN uart_expect_pos + 1 ELSE uart_expect_pos
\* Mutant: a mismatch forgets that ch may itself begin the text.
next_pos_zero(ch) ==
  IF ch = uart_expect[uart_expect_pos + 1] THEN uart_expect_pos + 1 ELSE 0
next_pos(ch) ==
  IF ch = uart_expect[uart_expect_pos + 1] THEN uart_expect_pos + 1
  ELSE IF ch = uart_expect[1] THEN 1 ELSE 0

\* Mutant: completing the text is not noticed.
match_unnoticed(ch) ==
  IF uart_expect_seen \/ uart_expect = << >>
  THEN UNCHANGED <<uart_expect_pos, uart_expect_seen>>
  ELSE uart_expect_pos' = next_pos(ch) /\ UNCHANGED uart_expect_seen
match(ch) ==
  IF uart_expect_seen \/ uart_expect = << >>
  THEN UNCHANGED <<uart_expect_pos, uart_expect_seen>>
  ELSE /\ uart_expect_pos' = next_pos(ch)
       /\ uart_expect_seen' = (/\ ch = uart_expect[uart_expect_pos + 1]
                               /\ uart_expect_pos + 1 = Len(uart_expect))

\* A store to the transmit register; at_base: to that byte of the window.
commit_mmio_write(at_base, ch) ==
  /\ UNCHANGED uart_expect
  /\ IF at_base
     THEN match(ch) /\ uart_eot' = (uart_eot \/ ch = EOT) /\ out' = Append(out, ch)
     ELSE UNCHANGED <<uart_expect_pos, uart_expect_seen, uart_eot, out>>

\* A run ends at either condition; a script may go on with another one.
UartNext ==
  \E at_base \in BOOLEAN, ch \in Chars :
    Len(out) < MaxOut /\ commit_mmio_write(at_base, ch)

UartSpec == UartInit /\ [][UartNext]_uartVars

-----------------------------------------------------------------------------
(***************************************************************************)
(* The position never runs past the text (memory.cpp lines 190-197).       *)
(***************************************************************************)
UartTypeOK ==
  /\ uart_expect \in Seq(Chars) /\ out \in Seq(Chars)
  /\ uart_expect_pos \in 0 .. Len(uart_expect)
  /\ uart_expect_seen \in BOOLEAN /\ uart_eot \in BOOLEAN
  /\ ~uart_expect_seen /\ uart_expect # << >> => uart_expect_pos < Len(uart_expect)

\* The last k bytes of the output are the first k of the text.
Ends(k) ==
  /\ k <= Len(out)
  /\ \A i \in 1 .. k : out[Len(out) - k + i] = uart_expect[i]

\* The text occurs in the output.
Occurs ==
  \E n \in Len(uart_expect) .. Len(out) :
    \A i \in 1 .. Len(uart_expect) : out[n - Len(uart_expect) + i] = uart_expect[i]

UniqueStart ==
  /\ uart_expect # << >>
  /\ \A i \in 2 .. Len(uart_expect) : uart_expect[i] # uart_expect[1]

(***************************************************************************)
(* The text is taken for seen only when it was output; until then the      *)
(* position is always a part of the text the output ends with, through     *)
(* every mismatch (memory.cpp lines 190-197).                              *)
(***************************************************************************)
StopsOnlyAtText ==
  /\ ~uart_expect_seen => Ends(uart_expect_pos)
  /\ uart_expect_seen => uart_expect # << >> /\ Occurs

(***************************************************************************)
(* A text whose first character does not come again in it is never missed: *)
(* falling back to the first character is then enough (line 196).          *)
(***************************************************************************)
FindsTextWithUniqueStart == UniqueStart /\ Occurs => uart_expect_seen

(***************************************************************************)
(* The stop condition as documented: the run stops once the expected text  *)
(* has been output, whatever the text.                                     *)
(***************************************************************************)
StopsAtText == uart_expect # << >> /\ Occurs => uart_expect_seen
=============================================================================
