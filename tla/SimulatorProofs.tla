--------------------------- MODULE SimulatorProofs --------------------------
(***************************************************************************)
(* The simulator for every program, set-up, script and cycle limit.  First *)
(* its parts on their own: the commit ring shows the most recent events    *)
(* for every size and every number of pushes, and the UART matcher is      *)
(* sound for every expected text and every output.  Then the simulator     *)
(* that is made of them: its verdicts are earned and its breakpoints are   *)
(* honoured.                                                               *)
(***************************************************************************)
EXTENDS Simulator, SequenceTheorems, FiniteSetTheorems, TLAPS

(* The commit ring *)

\* Arithmetic modulo n of a number below 2n, all the ring ever needs.
LEMMA ModBelowTwice ==
  ASSUME NEW n \in Nat \ {0}
  PROVE  \A x \in 0 .. 2 * n - 1 :
           (x < n => x % n = x) /\ (~(x < n) => x % n = x - n)
<1> TAKE x \in 0 .. 2 * n - 1
<1>1. x < n => x % n = x
  BY SMT
<1>2. ~(x < n) => x % n = x - n
  BY SMT
<1> QED BY <1>1, <1>2

\* The slot of the i-th most recent event.
Slot(i) == IF i <= next THEN next - i ELSE next + slots - i

(***************************************************************************)
(* What push (main.cpp lines 120-124) preserves: the i-th most recent      *)
(* event is i slots before next, as far back as count.                     *)
(***************************************************************************)
Recent ==
  /\ count <= Len(pushed)
  /\ count = slots \/ count = Len(pushed)
  /\ \A i \in 1 .. count : entries[Slot(i)] = pushed[Len(pushed) - i + 1]

RingInv == RingTypeOK /\ Recent

-----------------------------------------------------------------------------
\* An empty ring shows nothing.
LEMMA InitRingInv == RingInit => RingInv
<1> SUFFICES ASSUME RingInit PROVE RingInv
  OBVIOUS
<1>1. slots \in Nat \ {0}
  BY RingAssumption DEF RingInit
<1>2. RingTypeOK
  BY <1>1 DEF RingInit, RingTypeOK
<1>3. Recent
  BY <1>1 DEF RingInit, Recent
<1> QED BY <1>2, <1>3 DEF RingInv

\* A push moves every event one place back and overwrites the oldest one only.
LEMMA PushRingInv == RingInv /\ [RingNext]_ringVars => RingInv'
<1> SUFFICES ASSUME RingInv, [RingNext]_ringVars PROVE RingInv'
  OBVIOUS
<1>1. CASE UNCHANGED ringVars
  BY <1>1 DEF RingInv, RingTypeOK, Recent, Slot, ringVars
<1>2. ASSUME NEW ev \in Events, push(ev), pushed' = Append(pushed, ev)
      PROVE  RingInv'
  <2> USE <1>2
  <2>1. /\ slots \in Nat \ {0} /\ slots' = slots
        /\ next \in 0 .. slots - 1 /\ count \in 0 .. slots
        /\ entries \in [0 .. slots - 1 -> Events \cup {Unused}]
        /\ pushed \in Seq(Events)
    BY DEF RingInv, RingTypeOK, push
  <2>2. next' = IF next + 1 < slots THEN next + 1 ELSE 0
    <3> DEFINE x == next + 1
    <3>1. x \in 0 .. 2 * slots - 1
      BY <2>1
    <3>2. (x < slots => x % slots = x) /\ (~(x < slots) => x % slots = x - slots)
      <4> HIDE DEF x
      <4> QED BY <2>1, <3>1, ModBelowTwice
    <3> QED BY <2>1, <3>2 DEF push
  <2>3. count' = IF count < slots THEN count + 1 ELSE count
    BY DEF push
  <2>4. entries' = [entries EXCEPT ![next] = ev]
    BY DEF push
  <2>5. /\ pushed' \in Seq(Events) /\ Len(pushed') = Len(pushed) + 1
        /\ pushed'[Len(pushed) + 1] = ev
        /\ \A j \in 1 .. Len(pushed) : pushed'[j] = pushed[j]
    BY <2>1, AppendProperties
  <2>6. RingTypeOK'
    BY <2>1, <2>2, <2>3, <2>4, <2>5 DEF RingTypeOK
  <2>7. Len(pushed) \in Nat
    BY <2>1, LenProperties
  <2>8. /\ count <= Len(pushed) /\ (count = slots \/ count = Len(pushed))
        /\ \A i \in 1 .. count : entries[Slot(i)] = pushed[Len(pushed) - i + 1]
    BY DEF RingInv, Recent
  <2>9. ASSUME NEW i \in 1 .. count'
        PROVE  entries'[Slot(i)'] = pushed'[Len(pushed') - i + 1]
    <3>1. CASE i = 1
      <4>1. Slot(i)' = next
        BY <3>1, <2>1, <2>2 DEF Slot
      <4> QED BY <3>1, <4>1, <2>1, <2>4, <2>5, <2>7
    <3>2. CASE i # 1
      <4>1. i - 1 \in 1 .. count /\ i <= slots
        BY <3>2, <2>1, <2>3
      <4>2. Slot(i)' = Slot(i - 1)
        BY <3>2, <4>1, <2>1, <2>2 DEF Slot
      <4>3. Slot(i - 1) \in 0 .. slots - 1 /\ Slot(i - 1) # next
        BY <4>1, <2>1 DEF Slot
      <4>4. entries'[Slot(i)'] = entries[Slot(i - 1)]
        BY <4>2, <4>3, <2>1, <2>4
      <4>5. entries[Slot(i - 1)] = pushed[Len(pushed) - (i - 1) + 1]
        BY <4>1, <2>8
      <4>6. /\ Len(pushed) - (i - 1) + 1 \in 1 .. Len(pushed)
            /\ Len(pushed') - i + 1 = Len(pushed) - (i - 1) + 1
        BY <4>1, <2>1, <2>5, <2>7, <2>8
      <4> QED BY <4>4, <4>5, <4>6, <2>5
    <3> QED BY <3>1, <3>2
  <2>10. Recent'
    <3>1. count' <= Len(pushed') /\ (count' = slots' \/ count' = Len(pushed'))
      BY <2>1, <2>3, <2>5, <2>7, <2>8
    <3> QED BY <3>1, <2>9, Zenon DEF Recent
  <2> QED BY <2>6, <2>10 DEF RingInv
<1> QED BY <1>1, <1>2 DEF RingNext

\* The slots that last(n) visits are the slots of the most recent events.
LEMMA LastSlot ==
  ASSUME RingInv, NEW n \in Nat, NEW i \in 1 .. last_length(n)
  PROVE  last_slot(n, i - 1) = Slot(last_length(n) - i + 1)
<1> DEFINE k == last_length(n)
<1>1. /\ slots \in Nat \ {0} /\ next \in 0 .. slots - 1 /\ count \in 0 .. slots
  BY DEF RingInv, RingTypeOK
<1>2. k \in 1 .. slots /\ i \in 1 .. k
  BY <1>1 DEF last_length
<1> HIDE DEF k
<1> DEFINE x == next + slots - k
           f == x % slots
           y == f + (i - 1)
<1>3. x \in 0 .. 2 * slots - 1
  BY <1>1, <1>2
<1>4. (x < slots => f = x) /\ (~(x < slots) => f = x - slots)
  <2> HIDE DEF x
  <2> QED BY <1>1, <1>3, ModBelowTwice
<1> HIDE DEF f
<1>5. f \in 0 .. slots - 1 /\ y \in 0 .. 2 * slots - 1
  BY <1>1, <1>2, <1>4
<1>6. (y < slots => y % slots = y) /\ (~(y < slots) => y % slots = y - slots)
  <2> HIDE DEF y
  <2> QED BY <1>1, <1>5, ModBelowTwice
<1>7. y % slots = Slot(k - i + 1)
  BY <1>1, <1>2, <1>4, <1>5, <1>6 DEF Slot
<1> QED BY <1>7 DEF last_slot, k, f

\* The invariant gives the property: last(n) is the end of the history.
LEMMA RecentGivesLast == RingInv => LastIsRecent
<1> SUFFICES ASSUME RingInv PROVE LastIsRecent
  OBVIOUS
<1>1. /\ slots \in Nat \ {0} /\ count \in 0 .. slots
      /\ pushed \in Seq(Events) /\ Len(pushed) \in Nat
  BY LenProperties DEF RingInv, RingTypeOK
<1>2. /\ count <= Len(pushed) /\ (count = slots \/ count = Len(pushed))
      /\ \A i \in 1 .. count : entries[Slot(i)] = pushed[Len(pushed) - i + 1]
  BY DEF RingInv, Recent
<1>3. ASSUME NEW n \in 0 .. slots + 1
      PROVE  last(n) = SubSeq(pushed, Len(pushed) - last_length(n) + 1, Len(pushed))
  <2> DEFINE k == last_length(n)
             s == SubSeq(pushed, Len(pushed) - k + 1, Len(pushed))
  <2>1. k \in 0 .. count
    BY <1>1 DEF last_length
  <2>2. s = [i \in 1 .. k |-> pushed[Len(pushed) - k + i]]
    <3> HIDE DEF k
    <3>1. Len(pushed) - (Len(pushed) - k + 1) + 1 = k
      BY <1>1, <2>1
    <3> QED BY <3>1, <1>1, <1>2, <2>1
  <2>3. ASSUME NEW i \in 1 .. k
        PROVE  entries[last_slot(n, i - 1)] = pushed[Len(pushed) - k + i]
    <3>1. last_slot(n, i - 1) = Slot(k - i + 1)
      BY LastSlot, <1>1
    <3> HIDE DEF k
    <3>2. k - i + 1 \in 1 .. count
      BY <1>1, <2>1
    <3>3. Len(pushed) - (k - i + 1) + 1 = Len(pushed) - k + i
      BY <1>1, <2>1
    <3> QED BY <1>2, <3>1, <3>2, <3>3
  <2>4. last(n) = [i \in 1 .. k |-> entries[last_slot(n, i - 1)]]
    BY DEF last
  <2> HIDE DEF k, s
  <2>5. last(n) = s
    BY <2>2, <2>3, <2>4
  <2> QED BY <2>5 DEF s, k
<1> QED BY <1>2, <1>3 DEF LastIsRecent

(***************************************************************************)
(* For every ring size and every sequence of commits, last(n) of the ring  *)
(* (main.cpp lines 126-135, state.c lines 27-58) shows the most recent     *)
(* events in order.                                                        *)
(***************************************************************************)
THEOREM RingShowsRecent == RingSpec => []LastIsRecent
<1>1. RingSpec => []RingInv
  BY InitRingInv, PushRingInv, PTL DEF RingSpec
<1> QED BY <1>1, RecentGivesLast, PTL

-----------------------------------------------------------------------------
(* The UART matcher *)

\* With a unique start no longer part of the text than the position ends the
\* output.
Longest ==
  UniqueStart /\ ~uart_expect_seen =>
    \A k \in 1 .. Len(uart_expect) : Ends(k) => k <= uart_expect_pos

UartInv == UartTypeOK /\ StopsOnlyAtText /\ Longest /\ FindsTextWithUniqueStart

-----------------------------------------------------------------------------
\* Nothing has been output, and no text has been found in it.
LEMMA InitUartInv == UartInit => UartInv
<1> SUFFICES ASSUME UartInit PROVE UartInv
  OBVIOUS
<1>1. PICK text \in Texts : set_uart_expect(text)
  BY DEF UartInit
<1>2. uart_expect \in Seq(Chars)
  BY <1>1, UartAssumption DEF Texts, set_uart_expect
<1>3. /\ uart_expect_pos = 0 /\ uart_expect_seen = FALSE
      /\ uart_eot = FALSE /\ out = << >> /\ Len(out) = 0
  BY <1>1 DEF UartInit, set_uart_expect
<1>4. Len(uart_expect) \in Nat /\ (uart_expect # << >> => Len(uart_expect) > 0)
  BY <1>2, EmptySeq, LenProperties
<1>5. UartTypeOK
  <2>1. out \in Seq(Chars)
    BY <1>3
  <2>2. uart_expect_pos \in 0 .. Len(uart_expect)
    BY <1>3, <1>4
  <2>3. ~uart_expect_seen /\ uart_expect # << >> => uart_expect_pos < Len(uart_expect)
    BY <1>3, <1>4
  <2> QED BY <1>2, <1>3, <2>1, <2>2, <2>3, Zenon DEF UartTypeOK
<1>6. StopsOnlyAtText
  BY <1>3 DEF StopsOnlyAtText, Ends
<1>7. Longest
  BY <1>3, <1>4 DEF Longest, Ends
<1>8. FindsTextWithUniqueStart
  BY <1>3, <1>4 DEF FindsTextWithUniqueStart, Occurs, UniqueStart
<1> QED BY <1>5, <1>6, <1>7, <1>8 DEF UartInv

\* What the output ends with after one more byte.
LEMMA EndsAppend ==
  ASSUME UartTypeOK, NEW ch \in Chars, out' = Append(out, ch), uart_expect' = uart_expect,
         NEW k \in 1 .. Len(uart_expect)
  PROVE  Ends(k)' <=> Ends(k - 1) /\ ch = uart_expect[k]
<1>1. /\ out \in Seq(Chars) /\ Len(out) \in Nat /\ Len(uart_expect) \in Nat
      /\ Len(out') = Len(out) + 1 /\ out'[Len(out) + 1] = ch
      /\ \A j \in 1 .. Len(out) : out'[j] = out[j]
  BY AppendProperties, LenProperties DEF UartTypeOK
<1>2. ASSUME k <= Len(out) + 1, NEW i \in 1 .. k - 1
      PROVE  out'[Len(out') - k + i] = out[Len(out) - (k - 1) + i]
  <2>1. Len(out') - k + i = Len(out) - (k - 1) + i
    BY <1>1
  <2>2. Len(out) - (k - 1) + i \in 1 .. Len(out)
    BY <1>1, <1>2
  <2> QED BY <2>1, <2>2, <1>1
<1>3. Len(out') - k + k = Len(out) + 1
  BY <1>1
<1>4. ASSUME Ends(k)' PROVE Ends(k - 1) /\ ch = uart_expect[k]
  <2>1. /\ k <= Len(out')
        /\ \A i \in 1 .. k : out'[Len(out') - k + i] = uart_expect[i]
    BY <1>4 DEF Ends
  <2>2. k - 1 <= Len(out) /\ k <= Len(out) + 1
    BY <1>1, <2>1
  <2>3. ch = uart_expect[k]
    BY <1>1, <1>3, <2>1
  <2>4. \A i \in 1 .. k - 1 : out[Len(out) - (k - 1) + i] = uart_expect[i]
    BY <1>2, <2>1, <2>2
  <2> QED BY <2>2, <2>3, <2>4 DEF Ends
<1>5. ASSUME Ends(k - 1), ch = uart_expect[k] PROVE Ends(k)'
  <2>1. /\ k - 1 <= Len(out)
        /\ \A i \in 1 .. k - 1 : out[Len(out) - (k - 1) + i] = uart_expect[i]
    BY <1>5 DEF Ends
  <2>2. k <= Len(out) + 1 /\ k <= Len(out')
    BY <1>1, <2>1
  <2>3. ASSUME NEW i \in 1 .. k PROVE out'[Len(out') - k + i] = uart_expect[i]
    <3>1. CASE i = k
      BY <3>1, <1>1, <1>3, <1>5
    <3>2. CASE i # k
      <4>1. i \in 1 .. k - 1
        BY <3>2
      <4> QED BY <4>1, <1>2, <2>1, <2>2
    <3> QED BY <3>1, <3>2
  <2> QED BY <2>2, <2>3 DEF Ends
<1> QED BY <1>4, <1>5

\* A byte is matched: type, soundness, and the two invariants of a unique start.
LEMMA MatchUartInv ==
  ASSUME UartInv, ~uart_expect_seen, NEW ch \in Chars, match(ch),
         uart_eot' = (uart_eot \/ ch = EOT), out' = Append(out, ch),
         uart_expect' = uart_expect
  PROVE  UartInv'
<1> DEFINE e == uart_expect
<1>0. PICK p : p = uart_expect_pos
  OBVIOUS
<1>1. /\ UartTypeOK /\ StopsOnlyAtText /\ Longest /\ FindsTextWithUniqueStart
      /\ uart_expect_seen = FALSE
  <2>1. UartTypeOK /\ StopsOnlyAtText /\ Longest /\ FindsTextWithUniqueStart
    BY DEF UartInv
  <2>2. uart_expect_seen \in BOOLEAN
    BY <2>1, Zenon DEF UartTypeOK
  <2> QED BY <2>1, <2>2
<1>2. /\ e \in Seq(Chars) /\ out \in Seq(Chars) /\ Len(e) \in Nat /\ Len(out) \in Nat
      /\ p \in 0 .. Len(e) /\ (e # << >> => p < Len(e) /\ Len(e) > 0)
      /\ (e = << >> => Len(e) = 0)
  BY <1>0, <1>1, EmptySeq, LenProperties DEF UartTypeOK
<1>3. /\ out' \in Seq(Chars) /\ Len(out') = Len(out) + 1
      /\ \A j \in 1 .. Len(out) : out'[j] = out[j]
  BY <1>2, AppendProperties
<1>4. uart_eot' \in BOOLEAN
  BY Zenon DEF UartInv, UartTypeOK
<1>5. CASE e = << >>
  <2>1. uart_expect_pos' = 0 /\ uart_expect_seen' = FALSE
    BY <1>0, <1>1, <1>2, <1>5 DEF match
  <2>2. UartTypeOK'
    <3>1. uart_expect' \in Seq(Chars) /\ uart_expect_pos' \in 0 .. Len(uart_expect')
      BY <1>2, <2>1
    <3> QED BY <1>3, <1>4, <1>5, <2>1, <3>1, Zenon DEF UartTypeOK
  <2>3. StopsOnlyAtText'
    BY <1>3, <1>2, <2>1 DEF StopsOnlyAtText, Ends
  <2>4. Longest' /\ FindsTextWithUniqueStart'
    BY <1>5 DEF Longest, FindsTextWithUniqueStart, UniqueStart
  <2> QED BY <2>2, <2>3, <2>4 DEF UartInv
<1>6. CASE e # << >>
  <2>1. /\ uart_expect_pos' = next_pos(ch)
        /\ uart_expect_seen' = (ch = e[p + 1] /\ p + 1 = Len(e))
    BY <1>0, <1>1, <1>6, Zenon DEF match
  <2>2. /\ p + 1 \in 1 .. Len(e) /\ 1 \in 1 .. Len(e)
    BY <1>2, <1>6
  <2>3. Ends(p)
    BY <1>0, <1>1 DEF StopsOnlyAtText
  <2>4. /\ ch = e[p + 1] => uart_expect_pos' = p + 1
        /\ ch # e[p + 1] /\ ch = e[1] => uart_expect_pos' = 1
        /\ ch # e[p + 1] /\ ch # e[1] => uart_expect_pos' = 0
    BY <1>0, <2>1, Zenon DEF next_pos
  <2>5. UartTypeOK'
    <3>1. uart_expect_pos' \in 0 .. Len(e)
      BY <1>2, <2>2, <2>4
    <3>2. ~uart_expect_seen' => uart_expect_pos' < Len(e)
      <4>1. CASE ch = e[p + 1]
        <5>1. uart_expect_seen' <=> p + 1 = Len(e)
          BY <4>1, <2>1
        <5> QED BY <4>1, <5>1, <2>2, <2>4
      <4>2. CASE ch # e[p + 1] /\ ch = e[1]
        <5>1. p # 0
          BY <4>2
        <5> QED BY <4>2, <5>1, <1>2, <1>6, <2>4
      <4>3. CASE ch # e[p + 1] /\ ch # e[1]
        BY <4>3, <1>2, <1>6, <2>4
      <4> QED BY <4>1, <4>2, <4>3
    <3>3. uart_expect_seen' \in BOOLEAN
      BY <2>1, Zenon
    <3> QED BY <1>2, <1>3, <1>4, <3>1, <3>2, <3>3, Zenon DEF UartTypeOK
  <2>6. Ends(uart_expect_pos)'
    <3>1. CASE ch = e[p + 1]
      <4>0. PICK q \in 1 .. Len(e) : q = p + 1
        BY <2>2
      <4>1. Ends(q - 1) /\ ch = e[q]
        <5>1. q - 1 = p
          BY <4>0, <1>2
        <5> QED BY <3>1, <4>0, <5>1, <2>3
      <4>2. Ends(q)'
        BY <4>1, <1>1, EndsAppend
      <4> QED BY <3>1, <4>0, <4>2, <2>4 DEF Ends
    <3>2. CASE ch # e[p + 1] /\ ch = e[1]
      <4>1. Ends(1 - 1)
        BY <1>2 DEF Ends
      <4>2. Ends(1)'
        BY <3>2, <4>1, <2>2, <1>1, EndsAppend
      <4> QED BY <3>2, <4>2, <2>4 DEF Ends
    <3>3. CASE ch # e[p + 1] /\ ch # e[1]
      BY <3>3, <2>4, <1>2, <1>3 DEF Ends
    <3> QED BY <3>1, <3>2, <3>3
  <2>7. StopsOnlyAtText'
    <3>1. uart_expect_seen' => uart_expect_pos' = Len(uart_expect')
      BY <2>1, <2>4
    <3>2. uart_expect_seen' => Ends(Len(uart_expect))'
      BY <3>1, <2>6 DEF Ends
    <3>3. uart_expect_seen' => Occurs'
      <4>1. Len(out') \in Len(uart_expect') .. Len(out') <=> Len(uart_expect') <= Len(out')
        BY <1>2, <1>3
      <4> QED BY <3>2, <4>1 DEF Ends, Occurs
    <3> QED BY <2>6, <3>3, <1>6 DEF StopsOnlyAtText
  <2>8. ASSUME UniqueStart, NEW k \in 1 .. Len(e), Ends(k)'
        PROVE  k <= uart_expect_pos'
    <3>1. Ends(k - 1) /\ ch = e[k]
      BY <2>8, <1>1, EndsAppend
    <3>2. CASE k = 1
      BY <3>1, <3>2, <1>2, <2>4
    <3>3. CASE k # 1
      <4>1. k - 1 \in 1 .. Len(e)
        BY <3>3, <1>2
      <4>2. k - 1 <= p
        BY <4>1, <3>1, <2>8, <1>0, <1>1 DEF Longest
      <4>3. CASE k - 1 = p
        BY <4>3, <3>1, <1>2, <2>4
      <4>4. CASE k - 1 < p
        <5>1. out[Len(out) - (k - 1) + 1] = e[1]
          <6>1. 1 \in 1 .. k - 1
            BY <4>1
          <6> QED BY <3>1, <6>1 DEF Ends
        <5>2. p - (k - 1) + 1 \in 2 .. Len(e) /\ p - (k - 1) + 1 \in 1 .. p
          BY <4>4, <4>1, <1>2
        <5>3. out[Len(out) - p + (p - (k - 1) + 1)] = e[p - (k - 1) + 1]
          BY <5>2, <2>3 DEF Ends
        <5>4. Len(out) - p + (p - (k - 1) + 1) = Len(out) - (k - 1) + 1
          BY <1>2
        <5>5. e[p - (k - 1) + 1] # e[1]
          BY <5>2, <2>8 DEF UniqueStart
        <5> QED BY <5>1, <5>3, <5>4, <5>5
      <4> QED BY <4>2, <4>3, <4>4, <1>2
    <3> QED BY <3>2, <3>3
  <2>9. Longest'
    BY <2>8 DEF Longest, UniqueStart
  <2>10. FindsTextWithUniqueStart'
    <3> SUFFICES ASSUME UniqueStart, Occurs', uart_expect_seen' = FALSE PROVE FALSE
      <4>1. uart_expect_seen' \in BOOLEAN
        BY <2>1, Zenon
      <4> QED BY <4>1 DEF FindsTextWithUniqueStart, UniqueStart
    <3>1. PICK n \in Len(e) .. Len(out') :
            \A i \in 1 .. Len(e) : out'[n - Len(e) + i] = e[i]
      BY DEF Occurs
    <3>2. CASE n = Len(out')
      <4>0. PICK k \in 1 .. Len(e) : k = Len(e)
        BY <1>2, <1>6
      <4>1. Ends(k)'
        <5>1. k <= Len(out')
          BY <4>0, <1>2, <1>3
        <5>2. \A i \in 1 .. k : out'[Len(out') - k + i] = e[i]
          BY <3>1, <3>2, <4>0
        <5> QED BY <5>1, <5>2 DEF Ends
      <4>2. Len(e) <= uart_expect_pos'
        BY <4>0, <4>1, <2>8
      <4>3. uart_expect_pos' < Len(e)
        BY <2>5, <1>6 DEF UartTypeOK
      <4> QED BY <4>2, <4>3, <2>5, <1>2 DEF UartTypeOK
    <3>3. CASE n # Len(out')
      <4>1. n \in Len(e) .. Len(out)
        BY <3>3, <3>1, <1>2, <1>3
      <4>2. ASSUME NEW i \in 1 .. Len(e) PROVE out[n - Len(e) + i] = e[i]
        <5>1. n - Len(e) + i \in 1 .. Len(out)
          BY <4>1, <1>2
        <5> QED BY <5>1, <3>1, <1>3
      <4>3. Occurs
        BY <4>1, <4>2 DEF Occurs
      <4> QED BY <4>3, <1>1 DEF FindsTextWithUniqueStart
    <3> QED BY <3>2, <3>3
  <2> QED BY <2>5, <2>7, <2>9, <2>10 DEF UartInv
<1> QED BY <1>5, <1>6

\* Output after the text was seen: what occurred in it still does.
LEMMA SeenUartInv ==
  ASSUME UartInv, uart_expect_seen, NEW ch \in Chars, match(ch),
         uart_eot' = (uart_eot \/ ch = EOT), out' = Append(out, ch),
         uart_expect' = uart_expect
  PROVE  UartInv'
<1> DEFINE e == uart_expect
<1>1. /\ e \in Seq(Chars) /\ out \in Seq(Chars) /\ e # << >> /\ Occurs
      /\ Len(e) \in Nat /\ Len(out) \in Nat
      /\ uart_expect_pos \in 0 .. Len(e)
  BY LenProperties DEF UartInv, UartTypeOK, StopsOnlyAtText
<1>2. /\ out' \in Seq(Chars) /\ Len(out') = Len(out) + 1
      /\ \A j \in 1 .. Len(out) : out'[j] = out[j]
  BY <1>1, AppendProperties
<1>3. uart_expect_pos' = uart_expect_pos /\ uart_expect_seen' = uart_expect_seen
  BY DEF match
<1>4. UartTypeOK'
  <2>1. uart_eot' \in BOOLEAN
    BY Zenon DEF UartInv, UartTypeOK
  <2>2. uart_expect_seen' \in BOOLEAN /\ uart_expect_seen'
    BY <1>3, Zenon DEF UartInv, UartTypeOK
  <2>3. uart_expect_pos' \in 0 .. Len(uart_expect')
    BY <1>1, <1>3
  <2> QED BY <1>1, <1>2, <2>1, <2>2, <2>3, Zenon DEF UartTypeOK
<1>5. Occurs'
  <2>1. PICK n \in Len(e) .. Len(out) : \A i \in 1 .. Len(e) : out[n - Len(e) + i] = e[i]
    BY <1>1 DEF Occurs
  <2>2. n \in Len(e) .. Len(out')
    BY <1>1, <1>2
  <2>3. ASSUME NEW i \in 1 .. Len(e) PROVE out'[n - Len(e) + i] = e[i]
    <3>1. n - Len(e) + i \in 1 .. Len(out)
      BY <1>1
    <3> QED BY <3>1, <1>2, <2>1
  <2> QED BY <2>2, <2>3 DEF Occurs
<1>6. StopsOnlyAtText' /\ Longest' /\ FindsTextWithUniqueStart'
  BY <1>1, <1>3, <1>5 DEF StopsOnlyAtText, Longest, FindsTextWithUniqueStart
<1> QED BY <1>4, <1>6 DEF UartInv

\* Only a store to the transmit register changes anything.
LEMMA NextUartInv == UartInv /\ [UartNext]_uartVars => UartInv'
<1> SUFFICES ASSUME UartInv, [UartNext]_uartVars PROVE UartInv'
  OBVIOUS
<1>1. CASE UNCHANGED uartVars
  BY <1>1 DEF uartVars, UartInv, UartTypeOK, StopsOnlyAtText, Longest,
              FindsTextWithUniqueStart, UniqueStart, Occurs, Ends
<1>2. ASSUME NEW at_base \in BOOLEAN, NEW ch \in Chars,
             commit_mmio_write(at_base, ch)
      PROVE  UartInv'
  <2>1. CASE at_base = TRUE
    BY <1>2, <2>1, MatchUartInv, SeenUartInv DEF commit_mmio_write
  <2>2. CASE at_base = FALSE
    BY <1>1, <1>2, <2>2 DEF commit_mmio_write, uartVars
  <2> QED BY <2>1, <2>2
<1> QED BY <1>1, <1>2 DEF UartNext

(***************************************************************************)
(* For every expected text and every output, the run stops for the text    *)
(* only when the text was output (memory.cpp lines 186-205).               *)
(***************************************************************************)
THEOREM StopIsSound == UartSpec => []StopsOnlyAtText
<1>1. UartSpec => []UartInv
  BY InitUartInv, NextUartInv, PTL DEF UartSpec
<1>2. UartInv => StopsOnlyAtText
  BY DEF UartInv
<1> QED BY <1>1, <1>2, PTL

(***************************************************************************)
(* For every expected text whose first character does not come again in    *)
(* it, and every output, the run does stop for the text.                   *)
(***************************************************************************)
THEOREM StopIsComplete == UartSpec => []FindsTextWithUniqueStart
<1>1. UartSpec => []UartInv
  BY InitUartInv, NextUartInv, PTL DEF UartSpec
<1>2. UartInv => FindsTextWithUniqueStart
  BY DEF UartInv
<1> QED BY <1>1, <1>2, PTL

-----------------------------------------------------------------------------
(* The simulator *)

Ops == {"idle", "exited", "spec", "step", "to", "until"}

CmdOK ==
  /\ cmd \in [op : Ops, left : Nat, target : Pcs, retired : BOOLEAN]
  /\ Running => result = "none"

BreaksOK ==
  /\ breaks \subseteq Pcs /\ IsFiniteSet(breaks) /\ Cardinality(breaks) <= MaxBreaks
  /\ cmd.retired => Running /\ pc \notin breaks

CoreOK == cycles \in 0 .. MaxCycles /\ pc \in Pcs /\ halted \in BOOLEAN

EotOK == uart_eot => \E i \in DOMAIN out : out[i] = EOT

(***************************************************************************)
(* The reference keeps up with the core, event by event, until a stop for  *)
(* the UART, after which it is never asked again (main.cpp lines 232-233   *)
(* return before the comparison), or a difference.                         *)
(***************************************************************************)
RefOK ==
  /\ ref.count \in 0 .. Len(pushed) /\ ref.ended \in BOOLEAN
  /\ setup.difftest /\ ~uart_eot /\ ~uart_expect_seen /\ ~differed =>
       /\ same
       /\ ~ref.ended => ref.count = Len(pushed)
       /\ ref.ended => \A i \in ref.count + 1 .. Len(pushed) : pushed[i] = ref.last

BoolOK == same \in BOOLEAN /\ differed \in BOOLEAN

SimInv ==
  /\ setup \in Setups /\ RingInv /\ UartInv
  /\ CmdOK /\ BreaksOK /\ CoreOK /\ EotOK /\ RefOK /\ BoolOK /\ VerdictIsEarned

-----------------------------------------------------------------------------
\* The simulator starts with nothing retired and nothing output.
LEMMA InitSimInv == SimInit => SimInv
<1> SUFFICES ASSUME SimInit PROVE SimInv
  OBVIOUS
<1>1. setup \in Setups /\ RingInv /\ UartInv
  BY InitRingInv, InitUartInv DEF SimInit
<1>2. pushed = << >> /\ Len(pushed) = 0 /\ uart_eot = FALSE /\ uart_expect_seen = FALSE
  BY DEF SimInit, RingInit, UartInit, set_uart_expect
<1>3. cmd \in {NoCmd, SpecOp} /\ result = "none" /\ breaks = {}
  BY DEF SimInit
<1>4. CmdOK
  <2>1. NoCmd \in [op : Ops, left : Nat, target : Pcs, retired : BOOLEAN]
    BY SimAssumption DEF NoCmd, Ops
  <2>2. SpecOp \in [op : Ops, left : Nat, target : Pcs, retired : BOOLEAN]
    BY SimAssumption DEF SpecOp, NoCmd, Ops
  <2> QED BY <1>3, <2>1, <2>2 DEF CmdOK
<1>5. BreaksOK
  <2>1. IsFiniteSet(breaks) /\ Cardinality(breaks) = 0
    BY <1>3, FS_EmptySet
  <2>2. cmd.retired = FALSE
    BY <1>3 DEF NoCmd, SpecOp
  <2> QED BY <2>1, <2>2, <1>3, SimAssumption DEF BreaksOK
<1>6. CoreOK
  <2>1. cycles \in 0 .. MaxCycles /\ pc \in Pcs
    BY SimAssumption DEF SimInit
  <2>2. halted \in BOOLEAN
    BY Zenon DEF SimInit
  <2> QED BY <2>1, <2>2, Zenon DEF CoreOK
<1>7. EotOK /\ RefOK /\ BoolOK
  <2>1. EotOK
    BY <1>2 DEF EotOK
  <2>2. ref.count = 0 /\ ref.ended = FALSE
    BY DEF SimInit
  <2>3. same = TRUE /\ differed = FALSE
    BY DEF SimInit
  <2>4. 0 \in 0 .. Len(pushed)
    BY <1>2
  <2>5. RefOK
    BY <1>2, <2>2, <2>3, <2>4, Zenon DEF RefOK
  <2>6. BoolOK
    BY <2>3, Zenon DEF BoolOK
  <2> QED BY <2>1, <2>5, <2>6
<1>8. VerdictIsEarned
  BY <1>3 DEF VerdictIsEarned
<1> QED BY <1>1, <1>4, <1>5, <1>6, <1>7, <1>8 DEF SimInv

\* A byte for the UART keeps what the matcher guarantees, and an end of
\* transmission that was seen is in the output (memory.cpp lines 186-205).
LEMMA ByteUart ==
  ASSUME UartInv, EotOK, NEW ch \in Chars, commit_mmio_write(TRUE, ch)
  PROVE  UartInv' /\ EotOK'
<1>1. /\ match(ch) /\ uart_eot' = (uart_eot \/ ch = EOT)
      /\ out' = Append(out, ch) /\ uart_expect' = uart_expect
  BY DEF commit_mmio_write
<1>2. UartInv'
  BY <1>1, MatchUartInv, SeenUartInv
<1>3. out \in Seq(Chars) /\ Len(out) \in Nat /\ DOMAIN out = 1 .. Len(out)
  BY LenProperties DEF UartInv, UartTypeOK
<1>4. /\ DOMAIN out' = 1 .. Len(out) + 1 /\ out'[Len(out) + 1] = ch
      /\ \A j \in 1 .. Len(out) : out'[j] = out[j]
  BY <1>1, <1>3, AppendProperties, LenProperties
<1>5. ASSUME uart_eot' PROVE \E i \in DOMAIN out' : out'[i] = EOT
  <2>1. CASE ch = EOT
    BY <1>3, <1>4, <2>1
  <2>2. CASE ch # EOT
    <3>1. uart_eot
      BY <1>1, <1>5, <2>2, Zenon
    <3>2. PICK i \in 1 .. Len(out) : out[i] = EOT
      BY <1>3, <3>1 DEF EotOK
    <3> QED BY <3>2, <1>3, <1>4
  <2> QED BY <2>1, <2>2
<1> QED BY <1>2, <1>5 DEF EotOK

\* Steps that leave the UART alone.
LEMMA SameUart ==
  ASSUME UartInv, EotOK, UNCHANGED uartVars
  PROVE  UartInv' /\ EotOK'
<1>1. UartInv'
  BY NextUartInv
<1>2. EotOK'
  BY DEF EotOK, uartVars
<1> QED BY <1>1, <1>2

\* Steps that leave the ring alone.
LEMMA SameRing ==
  ASSUME RingInv, UNCHANGED ringVars
  PROVE  RingInv'
BY PushRingInv

Quiet == UNCHANGED <<ringVars, uartVars, refVars, setup>>

\* Commands, and cycles in which nothing retires, change neither the histories
\* nor the reference.
LEMMA QuietParts ==
  ASSUME SimInv, Quiet
  PROVE  /\ setup' \in Setups /\ RingInv' /\ UartInv'
         /\ EotOK' /\ RefOK' /\ BoolOK'
<1>1. UNCHANGED ringVars /\ UNCHANGED uartVars /\ UNCHANGED refVars /\ setup' = setup
  BY DEF Quiet
<1>2. RingInv' /\ UartInv' /\ EotOK' /\ setup' \in Setups
  BY <1>1, SameRing, SameUart DEF SimInv
<1>3. /\ pushed' = pushed /\ ref' = ref /\ same' = same /\ differed' = differed
      /\ uart_eot' = uart_eot /\ uart_expect_seen' = uart_expect_seen
  BY <1>1 DEF ringVars, uartVars, refVars
<1>4. RefOK' /\ BoolOK'
  <2>1. RefOK /\ BoolOK
    BY DEF SimInv
  <2> QED BY <1>1, <1>3, <2>1, Zenon DEF RefOK, BoolOK
<1> QED BY <1>2, <1>4

\* A quiet step has a verdict only if the result is that of the command before.
LEMMA QuietVerdict ==
  ASSUME SimInv, Quiet, Good(result') => result' = result /\ ~Running
  PROVE  VerdictIsEarned'
<1>1. /\ pushed' = pushed /\ ref' = ref /\ same' = same /\ differed' = differed
      /\ out' = out /\ uart_expect' = uart_expect /\ setup' = setup
  BY DEF Quiet, ringVars, uartVars, refVars
<1>2. Occurs' = Occurs /\ Agreed' = Agreed
  BY <1>1 DEF Occurs, Agreed
<1>3. VerdictIsEarned
  BY DEF SimInv
<1>4. ASSUME result' = "uart_eot" PROVE \E i \in DOMAIN out' : out'[i] = EOT
  BY <1>1, <1>3, <1>4 DEF VerdictIsEarned, Good
<1>5. ASSUME result' = "uart_expect" PROVE uart_expect' # << >> /\ Occurs'
  BY <1>1, <1>2, <1>3, <1>5 DEF VerdictIsEarned, Good
<1>6. ASSUME result' = "good_trap"
      PROVE  /\ pushed' # << >> /\ pushed'[Len(pushed')] = "ebreak"
             /\ setup'.difftest /\ ~differed' => Agreed'
  BY <1>1, <1>2, <1>3, <1>6 DEF VerdictIsEarned, Good
<1> QED BY <1>4, <1>5, <1>6 DEF VerdictIsEarned

\* A command that ends leaves no command: the next one finds its own result.
LEMMA EndCmd ==
  ASSUME SimInv, NEW reason, End(reason)
  PROVE  CmdOK' /\ ~Running' /\ ~cmd'.retired
<1>1. cmd' = NoCmd /\ result' = reason
  BY DEF End
<1>2. cmd' \in [op : Ops, left : Nat, target : Pcs, retired : BOOLEAN]
  BY <1>1, SimAssumption DEF NoCmd, Ops
<1>3. ~Running' /\ ~cmd'.retired
  BY <1>1 DEF Running, NoCmd
<1> QED BY <1>2, <1>3 DEF CmdOK

\* The loop ends with "step_done" or the limit, or goes on; a command has
\* retired something once it did before or does now.
LEMMA AfterCmd ==
  ASSUME SimInv, Running, NEW c, NEW retired \in BOOLEAN, After(c, retired)
  PROVE  /\ CmdOK' /\ ~Good(result')
         /\ cmd'.retired => Running' /\ (cmd.retired \/ retired)
<1>0. cmd \in [op : Ops, left : Nat, target : Pcs, retired : BOOLEAN] /\ result = "none"
  BY DEF SimInv, CmdOK
<1>1. ASSUME End(Limit(c, "step_done"))
      PROVE  CmdOK' /\ ~Good(result') /\ ~cmd'.retired
  <2>1. result' \in {"cycle_limit", "step_done"}
    BY <1>1 DEF End, Limit
  <2> QED BY <1>1, <2>1, EndCmd DEF Good
<1>2. ASSUME cmd' = [cmd EXCEPT !.left = IF @ > 0 THEN @ - 1 ELSE @,
                                !.retired = @ \/ retired],
             result' = result
      PROVE  /\ CmdOK' /\ ~Good(result')
             /\ cmd'.retired => Running' /\ (cmd.retired \/ retired)
  <2>1. /\ cmd'.op = cmd.op /\ cmd'.retired = (cmd.retired \/ retired)
        /\ cmd' \in [op : Ops, left : Nat, target : Pcs, retired : BOOLEAN]
    <3> DEFINE n == IF cmd.left > 0 THEN cmd.left - 1 ELSE cmd.left
               b == cmd.retired \/ retired
    <3>1. n \in Nat
      BY <1>0
    <3>2. b \in BOOLEAN
      BY Zenon
    <3>3. cmd' = [cmd EXCEPT !.left = n, !.retired = b]
      BY <1>2
    <3> HIDE DEF n, b
    <3>4. /\ cmd'.op = cmd.op /\ cmd'.retired = b
          /\ cmd' \in [op : Ops, left : Nat, target : Pcs, retired : BOOLEAN]
      BY <1>0, <3>1, <3>2, <3>3
    <3> QED BY <3>4 DEF b
  <2>2. Running'
    BY <2>1 DEF Running
  <2> QED BY <1>0, <1>2, <2>1, <2>2 DEF CmdOK, Good
<1> QED BY <1>1, <1>2 DEF After

\* A retired instruction goes into the ring and, if it is a store to the
\* transmit register, to the UART, whose flags stay set.
LEMMA RetireParts ==
  ASSUME SimInv, NEW ev \in setup.insts, NEW p \in Pcs, NEW vector \in BOOLEAN, NEW a0,
         cycles < MaxCycles, Retire(ev, p, vector, a0)
  PROVE  /\ RingInv' /\ UartInv' /\ EotOK' /\ CoreOK'
         /\ uart_eot => uart_eot'
         /\ uart_expect_seen => uart_expect_seen'
         /\ Len(pushed) \in Nat /\ Len(pushed') = Len(pushed) + 1 /\ pushed' # << >>
         /\ pushed'[Len(pushed) + 1] = ev
         /\ \A j \in 1 .. Len(pushed) : pushed'[j] = pushed[j]
<1>1. ev \in Events
  BY SimAssumption DEF SimInv
<1>2. /\ Len(pushed) < MaxPush /\ push(ev) /\ pushed' = Append(pushed, ev)
      /\ cycles' = cycles + 1
      /\ IF ev \in Chars THEN commit_mmio_write(TRUE, ev) ELSE UNCHANGED uartVars
      /\ halted' = (ev \in {"ebreak", "trap"} /\ ~vector)
      /\ pc' = IF halted' THEN pc ELSE p
  BY DEF Retire
<1>3. RingInv'
  <2>1. RingNext
    BY <1>1, <1>2 DEF RingNext
  <2> QED BY <2>1, PushRingInv DEF SimInv
<1>4. UartInv' /\ EotOK'
  BY <1>2, ByteUart, SameUart DEF SimInv
<1>5. CoreOK'
  <2>1. CoreOK
    BY DEF SimInv
  <2>2. cycles' \in 0 .. MaxCycles /\ pc' \in Pcs
    BY <1>2, <2>1, SimAssumption DEF CoreOK
  <2>3. halted' \in BOOLEAN
    BY <1>2, Zenon
  <2> QED BY <2>2, <2>3, Zenon DEF CoreOK
<1>6. (uart_eot => uart_eot') /\ (uart_expect_seen => uart_expect_seen')
  <2>1. CASE ev \in Chars
    <3>1. match(ev) /\ uart_eot' = (uart_eot \/ ev = EOT)
      BY <1>2, <2>1 DEF commit_mmio_write
    <3> QED BY <3>1 DEF match
  <2>2. CASE ev \notin Chars
    BY <1>2, <2>2 DEF uartVars
  <2> QED BY <2>1, <2>2
<1>7. /\ Len(pushed) \in Nat /\ Len(pushed') = Len(pushed) + 1
      /\ pushed'[Len(pushed) + 1] = ev /\ pushed' \in Seq(Events)
      /\ \A j \in 1 .. Len(pushed) : pushed'[j] = pushed[j]
  BY <1>1, <1>2, AppendProperties, LenProperties DEF SimInv, RingInv, RingTypeOK
<1>8. pushed' # << >>
  BY <1>7, EmptySeq
<1> QED BY <1>3, <1>4, <1>5, <1>6, <1>7, <1>8

\* A comparison that agrees keeps the reference in step with the core, or on
\* its last event when it has ended (difftest.cpp lines 85-103).
LEMMA DiffStep ==
  ASSUME SimInv, NEW ev, NEW agrees \in BOOLEAN, difftest_step(ev, agrees),
         setup' = setup, ~uart_eot, ~uart_expect_seen,
         Len(pushed) \in Nat, Len(pushed') = Len(pushed) + 1,
         pushed'[Len(pushed) + 1] = ev,
         \A j \in 1 .. Len(pushed) : pushed'[j] = pushed[j]
  PROVE  /\ RefOK' /\ BoolOK'
         /\ ~differed' => ~differed
         /\ setup.difftest /\ ~differed' => same' /\ ref'.last = ev /\ ref'.count \in Nat
              /\ \A i \in ref'.count + 1 .. Len(pushed') : pushed'[i] = ref'.last
<1>1. PICK r \in {ev, "inst", "ebreak"}, replay_ok \in BOOLEAN, aborts \in BOOLEAN :
        /\ ref' = IF ref.ended THEN ref
                  ELSE [count |-> ref.count + 1, last |-> r,
                        ended |-> r = "ebreak" \/ (r = "trap" /\ aborts)]
        /\ agrees = (replay_ok /\ ref'.last = ev)
        /\ same' = (same /\ (ref.ended \/ r = pushed'[ref.count + 1]))
        /\ differed' = (differed \/ ~agrees)
  BY DEF difftest_step
<1>2. RefOK /\ BoolOK
  BY DEF SimInv
<1>3. ref.count \in 0 .. Len(pushed) /\ ref.ended \in BOOLEAN
  BY <1>2, Zenon DEF RefOK
<1>4. BoolOK'
  BY <1>1, <1>2, Zenon DEF BoolOK
<1>5. ~differed' => ~differed /\ agrees /\ ref'.last = ev
  BY <1>1, Zenon
<1>6. CASE ref.ended = TRUE
  <2>1. ref' = ref /\ same' = same
    BY <1>1, <1>2, <1>6, Zenon DEF BoolOK
  <2>2. ref'.count \in 0 .. Len(pushed') /\ ref'.ended \in BOOLEAN
    BY <1>3, <2>1
  <2>3. ASSUME setup.difftest, ~differed'
        PROVE  same' /\ \A i \in ref'.count + 1 .. Len(pushed') : pushed'[i] = ref'.last
    <3>1. same /\ \A i \in ref.count + 1 .. Len(pushed) : pushed[i] = ref.last
      BY <1>2, <1>5, <1>6, <2>3 DEF RefOK
    <3>2. ASSUME NEW i \in ref'.count + 1 .. Len(pushed')
          PROVE  pushed'[i] = ref'.last
      <4>1. CASE i = Len(pushed) + 1
        BY <4>1, <1>5, <2>3
      <4>2. CASE i # Len(pushed) + 1
        <5>1. i \in ref.count + 1 .. Len(pushed) /\ i \in 1 .. Len(pushed)
          BY <4>2, <1>3, <2>1
        <5> QED BY <5>1, <3>1, <2>1
      <4> QED BY <4>1, <4>2
    <3> QED BY <3>1, <3>2, <2>1
  <2>4. RefOK'
    BY <2>1, <2>2, <2>3, <1>6, Zenon DEF RefOK
  <2> QED BY <1>4, <1>5, <2>2, <2>3, <2>4
<1>7. CASE ref.ended = FALSE
  <2>1. ref' = [count |-> ref.count + 1, last |-> r,
                ended |-> r = "ebreak" \/ (r = "trap" /\ aborts)]
    BY <1>1, <1>7, Zenon
  <2>2. ref'.count = ref.count + 1 /\ ref'.last = r
    BY <2>1
  <2>3. ref'.ended \in BOOLEAN
    BY <2>1, Zenon
  <2>4. ref'.count \in 0 .. Len(pushed')
    BY <1>3, <2>2
  <2>5. ASSUME setup.difftest, ~differed'
        PROVE  same' /\ ref'.count = Len(pushed')
    <3>1. same /\ ref.count = Len(pushed)
      BY <1>2, <1>5, <1>7, <2>5 DEF RefOK
    <3>2. r = pushed'[ref.count + 1]
      BY <1>5, <2>2, <2>5, <3>1
    <3>3. same'
      BY <1>1, <3>1, <3>2, Zenon
    <3> QED BY <3>1, <3>3, <2>2
  <2>6. setup.difftest /\ ~differed' =>
          \A i \in ref'.count + 1 .. Len(pushed') : pushed'[i] = ref'.last
    BY <2>5
  <2>7. RefOK'
    BY <2>3, <2>4, <2>5, <2>6, Zenon DEF RefOK
  <2> QED BY <1>4, <1>5, <2>4, <2>5, <2>6, <2>7
<1> QED BY <1>3, <1>6, <1>7

\* The order of the tests after a retirement (main.cpp lines 229-270): UART,
\* reference, trap, breakpoint.  Whatever ends the command has happened, and a
\* command goes on only in front of an address without a breakpoint.
LEMMA RetireInv ==
  ASSUME SimInv, Running, NEW ev \in setup.insts, NEW p \in Pcs,
         NEW vector \in BOOLEAN, NEW a0,
         cycles < MaxCycles, Retire(ev, p, vector, a0), UNCHANGED <<setup, breaks>>
  PROVE  SimInv'
<1>1. /\ RingInv' /\ UartInv' /\ EotOK' /\ CoreOK'
      /\ uart_eot => uart_eot'
      /\ uart_expect_seen => uart_expect_seen'
      /\ Len(pushed) \in Nat /\ Len(pushed') = Len(pushed) + 1 /\ pushed' # << >>
      /\ pushed'[Len(pushed) + 1] = ev
      /\ \A j \in 1 .. Len(pushed) : pushed'[j] = pushed[j]
  BY RetireParts
<1>2. setup' \in Setups /\ setup' = setup /\ breaks' = breaks
  BY DEF SimInv
<1>3. /\ breaks' \subseteq Pcs /\ IsFiniteSet(breaks') /\ Cardinality(breaks') <= MaxBreaks
  BY <1>2 DEF SimInv, BreaksOK
<1>4. CASE uart_stop(ev) # "none"
  <2>1. End(uart_stop(ev)) /\ UNCHANGED refVars
    BY <1>4 DEF Retire
  <2>2. CmdOK' /\ ~Running' /\ ~cmd'.retired
    BY <2>1, EndCmd
  <2>3. \/ result' = "uart_eot" /\ uart_eot'
        \/ result' = "uart_expect" /\ uart_expect_seen'
    BY <2>1, <1>4 DEF End, uart_stop
  <2>4. RefOK' /\ BoolOK'
    <3>1. ref' = ref /\ same' = same /\ differed' = differed
      BY <2>1 DEF refVars
    <3>2. RefOK /\ BoolOK
      BY DEF SimInv
    <3>3. ref'.count \in 0 .. Len(pushed')
      BY <1>1, <3>1, <3>2 DEF RefOK
    <3> QED BY <2>3, <3>1, <3>2, <3>3, Zenon DEF RefOK, BoolOK
  <2>5. VerdictIsEarned'
    <3>1. CASE result' = "uart_eot" /\ uart_eot'
      BY <3>1, <1>1 DEF VerdictIsEarned, EotOK
    <3>2. CASE result' = "uart_expect" /\ uart_expect_seen'
      BY <3>2, <1>1 DEF VerdictIsEarned, UartInv, StopsOnlyAtText
    <3> QED BY <2>3, <3>1, <3>2
  <2>6. BreaksOK'
    BY <1>3, <2>2, Zenon DEF BreaksOK
  <2> QED BY <1>1, <1>2, <2>2, <2>4, <2>5, <2>6 DEF SimInv
<1>5. CASE uart_stop(ev) = "none"
  <2>1. ~uart_eot' /\ ~uart_expect_seen'
    BY <1>5 DEF uart_stop
  <2>2. ~uart_eot /\ ~uart_expect_seen
    BY <2>1, <1>1
  <2>3. PICK agrees \in BOOLEAN :
          /\ IF setup.difftest THEN difftest_step(ev, agrees)
             ELSE agrees = TRUE /\ UNCHANGED refVars
          /\ CASE ~agrees -> End("difftest_mismatch")
               [] agrees /\ trap_stop(ev, a0) # "none" -> End(trap_stop(ev, a0))
               [] agrees /\ trap_stop(ev, a0) = "none" -> After(cycles + 1, TRUE)
    BY <1>5 DEF Retire
  <2>4. /\ RefOK' /\ BoolOK'
        /\ setup.difftest /\ ~differed' => same' /\ ref'.last = ev /\ ref'.count \in Nat
             /\ \A i \in ref'.count + 1 .. Len(pushed') : pushed'[i] = ref'.last
    <3>1. CASE setup.difftest
      BY <3>1, <2>2, <2>3, <1>1, <1>2, DiffStep
    <3>2. CASE ~setup.difftest
      <4>1. ref' = ref /\ same' = same /\ differed' = differed
        BY <3>2, <2>3 DEF refVars
      <4>2. RefOK /\ BoolOK
        BY DEF SimInv
      <4>3. ref'.count \in 0 .. Len(pushed')
        BY <1>1, <4>1, <4>2 DEF RefOK
      <4> QED BY <3>2, <1>2, <4>1, <4>2, <4>3, Zenon DEF RefOK, BoolOK
    <3> QED BY <3>1, <3>2
  <2>5. ASSUME End("difftest_mismatch") PROVE SimInv'
    <3>1. CmdOK' /\ ~Running' /\ ~cmd'.retired /\ result' = "difftest_mismatch"
      BY <2>5, EndCmd DEF End
    <3>2. VerdictIsEarned'
      BY <3>1 DEF VerdictIsEarned
    <3>3. BreaksOK'
      BY <1>3, <3>1, Zenon DEF BreaksOK
    <3> QED BY <1>1, <1>2, <2>4, <3>1, <3>2, <3>3 DEF SimInv
  <2>6. ASSUME End(trap_stop(ev, a0)) PROVE SimInv'
    <3>1. CmdOK' /\ ~Running' /\ ~cmd'.retired /\ result' = trap_stop(ev, a0)
      BY <2>6, EndCmd DEF End
    <3>2. result' # "uart_eot" /\ result' # "uart_expect"
          /\ (result' = "good_trap" => ev = "ebreak")
      BY <3>1 DEF trap_stop
    <3>3. ASSUME ev = "ebreak"
          PROVE  /\ pushed' # << >> /\ pushed'[Len(pushed')] = "ebreak"
                 /\ setup'.difftest /\ ~differed' => Agreed'
      BY <3>3, <1>1, <1>2, <2>4 DEF Agreed
    <3>4. VerdictIsEarned'
      BY <3>2, <3>3, Zenon DEF VerdictIsEarned
    <3>5. BreaksOK'
      BY <1>3, <3>1, Zenon DEF BreaksOK
    <3> QED BY <1>1, <1>2, <2>4, <3>1, <3>4, <3>5 DEF SimInv
  <2>7. ASSUME trap_stop(ev, a0) = "none", After(cycles + 1, TRUE) PROVE SimInv'
    <3>1. /\ CmdOK' /\ ~Good(result')
          /\ cmd'.retired => Running'
      BY <2>7, AfterCmd
    <3>2. pc' \notin breaks'
      <4>1. ev # "ebreak" /\ ~(ev = "trap" /\ halted')
        BY <2>7 DEF trap_stop
      <4>2. halted' => ev \in {"ebreak", "trap"}
        BY DEF Retire
      <4>3. ~halted'
        BY <4>1, <4>2
      <4> QED BY <4>1, <4>3, <1>2, <2>7 DEF trap_stop, breakpoint_hit
    <3>3. BreaksOK'
      BY <1>3, <3>1, <3>2, Zenon DEF BreaksOK
    <3>4. VerdictIsEarned'
      BY <3>1 DEF VerdictIsEarned, Good
    <3> QED BY <1>1, <1>2, <2>4, <3>1, <3>3, <3>4 DEF SimInv
  <2> QED BY <2>3, <2>5, <2>6, <2>7
<1> QED BY <1>4, <1>5

\* Breakpoints come and go only between commands, up to the room there is
\* (main.cpp lines 282-300).
LEMMA BreakSets ==
  ASSUME SimInv, ~Running,
         \/ \E p \in Pcs : add_breakpoint(p)
         \/ \E p \in breaks : breaks' = breaks \ {p}
         \/ breaks' = {}
  PROVE  breaks' \subseteq Pcs /\ IsFiniteSet(breaks') /\ Cardinality(breaks') <= MaxBreaks
<1>1. /\ breaks \subseteq Pcs /\ IsFiniteSet(breaks) /\ Cardinality(breaks) <= MaxBreaks
      /\ Cardinality(breaks) \in Nat /\ MaxBreaks \in Nat
  BY FS_CardinalityType, SimAssumption DEF SimInv, BreaksOK
<1>2. ASSUME NEW p \in Pcs, add_breakpoint(p)
      PROVE  breaks' \subseteq Pcs /\ IsFiniteSet(breaks') /\ Cardinality(breaks') <= MaxBreaks
  <2>1. CASE Cardinality(breaks) >= MaxBreaks
    BY <1>1, <1>2, <2>1 DEF add_breakpoint
  <2>2. CASE ~(Cardinality(breaks) >= MaxBreaks)
    <3>1. breaks' = breaks \cup {p}
      BY <1>2, <2>2 DEF add_breakpoint
    <3>2. /\ IsFiniteSet(breaks \cup {p})
          /\ Cardinality(breaks \cup {p}) =
               IF p \in breaks THEN Cardinality(breaks) ELSE Cardinality(breaks) + 1
      BY <1>1, FS_AddElement
    <3> QED BY <1>1, <2>2, <3>1, <3>2
  <2> QED BY <2>1, <2>2
<1>3. ASSUME NEW p \in breaks, breaks' = breaks \ {p}
      PROVE  breaks' \subseteq Pcs /\ IsFiniteSet(breaks') /\ Cardinality(breaks') <= MaxBreaks
  <2>1. /\ IsFiniteSet(breaks \ {p})
        /\ Cardinality(breaks \ {p}) =
             IF p \in breaks THEN Cardinality(breaks) - 1 ELSE Cardinality(breaks)
    BY <1>1, FS_RemoveElement
  <2> QED BY <1>1, <1>3, <2>1
<1>4. CASE breaks' = {}
  BY <1>1, <1>4, FS_EmptySet
<1> QED BY <1>2, <1>3, <1>4

\* A quiet step that leaves the breakpoints alone and ends the command, or is
\* none of its own.
LEMMA QuietEnd ==
  ASSUME SimInv, Quiet, breaks' = breaks, CoreOK', NEW reason, ~Good(reason), End(reason)
  PROVE  SimInv'
<1>1. /\ setup' \in Setups /\ RingInv' /\ UartInv' /\ EotOK' /\ RefOK' /\ BoolOK'
  BY QuietParts
<1>2. CmdOK' /\ ~Running' /\ ~cmd'.retired /\ result' = reason
  BY EndCmd DEF End
<1>3. VerdictIsEarned'
  BY <1>2, QuietVerdict
<1>4. BreaksOK'
  <2>1. /\ breaks' \subseteq Pcs /\ IsFiniteSet(breaks') /\ Cardinality(breaks') <= MaxBreaks
    BY DEF SimInv, BreaksOK
  <2> QED BY <1>2, <2>1, Zenon DEF BreaksOK
<1> QED BY <1>1, <1>2, <1>3, <1>4 DEF SimInv

\* An iteration of the loop of step (main.cpp lines 177-275 and 305-319).
LEMMA IterateInv == SimInv /\ Iterate => SimInv'
<1> SUFFICES ASSUME SimInv, Iterate PROVE SimInv'
  OBVIOUS
<1>1. Running /\ setup' = setup /\ breaks' = breaks
  BY DEF Iterate
<1>2. CoreOK /\ BreaksOK
  BY DEF SimInv
<1>3. ASSUME NEW reason \in {"target_pc", "target_reg", "bad_trap", "cycle_limit"},
             End(reason), UNCHANGED <<coreVars, ringVars, uartVars, refVars>>
      PROVE  SimInv'
  <2>1. Quiet
    BY <1>1, <1>3 DEF Quiet
  <2>2. CoreOK'
    BY <1>2, <1>3, Zenon DEF CoreOK, coreVars
  <2> QED BY <1>1, <1>3, <2>1, <2>2, QuietEnd DEF Good
<1>4. ASSUME Bubble, cycles < MaxCycles PROVE SimInv'
  <2>1. /\ cycles' = cycles + 1 /\ After(cycles + 1, FALSE)
        /\ pc' = pc /\ halted' = halted /\ Quiet
    BY <1>1, <1>4 DEF Bubble, Quiet
  <2>2. /\ setup' \in Setups /\ RingInv' /\ UartInv' /\ EotOK' /\ RefOK' /\ BoolOK'
    BY <2>1, QuietParts
  <2>3. /\ CmdOK' /\ ~Good(result')
        /\ cmd'.retired => Running' /\ (cmd.retired \/ FALSE)
    BY <1>1, <2>1, AfterCmd
  <2>4. CoreOK'
    <3>1. cycles' \in 0 .. MaxCycles
      BY <1>2, <1>4, <2>1, SimAssumption DEF CoreOK
    <3> QED BY <1>2, <2>1, <3>1, Zenon DEF CoreOK
  <2>5. VerdictIsEarned'
    BY <2>1, <2>3, QuietVerdict
  <2>6. BreaksOK'
    BY <1>1, <1>2, <2>1, <2>3, Zenon DEF BreaksOK
  <2> QED BY <2>2, <2>3, <2>4, <2>5, <2>6 DEF SimInv
<1>5. ASSUME NEW ev \in setup.insts, NEW p \in Pcs, NEW vector \in BOOLEAN,
             NEW a0 \in {0, 1}, cycles < MaxCycles, Retire(ev, p, vector, a0)
      PROVE  SimInv'
  BY <1>1, <1>5, RetireInv
<1> QED BY <1>3, <1>4, <1>5 DEF Iterate

\* An iteration of the loop without debug ports.
LEMMA SpecIterateInv == SimInv /\ SpecIterate => SimInv'
<1> SUFFICES ASSUME SimInv, SpecIterate PROVE SimInv'
  OBVIOUS
<1>1. /\ Running /\ setup' = setup /\ breaks' = breaks /\ pc' = pc /\ halted' = halted
      /\ UNCHANGED ringVars /\ UNCHANGED refVars
  BY DEF SpecIterate
<1>2. pushed' = pushed /\ ref' = ref /\ same' = same /\ differed' = differed
  BY <1>1 DEF ringVars, refVars
<1>3. /\ RingInv' /\ CoreOK /\ BreaksOK /\ CmdOK /\ RefOK /\ BoolOK /\ EotOK /\ UartInv
      /\ setup' \in Setups
  BY <1>1, SameRing DEF SimInv
<1>4. CASE uart_eot \/ uart_expect_seen \/ cycles >= MaxCycles
  <2>1. /\ cycles' = cycles /\ UNCHANGED uartVars /\ Quiet
        /\ End(IF uart_eot THEN "uart_eot"
               ELSE IF uart_expect_seen THEN "uart_expect" ELSE "cycle_limit")
    BY <1>1, <1>4 DEF SpecIterate, Quiet
  <2>2. /\ setup' \in Setups /\ RingInv' /\ UartInv' /\ EotOK' /\ RefOK' /\ BoolOK'
    BY <2>1, QuietParts
  <2>3. CmdOK' /\ ~Running' /\ ~cmd'.retired
    BY <2>1, EndCmd
  <2>4. /\ result' # "good_trap"
        /\ result' = "uart_eot" => uart_eot'
        /\ result' = "uart_expect" => uart_expect_seen'
    BY <2>1 DEF End, uartVars
  <2>5. VerdictIsEarned'
    BY <2>2, <2>4 DEF VerdictIsEarned, EotOK, UartInv, StopsOnlyAtText
  <2>6. CoreOK'
    BY <1>1, <1>3, <2>1, Zenon DEF CoreOK
  <2>7. BreaksOK'
    BY <1>1, <1>3, <2>3, Zenon DEF BreaksOK
  <2> QED BY <2>2, <2>3, <2>5, <2>6, <2>7 DEF SimInv
<1>5. CASE ~(uart_eot \/ uart_expect_seen \/ cycles >= MaxCycles)
  <2>1. /\ cycles' = cycles + 1 /\ cmd' = cmd /\ result' = result
        /\ UNCHANGED uartVars \/ \E ch \in Chars : commit_mmio_write(TRUE, ch)
    BY <1>5 DEF SpecIterate
  <2>2. UartInv' /\ EotOK'
    BY <1>3, <2>1, ByteUart, SameUart
  <2>3. CoreOK'
    <3>1. cycles' \in 0 .. MaxCycles
      BY <1>3, <1>5, <2>1, SimAssumption DEF CoreOK
    <3> QED BY <1>1, <1>3, <3>1, Zenon DEF CoreOK
  <2>4. RefOK' /\ BoolOK'
    BY <1>1, <1>2, <1>3, <1>5, Zenon DEF RefOK, BoolOK
  <2>5. Running' /\ CmdOK' /\ BreaksOK'
    BY <1>1, <1>3, <2>1, Zenon DEF Running, CmdOK, BreaksOK
  <2>6. VerdictIsEarned'
    BY <2>5 DEF VerdictIsEarned
  <2> QED BY <1>3, <2>2, <2>3, <2>4, <2>5, <2>6 DEF SimInv
<1> QED BY <1>4, <1>5

\* Between two commands nothing is running (main.cpp lines 541-578 and 686-699): a command
\* begins with nothing retired and without a result.
LEMMA CommandInv == SimInv /\ (Step \/ RunTo \/ Reset \/ Breakpoints \/ Exit) => SimInv'
<1> SUFFICES ASSUME SimInv, Step \/ RunTo \/ Reset \/ Breakpoints \/ Exit PROVE SimInv'
  OBVIOUS
<1>1. cmd.op = "idle" /\ Quiet
  BY DEF Step, RunTo, Reset, Breakpoints, Exit, Command, Quiet
<1>2. /\ setup' \in Setups /\ RingInv' /\ UartInv' /\ EotOK' /\ RefOK' /\ BoolOK'
  BY <1>1, QuietParts
<1>3. /\ ~Running /\ ~cmd.retired /\ CmdOK /\ CoreOK /\ BreaksOK
      /\ cmd \in [op : Ops, left : Nat, target : Pcs, retired : BOOLEAN]
  BY <1>1 DEF SimInv, BreaksOK, Running, CmdOK
<1>4. /\ breaks \subseteq Pcs /\ IsFiniteSet(breaks) /\ Cardinality(breaks) <= MaxBreaks
  BY <1>3 DEF BreaksOK
<1>5. ASSUME NEW c \in [op : Ops, left : Nat, target : Pcs, retired : BOOLEAN],
             ~c.retired, Start(c), UNCHANGED <<coreVars, breaks>>
      PROVE  SimInv'
  <2>1. cmd' = c /\ result' = "none"
    BY <1>5 DEF Start
  <2>2. CmdOK' /\ ~cmd'.retired
    BY <1>5, <2>1 DEF CmdOK
  <2>3. CoreOK'
    BY <1>3, <1>5, Zenon DEF CoreOK, coreVars
  <2>4. BreaksOK'
    BY <1>4, <1>5, <2>2, Zenon DEF BreaksOK
  <2>5. VerdictIsEarned'
    BY <2>1 DEF VerdictIsEarned
  <2> QED BY <1>2, <2>2, <2>3, <2>4, <2>5 DEF SimInv
<1>6. CASE Step
  <2>1. PICK n \in Counts :
          IF n = 0 THEN End(Limit(cycles, "step_done"))
          ELSE Start([NoCmd EXCEPT !.op = "step", !.left = n])
    BY <1>6 DEF Step
  <2>2. UNCHANGED <<coreVars, breaks>>
    BY <1>6 DEF Step
  <2>3. CASE n = 0
    <3>1. CoreOK'
      BY <1>3, <2>2, Zenon DEF CoreOK, coreVars
    <3>2. ~Good(Limit(cycles, "step_done"))
      BY DEF Good, Limit
    <3> QED BY <1>1, <2>1, <2>2, <2>3, <3>1, <3>2, QuietEnd
  <2>4. CASE n # 0
    <3> DEFINE c == [NoCmd EXCEPT !.op = "step", !.left = n]
    <3>1. /\ c \in [op : Ops, left : Nat, target : Pcs, retired : BOOLEAN]
          /\ ~c.retired
      BY SimAssumption DEF NoCmd, Ops
    <3> QED BY <1>5, <2>1, <2>2, <2>4, <3>1
  <2> QED BY <2>3, <2>4
<1>7. CASE RunTo
  <2>1. UNCHANGED <<coreVars, breaks>>
    BY <1>7 DEF RunTo
  <2>2. ASSUME NEW p \in Pcs, Start([NoCmd EXCEPT !.op = "to", !.target = p])
        PROVE  SimInv'
    <3> DEFINE c == [NoCmd EXCEPT !.op = "to", !.target = p]
    <3>1. /\ c \in [op : Ops, left : Nat, target : Pcs, retired : BOOLEAN]
          /\ ~c.retired
      BY DEF NoCmd, Ops
    <3> QED BY <1>5, <2>1, <2>2, <3>1
  <2>3. ASSUME Start([NoCmd EXCEPT !.op = "until"]) PROVE SimInv'
    <3> DEFINE c == [NoCmd EXCEPT !.op = "until"]
    <3>1. /\ c \in [op : Ops, left : Nat, target : Pcs, retired : BOOLEAN]
          /\ ~c.retired
      BY SimAssumption DEF NoCmd, Ops
    <3> QED BY <1>5, <2>1, <2>3, <3>1
  <2> QED BY <1>7, <2>2, <2>3 DEF RunTo
<1>8. CASE Reset \/ Breakpoints
  <2>1. cmd' = cmd /\ result' = result
    BY <1>8 DEF Reset, Breakpoints
  <2>2. CmdOK' /\ ~cmd'.retired
    <3>1. ~Running'
      BY <1>1, <2>1 DEF Running
    <3> QED BY <1>3, <2>1, <3>1 DEF CmdOK
  <2>3. VerdictIsEarned'
    BY <1>1, <1>3, <2>1, QuietVerdict
  <2>4. CoreOK'
    <3>1. CASE Reset
      <4>1. cycles' \in 0 .. MaxCycles /\ pc' \in Pcs
        BY <3>1, SimAssumption DEF Reset
      <4>2. halted' \in BOOLEAN
        BY <3>1, Zenon DEF Reset
      <4> QED BY <4>1, <4>2, Zenon DEF CoreOK
    <3>2. CASE Breakpoints
      <4>1. UNCHANGED coreVars
        BY <3>2 DEF Breakpoints
      <4> QED BY <1>3, <4>1, Zenon DEF CoreOK, coreVars
    <3> QED BY <1>8, <3>1, <3>2
  <2>5. /\ breaks' \subseteq Pcs /\ IsFiniteSet(breaks') /\ Cardinality(breaks') <= MaxBreaks
    <3>1. CASE Reset
      <4>1. breaks' = breaks
        BY <3>1 DEF Reset
      <4> QED BY <1>4, <4>1
    <3>2. CASE Breakpoints
      BY <1>3, <3>2, BreakSets DEF Breakpoints
    <3> QED BY <1>8, <3>1, <3>2
  <2>6. BreaksOK'
    BY <2>2, <2>5, Zenon DEF BreaksOK
  <2> QED BY <1>2, <2>2, <2>3, <2>4, <2>6 DEF SimInv
<1>9. CASE Exit
  <2>1. /\ cmd' = [NoCmd EXCEPT !.op = "exited"] /\ breaks' = breaks
        /\ UNCHANGED coreVars /\ result' \in {"check_failed", result}
    BY <1>9 DEF Exit
  <2>2. CmdOK' /\ ~cmd'.retired
    <3>1. /\ cmd' \in [op : Ops, left : Nat, target : Pcs, retired : BOOLEAN]
          /\ ~cmd'.retired /\ ~Running'
      BY <2>1, SimAssumption DEF NoCmd, Ops, Running
    <3> QED BY <3>1 DEF CmdOK
  <2>3. CoreOK'
    BY <1>3, <2>1, Zenon DEF CoreOK, coreVars
  <2>4. BreaksOK'
    BY <1>4, <2>1, <2>2, Zenon DEF BreaksOK
  <2>5. VerdictIsEarned'
    BY <1>1, <1>3, <2>1, QuietVerdict DEF Good
  <2> QED BY <1>2, <2>2, <2>3, <2>4, <2>5 DEF SimInv
<1> QED BY <1>6, <1>7, <1>8, <1>9

\* Every step of the simulator keeps the invariant.
LEMMA StepSimInv == SimInv /\ [SimNext]_simVars => SimInv'
<1> SUFFICES ASSUME SimInv, [SimNext]_simVars PROVE SimInv'
  OBVIOUS
<1>1. CASE SimNext
  BY <1>1, IterateInv, SpecIterateInv, CommandInv DEF SimNext
<1>2. CASE UNCHANGED simVars
  <2>1. Quiet /\ UNCHANGED coreVars /\ breaks' = breaks /\ cmd' = cmd /\ result' = result
    BY <1>2 DEF simVars, Quiet
  <2>2. /\ setup' \in Setups /\ RingInv' /\ UartInv' /\ EotOK' /\ RefOK' /\ BoolOK'
    BY <2>1, QuietParts
  <2>3. CmdOK' /\ BreaksOK' /\ CoreOK'
    <3>1. CmdOK /\ BreaksOK /\ CoreOK
      BY DEF SimInv
    <3>2. cycles' = cycles /\ pc' = pc /\ halted' = halted
      BY <2>1 DEF coreVars
    <3>3. Running' <=> Running
      BY <2>1 DEF Running
    <3> QED BY <2>1, <3>1, <3>2, <3>3, Zenon DEF CmdOK, BreaksOK, CoreOK
  <2>4. VerdictIsEarned'
    <3>1. CASE Running
      <4>1. result = "none"
        BY <3>1 DEF SimInv, CmdOK
      <4> QED BY <2>1, <4>1 DEF VerdictIsEarned
    <3>2. CASE ~Running
      BY <2>1, <3>2, QuietVerdict
    <3> QED BY <3>1, <3>2
  <2> QED BY <2>2, <2>3, <2>4 DEF SimInv
<1> QED BY <1>1, <1>2

\* What always holds of the simulator.
LEMMA SimInvariant == SimSpec => []SimInv
BY InitSimInv, StepSimInv, PTL DEF SimSpec

-----------------------------------------------------------------------------
(***************************************************************************)
(* For every program, script and limit: the parts have their types, the    *)
(* core is clocked at most max_cycles times between resets (main.cpp line  *)
(* 180), there are never more breakpoints than room for them (line 282),   *)
(* and the reference never retires more than the core.                     *)
(***************************************************************************)
THEOREM SimulatorTypes == SimSpec => []SimTypeOK
<1>1. SimInv => SimTypeOK
  BY Zenon DEF SimInv, RingInv, UartInv, CoreOK, BreaksOK, RefOK, SimTypeOK
<1> QED BY <1>1, SimInvariant, PTL

(***************************************************************************)
(* No command reports a success that did not happen, whatever commands,    *)
(* resets and UART flags came before it (main.cpp lines 229-262).          *)
(***************************************************************************)
THEOREM EarnedVerdicts == SimSpec => []VerdictIsEarned
<1>1. SimInv => VerdictIsEarned
  BY DEF SimInv
<1> QED BY <1>1, SimInvariant, PTL

(***************************************************************************)
(* No command runs over a breakpoint: an instruction at one retires only   *)
(* as the first of a command (main.cpp lines 264-270).                     *)
(***************************************************************************)
THEOREM StopsAtBreakpoints == SimSpec => BreakpointsHonoured
<1>1. SimInv => [pushed' # pushed /\ pc \in breaks => ~cmd.retired]_simVars
  BY DEF SimInv, BreaksOK
<1> QED BY <1>1, SimInvariant, PTL DEF BreakpointsHonoured

(***************************************************************************)
(* The ring and the UART matcher keep their promises inside the simulator: *)
(* through resets, commands and both loops, the history shows the most     *)
(* recent instructions and a stop for a text is sound, and complete for a  *)
(* text with a unique start (main.cpp lines 120-135, memory.cpp 186-205).  *)
(***************************************************************************)
THEOREM PartsOfSimulator ==
  SimSpec => [](LastIsRecent /\ StopsOnlyAtText /\ FindsTextWithUniqueStart)
<1>1. SimInv => LastIsRecent /\ StopsOnlyAtText /\ FindsTextWithUniqueStart
  BY RecentGivesLast DEF SimInv, UartInv
<1> QED BY <1>1, SimInvariant, PTL
=============================================================================
