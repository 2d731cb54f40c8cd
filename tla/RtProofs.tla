------------------------------ MODULE RtProofs ------------------------------
(***************************************************************************)
(* Theorems about the RT-Thread kernel, for any number of threads, any     *)
(* priorities, calls, timeouts and interrupts, in the loads of IpcLoad.    *)
(* First the lists, the scheduler, the timers, the sections of the IPC     *)
(* objects and the calls of the threads: what each one keeps of the        *)
(* invariant System.  Then the tick, the units of the semaphore, the boot  *)
(* and the steps of the system, and the theorems that follow.  Last the    *)
(* two chains of slots of the message queue; the module RtIpcProofs goes   *)
(* on with what the IPC objects hold.                                      *)
(***************************************************************************)
EXTENDS RtProps, SequenceTheorems, FiniteSetTheorems, WellFoundedInduction, TLAPS

(* Lists *)

\* A non-empty set of numbers has a least one, and Min is it.
LEMMA MinFacts ==
  ASSUME NEW S \in SUBSET Nat, S # {}
  PROVE  Min(S) \in S /\ \A y \in S : Min(S) <= y
<1>1. \E x \in S : \A y \in S : ~(<<y, x>> \in OpToRel(<, Nat))
  <2>1. IsWellFoundedOn(OpToRel(<, Nat), Nat)
    BY NatLessThanWellFounded
  <2> QED BY <2>1, WFMin
<1>2. PICK x \in S : \A y \in S : ~(<<y, x>> \in OpToRel(<, Nat))
  BY <1>1
<1>3. ASSUME NEW y \in S PROVE x <= y
  <2>1. x \in Nat /\ y \in Nat
    OBVIOUS
  <2>2. ~(y < x)
    BY <1>2, <2>1 DEF OpToRel
  <2> QED BY <2>1, <2>2
<1> QED BY <1>3 DEF Min

\* The same, without Min.
LEMMA LeastExists ==
  \A S \in SUBSET Nat : S # {} => \E x \in S : \A y \in S : x <= y
BY MinFacts

\* Taking out the element at a position moves the later ones up.
LEMMA RemoveAtFacts ==
  ASSUME NEW T, NEW s \in Seq(T), NEW i \in 1 .. Len(s)
  PROVE  /\ RemoveAt(s, i) \in Seq(T) /\ Len(RemoveAt(s, i)) = Len(s) - 1
         /\ \A j \in 1 .. Len(s) - 1 :
              RemoveAt(s, i)[j] = IF j < i THEN s[j] ELSE s[j + 1]
<1> DEFINE a == SubSeq(s, 1, i - 1)
           b == SubSeq(s, i + 1, Len(s))
<1>1. Len(s) \in Nat /\ \A j \in 1 .. Len(s) : s[j] \in T
  BY LenProperties
<1>2. /\ a \in Seq(T) /\ Len(a) = i - 1
      /\ \A j \in 1 .. i - 1 : a[j] = s[j]
  <2>1. \A j \in 1 .. i - 1 : s[j] \in T
    BY <1>1
  <2>2. /\ a \in Seq(T) /\ Len(a) = IF 1 <= i - 1 THEN i - 1 - 1 + 1 ELSE 0
        /\ \A j \in 1 .. i - 1 - 1 + 1 : a[j] = s[1 + j - 1]
    BY <2>1, SubSeqProperties
  <2> QED BY <2>2, <1>1
<1>3. /\ b \in Seq(T) /\ Len(b) = Len(s) - i
      /\ \A j \in 1 .. Len(s) - i : b[j] = s[i + j]
  <2>1. \A j \in i + 1 .. Len(s) : s[j] \in T
    BY <1>1
  <2>2. /\ b \in Seq(T) /\ Len(b) = IF i + 1 <= Len(s) THEN Len(s) - (i + 1) + 1 ELSE 0
        /\ \A j \in 1 .. Len(s) - (i + 1) + 1 : b[j] = s[i + 1 + j - 1]
    BY <2>1, <1>1, SubSeqProperties
  <2> QED BY <2>2, <1>1
<1> HIDE DEF a, b
<1>4. /\ a \o b \in Seq(T) /\ Len(a \o b) = Len(s) - 1
      /\ \A j \in 1 .. Len(s) - 1 : (a \o b)[j] = IF j <= i - 1 THEN a[j] ELSE b[j - (i - 1)]
  <2>1. /\ a \o b \in Seq(T) /\ Len(a \o b) = Len(a) + Len(b)
        /\ \A j \in 1 .. Len(a) + Len(b) :
             (a \o b)[j] = IF j <= Len(a) THEN a[j] ELSE b[j - Len(a)]
    BY <1>2, <1>3, ConcatProperties
  <2>2. Len(a) + Len(b) = Len(s) - 1
    BY <1>1, <1>2, <1>3
  <2> QED BY <2>1, <2>2, <1>2
<1>5. ASSUME NEW j \in 1 .. Len(s) - 1
      PROVE  (a \o b)[j] = IF j < i THEN s[j] ELSE s[j + 1]
  <2>1. CASE j < i
    BY <2>1, <1>2, <1>4, <1>1
  <2>2. CASE ~(j < i)
    <3>0. j - (i - 1) \in 1 .. Len(s) - i /\ ~(j <= i - 1)
      BY <2>2, <1>1
    <3>1. (a \o b)[j] = b[j - (i - 1)] /\ j - (i - 1) \in 1 .. Len(s) - i
      BY <3>0, <1>4
    <3>2. b[j - (i - 1)] = s[i + (j - (i - 1))]
      BY <3>1, <1>3
    <3>3. i + (j - (i - 1)) = j + 1
      BY <1>1
    <3> QED BY <2>2, <3>1, <3>2, <3>3
  <2> QED BY <2>1, <2>2
<1> QED BY <1>4, <1>5 DEF RemoveAt, a, b

\* Entering an element at a position moves the later ones down.
LEMMA InsertAtFacts ==
  ASSUME NEW T, NEW s \in Seq(T), NEW i \in 1 .. Len(s) + 1, NEW e \in T
  PROVE  /\ InsertAt(s, i, e) \in Seq(T) /\ Len(InsertAt(s, i, e)) = Len(s) + 1
         /\ \A j \in 1 .. Len(s) + 1 :
              InsertAt(s, i, e)[j] = IF j < i THEN s[j] ELSE IF j = i THEN e ELSE s[j - 1]
<1> DEFINE a == SubSeq(s, 1, i - 1)
           b == SubSeq(s, i, Len(s))
           ae == a \o <<e>>
<1>1. Len(s) \in Nat /\ \A j \in 1 .. Len(s) : s[j] \in T
  BY LenProperties
<1>2. /\ a \in Seq(T) /\ Len(a) = i - 1
      /\ \A j \in 1 .. i - 1 : a[j] = s[j]
  <2>1. \A j \in 1 .. i - 1 : s[j] \in T
    BY <1>1
  <2>2. /\ a \in Seq(T) /\ Len(a) = IF 1 <= i - 1 THEN i - 1 - 1 + 1 ELSE 0
        /\ \A j \in 1 .. i - 1 - 1 + 1 : a[j] = s[1 + j - 1]
    BY <2>1, <1>1, SubSeqProperties
  <2> QED BY <2>2, <1>1
<1>3. /\ b \in Seq(T) /\ Len(b) = Len(s) - i + 1
      /\ \A j \in 1 .. Len(s) - i + 1 : b[j] = s[i + j - 1]
  <2>1. \A j \in i .. Len(s) : s[j] \in T
    BY <1>1
  <2>2. /\ b \in Seq(T) /\ Len(b) = IF i <= Len(s) THEN Len(s) - i + 1 ELSE 0
        /\ \A j \in 1 .. Len(s) - i + 1 : b[j] = s[i + j - 1]
    BY <2>1, <1>1, SubSeqProperties
  <2> QED BY <2>2, <1>1
<1> HIDE DEF a, b
<1>4. /\ ae \in Seq(T) /\ Len(ae) = i
      /\ \A j \in 1 .. i - 1 : ae[j] = s[j]
      /\ ae[i] = e
  <2>1. <<e>> \in Seq(T) /\ Len(<<e>>) = 1 /\ <<e>>[1] = e
    OBVIOUS
  <2>2. /\ a \o <<e>> \in Seq(T) /\ Len(a \o <<e>>) = Len(a) + Len(<<e>>)
        /\ \A j \in 1 .. Len(a) + Len(<<e>>) :
             (a \o <<e>>)[j] = IF j <= Len(a) THEN a[j] ELSE <<e>>[j - Len(a)]
    BY <1>2, <2>1, ConcatProperties
  <2>3. Len(a) + Len(<<e>>) = i /\ i \in 1 .. i /\ ~(i <= i - 1) /\ i - (i - 1) = 1
    BY <1>1, <1>2, <2>1
  <2>4. ASSUME NEW j \in 1 .. i - 1 PROVE ae[j] = s[j]
    BY <2>2, <2>3, <1>2, <1>1
  <2>5. ae[i] = e
    BY <2>1, <2>2, <2>3, <1>2
  <2> QED BY <2>2, <2>3, <2>4, <2>5
<1> HIDE DEF ae
<1>5. /\ ae \o b \in Seq(T) /\ Len(ae \o b) = Len(s) + 1
      /\ \A j \in 1 .. Len(s) + 1 : (ae \o b)[j] = IF j <= i THEN ae[j] ELSE b[j - i]
  <2>1. /\ ae \o b \in Seq(T) /\ Len(ae \o b) = Len(ae) + Len(b)
        /\ \A j \in 1 .. Len(ae) + Len(b) :
             (ae \o b)[j] = IF j <= Len(ae) THEN ae[j] ELSE b[j - Len(ae)]
    BY <1>3, <1>4, ConcatProperties
  <2>2. Len(ae) + Len(b) = Len(s) + 1
    BY <1>1, <1>3, <1>4
  <2> QED BY <2>1, <2>2, <1>4
<1>6. ASSUME NEW j \in 1 .. Len(s) + 1
      PROVE  (ae \o b)[j] = IF j < i THEN s[j] ELSE IF j = i THEN e ELSE s[j - 1]
  <2>1. CASE j < i
    <3>1. j \in 1 .. i - 1 /\ j <= i
      BY <2>1, <1>1
    <3> QED BY <2>1, <3>1, <1>4, <1>5
  <2>2. CASE j = i
    BY <2>2, <1>4, <1>5, <1>1
  <2>3. CASE j > i
    <3>0. j - i \in 1 .. Len(s) - i + 1 /\ ~(j <= i)
      BY <2>3, <1>1
    <3>1. (ae \o b)[j] = b[j - i] /\ j - i \in 1 .. Len(s) - i + 1
      BY <3>0, <1>5
    <3>2. b[j - i] = s[i + (j - i) - 1]
      BY <3>1, <1>3
    <3>3. i + (j - i) - 1 = j - 1
      BY <1>1
    <3> QED BY <2>3, <3>1, <3>2, <3>3
  <2>4. j < i \/ j = i \/ j > i
    BY <1>1
  <2> QED BY <2>1, <2>2, <2>3, <2>4
<1>7. InsertAt(s, i, e) = ae \o b
  BY DEF InsertAt, a, b, ae
<1> QED BY <1>5, <1>6, <1>7

\* List r is s with e entered at position i.
HasEntered(T, s, i, e, r) ==
  /\ r \in Seq(T) /\ Len(r) = Len(s) + 1
  /\ \A j \in 1 .. Len(s) + 1 : r[j] = IF j < i THEN s[j] ELSE IF j = i THEN e ELSE s[j - 1]

\* The same of a list that is known to be InsertAt.
LEMMA InsertAtIs ==
  ASSUME NEW T, NEW s \in Seq(T), NEW i \in 1 .. Len(s) + 1, NEW e \in T, NEW r, r = InsertAt(s, i, e)
  PROVE  HasEntered(T, s, i, e, r)
<1>1. /\ InsertAt(s, i, e) \in Seq(T) /\ Len(InsertAt(s, i, e)) = Len(s) + 1
      /\ \A j \in 1 .. Len(s) + 1 :
           InsertAt(s, i, e)[j] = IF j < i THEN s[j] ELSE IF j = i THEN e ELSE s[j - 1]
  BY InsertAtFacts, SMTT(30)
<1> QED BY <1>1 DEF HasEntered

\* Lists of distinct threads, and what is in them after an element has left
\* or has been entered.
Distinct(s) == \A i, j \in 1 .. Len(s) : s[i] = s[j] => i = j
IsList(T, s) == s \in Seq(T) /\ Distinct(s)

\* The elements of a list by position.
LEMMA InListDef ==
  ASSUME NEW T, NEW s \in Seq(T), NEW e
  PROVE  InList(e, s) <=> \E i \in 1 .. Len(s) : s[i] = e
  BY DEF InList

\* An empty list has no element, and the head of another is in it.
LEMMA EmptyFacts ==
  ASSUME NEW T, NEW s \in Seq(T)
  PROVE  /\ s = << >> <=> ~\E e : InList(e, s)
         /\ s # << >> => Head(s) \in T /\ InList(Head(s), s) /\ Head(s) = s[1] /\ Len(s) > 0
         /\ \A e : InList(e, s) => e \in T
<1>1. Len(s) \in Nat /\ DOMAIN s = 1 .. Len(s) /\ \A i \in 1 .. Len(s) : s[i] \in T
  BY LenProperties
<1>2. s = << >> <=> Len(s) = 0
  BY EmptySeq, <1>1
<1>3. s # << >> => Head(s) = s[1] /\ 1 \in 1 .. Len(s) /\ Len(s) > 0
  BY <1>1, <1>2, HeadTailProperties
<1>4. s = << >> => ~\E e : InList(e, s)
  BY DEF InList
<1> QED BY <1>1, <1>3, <1>4 DEF InList

\* rt_list_insert at any place.
LEMMA InsertFacts ==
  ASSUME NEW T, NEW s, IsList(T, s), NEW i \in 1 .. Len(s) + 1, NEW e \in T, ~InList(e, s)
  PROVE  /\ IsList(T, InsertAt(s, i, e))
         /\ \A u : InList(u, InsertAt(s, i, e)) <=> InList(u, s) \/ u = e
<1> DEFINE r == InsertAt(s, i, e)
<1>1. s \in Seq(T) /\ Distinct(s) /\ Len(s) \in Nat
  BY LenProperties DEF IsList
<1>2. /\ r \in Seq(T) /\ Len(r) = Len(s) + 1
      /\ \A j \in 1 .. Len(s) + 1 : r[j] = IF j < i THEN s[j] ELSE IF j = i THEN e ELSE s[j - 1]
  <2>1. r = InsertAt(s, i, e)
    OBVIOUS
  <2> HIDE DEF r
  <2>2. HasEntered(T, s, i, e, r)
    BY <1>1, <2>1, InsertAtIs
  <2> QED BY <2>2 DEF HasEntered
<1> HIDE DEF r
<1>3. \A j \in 1 .. Len(s) : s[j] # e
  BY <1>1, InListDef
<1>4. ASSUME NEW a \in 1 .. Len(r), NEW b \in 1 .. Len(r), r[a] = r[b] PROVE a = b
  <2> DEFINE f(x) == IF x < i THEN x ELSE x - 1
  <2>1. \A x \in 1 .. Len(r) : x # i => f(x) \in 1 .. Len(s) /\ r[x] = s[f(x)]
    <3> SUFFICES ASSUME NEW x \in 1 .. Len(r), x # i
                 PROVE  f(x) \in 1 .. Len(s) /\ r[x] = s[f(x)]
      OBVIOUS
    <3>1. f(x) \in 1 .. Len(s)
      BY <1>1, <1>2
    <3> QED BY <1>2, <3>1
  <2>2. r[i] = e
    BY <1>1, <1>2
  <2>3. a = i <=> b = i
    BY <1>3, <1>4, <2>1, <2>2
  <2>4. CASE a # i
    <3>1. f(a) = f(b)
      BY <1>1, <1>4, <2>1, <2>3, <2>4 DEF Distinct
    <3> QED BY <3>1, <2>3, <2>4, <1>1, <1>2
  <2> QED BY <2>3, <2>4
<1>5. \A u : InList(u, r) <=> \E j \in 1 .. Len(s) + 1 : r[j] = u
  BY <1>2, InListDef
<1>6. \A u : InList(u, s) <=> \E j \in 1 .. Len(s) : s[j] = u
  BY <1>1, InListDef
<1>7. ASSUME NEW u PROVE InList(u, r) <=> InList(u, s) \/ u = e
  <2>1. ASSUME NEW j \in 1 .. Len(s) + 1, r[j] = u PROVE InList(u, s) \/ u = e
    <3>1. CASE j < i
      BY <1>1, <1>2, <1>6, <2>1, <3>1
    <3>2. CASE j = i
      BY <1>2, <2>1, <3>2
    <3>3. CASE j > i
      <4>1. j - 1 \in 1 .. Len(s) /\ r[j] = s[j - 1]
        BY <1>1, <1>2, <3>3
      <4> QED BY <1>6, <2>1, <4>1
    <3>4. j < i \/ j = i \/ j > i
      BY <1>1
    <3> QED BY <3>1, <3>2, <3>3, <3>4
  <2>2. ASSUME NEW j \in 1 .. Len(s), s[j] = u PROVE InList(u, r)
    <3>1. CASE j < i
      BY <1>1, <1>2, <1>5, <2>2, <3>1
    <3>2. CASE ~(j < i)
      <4>1. j + 1 \in 1 .. Len(s) + 1 /\ ~(j + 1 < i) /\ j + 1 # i /\ (j + 1) - 1 = j
        BY <1>1, <3>2
      <4> QED BY <1>2, <1>5, <2>2, <4>1
    <3> QED BY <3>1, <3>2
  <2>3. InList(e, r)
    BY <1>1, <1>2, <1>5
  <2> QED BY <1>5, <1>6, <2>1, <2>2, <2>3
<1>8. IsList(T, r)
  BY <1>2, <1>4 DEF IsList, Distinct
<1> QED BY <1>7, <1>8 DEF r

\* rt_list_insert_after and rt_list_insert_before the head of a list.
LEMMA ConsFacts ==
  ASSUME NEW T, NEW s, IsList(T, s), NEW e \in T, ~InList(e, s)
  PROVE  /\ IsList(T, Cons(e, s)) /\ \A u : InList(u, Cons(e, s)) <=> InList(u, s) \/ u = e
         /\ IsList(T, Append(s, e)) /\ \A u : InList(u, Append(s, e)) <=> InList(u, s) \/ u = e
<1>1. s \in Seq(T) /\ Len(s) \in Nat
  BY LenProperties DEF IsList
<1>2. Cons(e, s) = InsertAt(s, 1, e)
  <2>1. SubSeq(s, 1, 1 - 1) = << >>
    BY SubSeqEmpty
  <2>2. SubSeq(s, 1, Len(s)) = s
    BY <1>1, SubSeqFull
  <2>3. << >> \o <<e>> = <<e>>
    OBVIOUS
  <2> QED BY <2>1, <2>2, <2>3 DEF Cons, InsertAt
<1>3. Append(s, e) = InsertAt(s, Len(s) + 1, e)
  <2>1. SubSeq(s, 1, Len(s) + 1 - 1) = s
    <3>1. Len(s) + 1 - 1 = Len(s)
      BY <1>1
    <3> QED BY <1>1, <3>1, SubSeqFull
  <2>2. SubSeq(s, Len(s) + 1, Len(s)) = << >>
    BY <1>1, SubSeqEmpty
  <2>3. s \o <<e>> \in Seq(T) /\ s \o <<e>> = Append(s, e)
    BY <1>1
  <2>4. (s \o <<e>>) \o << >> = s \o <<e>>
    BY <2>3
  <2> QED BY <2>1, <2>2, <2>3, <2>4 DEF InsertAt
<1>4. 1 \in 1 .. Len(s) + 1 /\ Len(s) + 1 \in 1 .. Len(s) + 1
  BY <1>1
<1> QED BY <1>2, <1>3, <1>4, InsertFacts

\* rt_list_remove.
LEMMA RemoveFacts ==
  ASSUME NEW T, NEW s, IsList(T, s), NEW e
  PROVE  /\ IsList(T, RemoveFirst(s, e))
         /\ \A u : InList(u, RemoveFirst(s, e)) <=> InList(u, s) /\ u # e
         /\ ~InList(e, s) => RemoveFirst(s, e) = s
<1>1. s \in Seq(T) /\ Distinct(s) /\ Len(s) \in Nat
  BY LenProperties DEF IsList
<1>2. \A u : InList(u, s) <=> \E j \in 1 .. Len(s) : s[j] = u
  BY <1>1, InListDef
<1>3. CASE ~InList(e, s)
  <2>1. RemoveFirst(s, e) = s
    BY <1>2, <1>3 DEF RemoveFirst
  <2> QED BY <1>3, <2>1
<1>4. CASE InList(e, s)
  <2> DEFINE I == {j \in 1 .. Len(s) : s[j] = e}
             i == Min(I)
             r == RemoveAt(s, i)
  <2>1. I \in SUBSET Nat /\ I # {}
    BY <1>1, <1>2, <1>4
  <2>2. i \in I
    <3> HIDE DEF I
    <3> QED BY <2>1, MinFacts
  <2>3. RemoveFirst(s, e) = r
    <3>1. \E j \in 1 .. Len(s) : s[j] = e
      BY <1>2, <1>4
    <3> QED BY <2>1, <3>1 DEF RemoveFirst, SelectInSeq
  <2>4. i \in 1 .. Len(s) /\ s[i] = e
    BY <2>2
  <2> HIDE DEF I, i
  <2>5. /\ r \in Seq(T) /\ Len(r) = Len(s) - 1
        /\ \A j \in 1 .. Len(s) - 1 : r[j] = IF j < i THEN s[j] ELSE s[j + 1]
    BY <1>1, <2>4, RemoveAtFacts
  <2> HIDE DEF r
  <2>6. ASSUME NEW a \in 1 .. Len(r), NEW b \in 1 .. Len(r), r[a] = r[b] PROVE a = b
    <3> DEFINE f(x) == IF x < i THEN x ELSE x + 1
    <3>1. \A x \in 1 .. Len(r) : f(x) \in 1 .. Len(s) /\ r[x] = s[f(x)]
      <4> SUFFICES ASSUME NEW x \in 1 .. Len(r) PROVE f(x) \in 1 .. Len(s) /\ r[x] = s[f(x)]
        OBVIOUS
      <4>1. f(x) \in 1 .. Len(s) /\ x \in 1 .. Len(s) - 1
        BY <1>1, <2>4, <2>5
      <4> QED BY <2>5, <4>1
    <3>2. f(a) = f(b)
      BY <1>1, <2>6, <3>1 DEF Distinct
    <3> QED BY <3>2, <1>1, <2>4, <2>5
  <2>7. \A u : InList(u, r) <=> \E j \in 1 .. Len(s) - 1 : r[j] = u
    BY <2>5, InListDef
  <2>8. ASSUME NEW u PROVE InList(u, r) <=> InList(u, s) /\ u # e
    <3>1. ASSUME NEW j \in 1 .. Len(s) - 1, r[j] = u PROVE InList(u, s) /\ u # e
      <4> DEFINE m == IF j < i THEN j ELSE j + 1
      <4>1. m \in 1 .. Len(s) /\ m # i
        BY <1>1, <2>4
      <4>2. r[j] = s[m]
        BY <2>5
      <4> HIDE DEF m
      <4>3. s[m] # s[i]
        BY <1>1, <2>4, <4>1 DEF Distinct
      <4> QED BY <1>2, <2>4, <3>1, <4>1, <4>2, <4>3
    <3>2. ASSUME NEW j \in 1 .. Len(s), s[j] = u, u # e PROVE InList(u, r)
      <4>1. j # i
        BY <2>4, <3>2
      <4>2. CASE j < i
        <5>1. j \in 1 .. Len(s) - 1
          BY <1>1, <2>4, <4>2
        <5> QED BY <2>5, <2>7, <3>2, <4>2, <5>1
      <4>3. CASE j > i
        <5>1. j - 1 \in 1 .. Len(s) - 1 /\ ~(j - 1 < i) /\ (j - 1) + 1 = j
          BY <1>1, <2>4, <4>3
        <5> QED BY <2>5, <2>7, <3>2, <5>1
      <4> QED BY <4>1, <4>2, <4>3, <2>4
    <3> QED BY <1>2, <2>7, <3>1, <3>2
  <2> QED BY <1>4, <2>3, <2>5, <2>6, <2>8 DEF IsList, Distinct
<1> QED BY <1>3, <1>4

-----------------------------------------------------------------------------
(***************************************************************************)
(* The kernel state.  KInv is what every section of kernel code finds and  *)
(* leaves: ready lists, bitmap and thread states agree, a thread is in at  *)
(* most one list, and an armed timer belongs to a suspended thread.        *)
(***************************************************************************)
Fields == {"cur", "group", "yld", "lock", "fault", "stat", "prio", "init", "ready", "wait",
           "timer", "slice", "err", "flag", "sem", "ev", "evset", "evinfo", "mb", "mq", "mp",
           "m", "taken", "pend"}
Stats == {"init", "ready", "running", "suspend", "close"}
Lists == WaitLists \cup Mutexes

\* Kernel state d is c but for the fields F.
SameBut(c, d, F) == DOMAIN d = Fields /\ \A f \in Fields \ F : d[f] = c[f]

KType(c) ==
  /\ DOMAIN c = Fields
  /\ c.cur \in Threads \cup {None} /\ c.group \subseteq Prios /\ c.yld \subseteq Threads
  /\ c.stat \in [Threads -> Stats] /\ c.prio \in [Threads -> Prios]
  /\ c.ready \in [Prios -> Seq(Threads)] /\ c.wait \in [Lists -> Seq(Threads)]
  /\ c.err \in [Threads -> Errors] /\ c.slice \in [Threads -> 1 .. Slice]
  /\ c.lock \in Nat /\ c.fault = FALSE

ReadyOK(c) ==
  /\ \A p \in Prios : IsList(Threads, c.ready[p])
  /\ \A p \in Prios, t \in Threads :
       InList(t, c.ready[p]) <=> c.stat[t] = "ready" /\ p = c.prio[t]
  /\ \A p \in Prios : p \in c.group <=> c.ready[p] # << >>

WaitOK(c) ==
  /\ \A w \in Lists : IsList(Threads, c.wait[w])
  /\ \A w \in Lists, t \in Threads :
       InList(t, c.wait[w]) => c.stat[t] = IF w = "defunct" THEN "close" ELSE "suspend"
  /\ \A t \in Threads : c.stat[t] = "close" => InList(t, c.wait["defunct"])
  /\ \A w, v \in Lists, t \in Threads :
       InList(t, c.wait[w]) /\ InList(t, c.wait[v]) => w = v

Timers(tm) ==
  /\ tm \in Seq(Threads \X Int)
  /\ \A i, j \in 1 .. Len(tm) : i < j => tm[i][1] # tm[j][1] /\ tm[i][2] <= tm[j][2]
Timed(c, t) == \E i \in 1 .. Len(c.timer) : c.timer[i][1] = t
TimerOK(c) == Timers(c.timer) /\ \A t \in Threads : Timed(c, t) => c.stat[t] = "suspend"

CurOK(c) ==
  /\ \A t \in Threads : c.stat[t] = "running" => t = c.cur
  /\ c.cur \in Threads => c.stat[c.cur] # "ready"

Armed(c) == \A i \in 1 .. Len(c.timer) : c.timer[i][2] > 0

\* At most t has a timer in d that it has not in c.
NewTimer(c, d, t) == \A u \in Threads : u # t => (Timed(d, u) => Timed(c, u))

\* Every timer of d is one of c.
SubTimers(c, d) ==
  \A i \in 1 .. Len(d.timer) : \E j \in 1 .. Len(c.timer) : d.timer[i] = c.timer[j]

\* Thread t has left the list it waited in.
WaitLess(c, d, t) ==
  \A w \in Lists, u \in Threads : InList(u, d.wait[w]) <=> InList(u, c.wait[w]) /\ u # t

Waits(c, t) == \E w \in Lists : InList(t, c.wait[w])

Kernel(c) == KType(c) /\ ReadyOK(c) /\ WaitOK(c) /\ TimerOK(c)
KInv(c) == Kernel(c) /\ CurOK(c)

-----------------------------------------------------------------------------
(* The timer list *)

\* The list of timers after rt_timer_stop, and where rt_timer_start goes on.
Without(tm, t) == RemoveFirstMatch(tm, LAMBDA e : e[1] = t)
Later(tm, n) == {i \in DOMAIN tm : tm[i][2] > n}
With(tm, t, n) == InsertAt(tm, place(tm, Later(tm, n)), <<t, n>>)

\* Taking the timer of a thread off the list.
LEMMA StopTimers ==
  ASSUME NEW tm, Timers(tm), NEW t
  PROVE  /\ Timers(Without(tm, t))
         /\ \A i \in 1 .. Len(Without(tm, t)) :
              /\ Without(tm, t)[i][1] # t
              /\ \E j \in 1 .. Len(tm) : Without(tm, t)[i] = tm[j]
         /\ (\A i \in 1 .. Len(tm) : tm[i][1] # t) => Without(tm, t) = tm
         /\ \A j \in 1 .. Len(tm) :
              tm[j][1] # t => \E i \in 1 .. Len(Without(tm, t)) : Without(tm, t)[i] = tm[j]
<1>1. tm \in Seq(Threads \X Int) /\ Len(tm) \in Nat
  BY LenProperties DEF Timers
<1>2. CASE \A i \in 1 .. Len(tm) : tm[i][1] # t
  <2>1. Without(tm, t) = tm
    BY <1>2 DEF Without, RemoveFirstMatch
  <2> QED BY <1>2, <2>1
<1>3. CASE \E i \in 1 .. Len(tm) : tm[i][1] = t
  <2> DEFINE I == {j \in 1 .. Len(tm) : tm[j][1] = t}
             i == Min(I)
             r == RemoveAt(tm, i)
  <2>1. I \in SUBSET Nat /\ I # {}
    BY <1>1, <1>3, SMTT(30)
  <2>2. i \in I
    <3> HIDE DEF I
    <3> QED BY <2>1, MinFacts
  <2>3. Without(tm, t) = r
    BY <2>1, <1>3 DEF Without, RemoveFirstMatch, SelectInSeq
  <2>4. i \in 1 .. Len(tm) /\ tm[i][1] = t
    BY <2>2
  <2> HIDE DEF I, i
  <2>5. /\ r \in Seq(Threads \X Int) /\ Len(r) = Len(tm) - 1
        /\ \A j \in 1 .. Len(tm) - 1 : r[j] = IF j < i THEN tm[j] ELSE tm[j + 1]
    BY <1>1, <2>4, RemoveAtFacts
  <2> HIDE DEF r
  <2> DEFINE g(x) == IF x < i THEN x ELSE x + 1
  <2>6. \A x \in 1 .. Len(r) : g(x) \in 1 .. Len(tm) /\ r[x] = tm[g(x)] /\ g(x) # i
    <3> SUFFICES ASSUME NEW x \in 1 .. Len(r)
                 PROVE  g(x) \in 1 .. Len(tm) /\ r[x] = tm[g(x)] /\ g(x) # i
      OBVIOUS
    <3>1. g(x) \in 1 .. Len(tm) /\ x \in 1 .. Len(tm) - 1 /\ g(x) # i
      BY <1>1, <2>4, <2>5, SMTT(30)
    <3> QED BY <2>5, <3>1
  <2>7. \A x, y \in 1 .. Len(r) : x < y => g(x) < g(y)
    BY <1>1, <2>4, <2>5, SMTT(30)
  <2> HIDE DEF g
  <2>8. Timers(r)
    <3>1. ASSUME NEW x \in 1 .. Len(r), NEW y \in 1 .. Len(r), x < y
          PROVE  r[x][1] # r[y][1] /\ r[x][2] <= r[y][2]
      <4>1. g(x) \in 1 .. Len(tm) /\ g(y) \in 1 .. Len(tm) /\ g(x) < g(y)
        BY <2>6, <2>7, <3>1
      <4>2. tm[g(x)][1] # tm[g(y)][1] /\ tm[g(x)][2] <= tm[g(y)][2]
        BY <4>1 DEF Timers
      <4> QED BY <2>6, <4>2
    <3> QED BY <2>5, <3>1 DEF Timers
  <2>9. ASSUME NEW x \in 1 .. Len(r) PROVE r[x][1] # t
    <3>1. g(x) < i \/ i < g(x)
      BY <2>4, <2>6, <1>1
    <3> QED BY <2>4, <2>6, <3>1, SMTT(30) DEF Timers
  <2>10. ASSUME NEW j \in 1 .. Len(tm), tm[j][1] # t PROVE \E x \in 1 .. Len(r) : r[x] = tm[j]
    <3>1. j # i
      BY <2>4, <2>10
    <3>2. CASE j < i
      <4>1. j \in 1 .. Len(r) /\ r[j] = tm[j]
        BY <1>1, <2>4, <2>5, <3>2, SMTT(30)
      <4> QED BY <4>1
    <3>3. CASE i < j
      <4>1. j - 1 \in 1 .. Len(r) /\ r[j - 1] = tm[j]
        BY <1>1, <2>4, <2>5, <3>3
      <4> QED BY <4>1
    <3> QED BY <2>4, <3>1, <3>2, <3>3
  <2> QED BY <1>3, <2>3, <2>6, <2>8, <2>9, <2>10
<1> QED BY <1>2, <1>3

\* The place at which a walk along a list ends.
LEMMA PlaceFacts ==
  ASSUME NEW T, NEW s \in Seq(T), NEW I \in SUBSET (1 .. Len(s))
  PROVE  /\ place(s, I) \in 1 .. Len(s) + 1
         /\ \A i \in 1 .. place(s, I) - 1 : i \notin I
         /\ place(s, I) # Len(s) + 1 => place(s, I) \in I
<1>1. Len(s) \in Nat
  BY LenProperties
<1>2. CASE I = {}
  BY <1>1, <1>2 DEF place
<1>3. CASE I # {}
  <2>1. Min(I) \in I /\ \A y \in I : Min(I) <= y
    <3>1. I \in SUBSET Nat
      BY <1>1
    <3> QED BY <1>3, <3>1, MinFacts
  <2>2. place(s, I) = Min(I)
    BY <1>3 DEF place
  <2>3. Min(I) \in 1 .. Len(s)
    BY <2>1
  <2>4. ASSUME NEW i \in 1 .. Min(I) - 1, i \in I PROVE FALSE
    <3>1. Min(I) <= i
      BY <2>1, <2>4
    <3> QED BY <1>1, <2>3, <3>1
  <2> QED BY <1>1, <2>1, <2>2, <2>3, <2>4
<1> QED BY <1>2, <1>3

\* Entering a timer behind those that expire at the same tick.
LEMMA StartTimers ==
  ASSUME NEW tm, Timers(tm), NEW t \in Threads, NEW n \in Int,
         \A i \in 1 .. Len(tm) : tm[i][1] # t
  PROVE  /\ Timers(With(tm, t, n))
         /\ \A i \in 1 .. Len(With(tm, t, n)) :
              With(tm, t, n)[i] = <<t, n>> \/ \E j \in 1 .. Len(tm) : With(tm, t, n)[i] = tm[j]
<1> DEFINE I == {i \in DOMAIN tm : tm[i][2] > n}
           m == place(tm, I)
           e == <<t, n>>
           r == InsertAt(tm, m, e)
<1>1. /\ tm \in Seq(Threads \X Int) /\ Len(tm) \in Nat /\ DOMAIN tm = 1 .. Len(tm)
      /\ \A i \in 1 .. Len(tm) : tm[i] \in Threads \X Int
  BY LenProperties DEF Timers
<1>2. m \in 1 .. Len(tm) + 1 /\ (\A i \in 1 .. m - 1 : i \notin I) /\ (m # Len(tm) + 1 => m \in I)
  <2>1. I \in SUBSET (1 .. Len(tm))
    BY <1>1
  <2> HIDE DEF I
  <2> QED BY <1>1, <2>1, PlaceFacts
<1>3. \A i \in 1 .. Len(tm) : tm[i][2] \in Int /\ tm[i][1] \in Threads
  BY <1>1
<1>4. \A i \in 1 .. Len(tm) : i < m => tm[i][2] <= n
  <2> SUFFICES ASSUME NEW i \in 1 .. Len(tm), i < m PROVE tm[i][2] <= n
    OBVIOUS
  <2>1. i \in 1 .. m - 1
    BY <1>1, <1>2
  <2>2. ~(tm[i][2] > n)
    BY <1>1, <1>2, <2>1
  <2> QED BY <1>3, <2>2
<1>5. \A i \in 1 .. Len(tm) : i >= m => n <= tm[i][2]
  <2> SUFFICES ASSUME NEW i \in 1 .. Len(tm), i >= m PROVE n <= tm[i][2]
    OBVIOUS
  <2>1. m \in 1 .. Len(tm) /\ m \in I
    BY <1>1, <1>2
  <2>2. tm[m][2] > n
    BY <2>1
  <2>3. m < i \/ m = i
    BY <1>2
  <2>4. tm[m][2] <= tm[i][2] \/ m = i
    BY <2>1, <2>3 DEF Timers
  <2> QED BY <1>3, <2>1, <2>2, <2>4
<1>0. e \in Threads \X Int /\ e[1] = t /\ e[2] = n
  OBVIOUS
<1> HIDE DEF I, m, e
<1>6. /\ r \in Seq(Threads \X Int) /\ Len(r) = Len(tm) + 1
      /\ \A j \in 1 .. Len(tm) + 1 :
           r[j] = IF j < m THEN tm[j] ELSE IF j = m THEN e ELSE tm[j - 1]
  <2>1. e \in Threads \X Int
    BY <1>0
  <2>2. tm \in Seq(Threads \X Int) /\ m \in 1 .. Len(tm) + 1
    BY <1>1, <1>2
  <2> HIDE DEF r
  <2>4. r = InsertAt(tm, m, e)
    BY DEF r
  <2>5. PICK T : T = Threads \X Int
    OBVIOUS
  <2>6. HasEntered(T, tm, m, e, r)
    BY <2>1, <2>2, <2>4, <2>5, InsertAtIs
  <2> QED BY <2>5, <2>6 DEF HasEntered
<1> HIDE DEF r
<1> DEFINE g(x) == IF x < m THEN x ELSE x - 1
<1>7. \A x \in 1 .. Len(r) : x # m => g(x) \in 1 .. Len(tm) /\ r[x] = tm[g(x)]
  <2> SUFFICES ASSUME NEW x \in 1 .. Len(r), x # m
               PROVE  g(x) \in 1 .. Len(tm) /\ r[x] = tm[g(x)]
    OBVIOUS
  <2>1. g(x) \in 1 .. Len(tm) /\ x \in 1 .. Len(tm) + 1
    BY <1>1, <1>2, <1>6
  <2> QED BY <1>6, <2>1
<1>8. /\ \A x, y \in 1 .. Len(r) : x < y /\ x # m /\ y # m => g(x) < g(y)
      /\ \A x \in 1 .. Len(r) : x < m => g(x) < m
      /\ \A x \in 1 .. Len(r) : x > m => g(x) >= m
  BY <1>1, <1>2, <1>6, SMTT(30)
<1> HIDE DEF g
<1>9. r[m] = e /\ r[m][1] = t /\ r[m][2] = n
  BY <1>0, <1>1, <1>2, <1>6
<1>10. ASSUME NEW x \in 1 .. Len(r), NEW y \in 1 .. Len(r), x < y
       PROVE  r[x][1] # r[y][1] /\ r[x][2] <= r[y][2]
  <2>1. CASE x # m /\ y # m
    <3>1. PICK a, b : a = g(x) /\ b = g(y)
      OBVIOUS
    <3>2. a \in 1 .. Len(tm) /\ b \in 1 .. Len(tm) /\ r[x] = tm[a] /\ r[y] = tm[b] /\ a < b
      BY <1>7, <1>8, <1>10, <2>1, <3>1
    <3>3. tm[a][1] # tm[b][1] /\ tm[a][2] <= tm[b][2]
      BY <1>1, <3>2 DEF Timers
    <3> QED BY <3>2, <3>3
  <2>2. CASE x = m
    <3>1. y # m /\ y > m
      BY <1>10, <2>2
    <3> QED BY <1>5, <1>7, <1>8, <1>9, <2>2, <3>1
  <2>3. CASE y = m
    <3>1. x # m /\ x < m
      BY <1>10, <2>3
    <3> QED BY <1>4, <1>7, <1>8, <1>9, <2>3, <3>1
  <2> QED BY <2>1, <2>2, <2>3
<1>11. Timers(r)
  BY <1>6, <1>10 DEF Timers
<1>12. \A i \in 1 .. Len(r) : r[i] = e \/ \E j \in 1 .. Len(tm) : r[i] = tm[j]
  BY <1>7, <1>9
<1>13. With(tm, t, n) = r
  BY DEF r, m, I, e, With, Later
<1> QED BY <1>11, <1>12, <1>13 DEF e

-----------------------------------------------------------------------------
(* scheduler_up.c and thread.c *)

Unlinks(L, P, t) == [p \in P |-> RemoveFirst(L[p], t)]

\* rt_list_remove, field by field.
LEMMA UnlinkFields ==
  ASSUME NEW c, KType(c), NEW t, NEW d, d = rt_list_remove(c, t)
  PROVE  /\ SameBut(c, d, {"ready", "wait"})
         /\ d.ready = Unlinks(c.ready, Prios, t)
         /\ d.wait = Unlinks(c.wait, Lists, t)
  BY DEF rt_list_remove, SameBut, Fields, KType, Unlinks

\* A thread that is in none of the lists of a table leaves them as they are.
LEMMA NotThere ==
  ASSUME NEW P, NEW L \in [P -> Seq(Threads)], NEW t,
         \A p \in P : IsList(Threads, L[p]) /\ ~InList(t, L[p])
  PROVE  Unlinks(L, P, t) = L
<1>1. \A p \in P : RemoveFirst(L[p], t) = L[p]
  BY RemoveFacts
<1> QED BY <1>1 DEF Unlinks

\* Unlinking a suspended thread takes it out of the list it waits in.
LEMMA Unlinked ==
  ASSUME NEW c, Kernel(c), NEW t \in Threads, c.stat[t] = "suspend",
         NEW d, d = rt_list_remove(c, t)
  PROVE  /\ Kernel(d) /\ SameBut(c, d, {"wait"}) /\ ~Waits(d, t)
         /\ WaitLess(c, d, t)
<1>1. KType(c) /\ ReadyOK(c) /\ WaitOK(c) /\ TimerOK(c)
  BY DEF Kernel
<1>2. /\ SameBut(c, d, {"ready", "wait"})
      /\ d.ready = Unlinks(c.ready, Prios, t)
      /\ d.wait = Unlinks(c.wait, Lists, t)
  BY <1>1, UnlinkFields
<1>3. d.ready = c.ready
  <2>1. \A p \in Prios : IsList(Threads, c.ready[p]) /\ ~InList(t, c.ready[p])
    BY <1>1 DEF ReadyOK
  <2>2. c.ready \in [Prios -> Seq(Threads)]
    BY <1>1 DEF KType
  <2> QED BY <1>2, <2>1, <2>2, NotThere
<1>4. SameBut(c, d, {"wait"})
  BY <1>2, <1>3 DEF SameBut
<1>5. \A w \in Lists : /\ IsList(Threads, d.wait[w])
                       /\ \A u : InList(u, d.wait[w]) <=> InList(u, c.wait[w]) /\ u # t
  <2>1. \A w \in Lists : IsList(Threads, c.wait[w])
    BY <1>1 DEF WaitOK
  <2> QED BY <1>2, <2>1, RemoveFacts DEF Unlinks
<1>6. /\ d.stat = c.stat /\ d.cur = c.cur /\ d.group = c.group /\ d.yld = c.yld /\ d.prio = c.prio
      /\ d.err = c.err /\ d.slice = c.slice /\ d.lock = c.lock /\ d.fault = c.fault
      /\ d.timer = c.timer
  BY <1>4 DEF SameBut, Fields
<1>7. d.wait \in [Lists -> Seq(Threads)]
  BY <1>2, <1>5 DEF IsList, Unlinks
<1>8. KType(d)
  BY <1>1, <1>3, <1>4, <1>6, <1>7 DEF KType, SameBut
<1>9. ReadyOK(d)
  BY <1>1, <1>3, <1>6 DEF ReadyOK
<1>10. WaitOK(d)
  <2>1. "defunct" \in Lists
    BY DEF Lists, WaitLists
  <2> QED BY <1>1, <1>5, <1>6, <2>1, SMTT(30) DEF WaitOK
<1>11. TimerOK(d)
  BY <1>1, <1>6 DEF TimerOK, Timed
<1> QED BY <1>4, <1>5, <1>8, <1>9, <1>10, <1>11 DEF Kernel, Waits, WaitLess

\* rt_timer_stop.
LEMMA TimerStopped ==
  ASSUME NEW c, Kernel(c), NEW t, NEW d, d = rt_timer_stop(c, t)
  PROVE  /\ Kernel(d) /\ SameBut(c, d, {"timer"}) /\ ~Timed(d, t)
         /\ SubTimers(c, d)
         /\ ~Timed(c, t) => d.timer = c.timer
         /\ \A u : u # t /\ Timed(c, u) => Timed(d, u)
<1>1. KType(c) /\ ReadyOK(c) /\ WaitOK(c) /\ TimerOK(c)
  BY DEF Kernel
<1>2. SameBut(c, d, {"timer"}) /\ d.timer = Without(c.timer, t)
  BY <1>1 DEF rt_timer_stop, KType, SameBut, Fields, Without
<1>3. /\ Timers(d.timer)
      /\ \A i \in 1 .. Len(d.timer) : /\ d.timer[i][1] # t
                                      /\ \E j \in 1 .. Len(c.timer) : d.timer[i] = c.timer[j]
      /\ (\A i \in 1 .. Len(c.timer) : c.timer[i][1] # t) => d.timer = c.timer
      /\ \A j \in 1 .. Len(c.timer) :
           c.timer[j][1] # t => \E i \in 1 .. Len(d.timer) : d.timer[i] = c.timer[j]
  <2>1. Timers(c.timer)
    BY <1>1 DEF TimerOK
  <2>2. PICK tm, u : tm = c.timer /\ u = d.timer
    OBVIOUS
  <2>3. Timers(tm) /\ u = Without(tm, t)
    BY <1>2, <2>1, <2>2
  <2>4. /\ Timers(u)
        /\ \A i \in 1 .. Len(u) : u[i][1] # t /\ \E j \in 1 .. Len(tm) : u[i] = tm[j]
        /\ (\A i \in 1 .. Len(tm) : tm[i][1] # t) => u = tm
        /\ \A j \in 1 .. Len(tm) : tm[j][1] # t => \E i \in 1 .. Len(u) : u[i] = tm[j]
    BY <2>3, StopTimers, SMTT(30)
  <2> QED BY <2>2, <2>4
<1>4. /\ d.stat = c.stat /\ d.cur = c.cur /\ d.group = c.group /\ d.yld = c.yld /\ d.prio = c.prio
      /\ d.err = c.err /\ d.slice = c.slice /\ d.lock = c.lock /\ d.fault = c.fault
      /\ d.ready = c.ready /\ d.wait = c.wait
  BY <1>2 DEF SameBut, Fields
<1>5. KType(d) /\ ReadyOK(d) /\ WaitOK(d)
  BY <1>1, <1>2, <1>4 DEF KType, SameBut, ReadyOK, WaitOK
<1>6. TimerOK(d)
  BY <1>1, <1>3, <1>4 DEF TimerOK, Timed
<1>7. ASSUME NEW u, u # t, Timed(c, u) PROVE Timed(d, u)
  <2>1. PICK j \in 1 .. Len(c.timer) : c.timer[j][1] = u
    BY <1>7 DEF Timed
  <2>2. PICK i \in 1 .. Len(d.timer) : d.timer[i] = c.timer[j]
    BY <1>3, <1>7, <2>1
  <2> QED BY <2>1, <2>2 DEF Timed
<1> QED BY <1>2, <1>3, <1>5, <1>6, <1>7 DEF Kernel, Timed, SubTimers

\* rt_timer_start for a suspended thread.
LEMMA TimerStarted ==
  ASSUME NEW c, Kernel(c), NEW t \in Threads, c.stat[t] = "suspend", NEW n \in Int,
         NEW d, d = rt_timer_start(c, t, n)
  PROVE  /\ Kernel(d) /\ SameBut(c, d, {"timer"})
         /\ Armed(c) /\ n > 0 => Armed(d)
         /\ NewTimer(c, d, t)
<1>0. PICK b : b = rt_timer_stop(c, t)
  OBVIOUS
<1> DEFINE tm == b.timer
<1>1. /\ Kernel(b) /\ SameBut(c, b, {"timer"}) /\ ~Timed(b, t)
      /\ SubTimers(c, b)
  BY <1>0, TimerStopped
<1>2. KType(c) /\ ReadyOK(c) /\ WaitOK(c) /\ TimerOK(c)
  BY DEF Kernel
<1>3. /\ SameBut(c, d, {"timer"})
      /\ d.timer = With(tm, t, n)
  BY <1>0, <1>2 DEF rt_timer_start, timer_insert, KType, SameBut, Fields, With, Later
<1>4. Timers(tm) /\ \A i \in 1 .. Len(tm) : tm[i][1] # t
  BY <1>1 DEF Kernel, TimerOK, Timed
<1>5. /\ Timers(d.timer)
      /\ \A i \in 1 .. Len(d.timer) : d.timer[i] = <<t, n>> \/ \E j \in 1 .. Len(tm) : d.timer[i] = tm[j]
  <2> HIDE DEF tm
  <2> QED BY <1>3, <1>4, StartTimers
<1>6. /\ d.stat = c.stat /\ d.cur = c.cur /\ d.group = c.group /\ d.yld = c.yld /\ d.prio = c.prio
      /\ d.err = c.err /\ d.slice = c.slice /\ d.lock = c.lock /\ d.fault = c.fault
      /\ d.ready = c.ready /\ d.wait = c.wait
  BY <1>3 DEF SameBut, Fields
<1>7. KType(d) /\ ReadyOK(d) /\ WaitOK(d)
  BY <1>2, <1>3, <1>6 DEF KType, SameBut, ReadyOK, WaitOK
<1>8. \A i \in 1 .. Len(d.timer) :
        d.timer[i] = <<t, n>> \/ \E j \in 1 .. Len(c.timer) : d.timer[i] = c.timer[j]
  BY <1>1, <1>5 DEF SubTimers
<1>9. TimerOK(d)
  <2>1. ASSUME NEW u \in Threads, NEW i \in 1 .. Len(d.timer), d.timer[i][1] = u
        PROVE  d.stat[u] = "suspend"
    <3>1. CASE d.timer[i] = <<t, n>>
      BY <1>6, <2>1, <3>1
    <3>2. CASE \E j \in 1 .. Len(c.timer) : d.timer[i] = c.timer[j]
      <4>1. Timed(c, u)
        BY <2>1, <3>2 DEF Timed
      <4> QED BY <1>2, <1>6, <4>1 DEF TimerOK
    <3> QED BY <1>8, <3>1, <3>2
  <2> QED BY <1>5, <2>1 DEF TimerOK, Timed
<1>10. Armed(c) /\ n > 0 => Armed(d)
  BY <1>8, SMTT(30) DEF Armed
<1>11. NewTimer(c, d, t)
  BY <1>8 DEF NewTimer, Timed
<1> QED BY <1>3, <1>7, <1>9, <1>10, <1>11 DEF Kernel

\* rt_schedule_insert_thread for a thread in no list that is not the current one.
LEMMA Inserted ==
  ASSUME NEW c, Kernel(c), NEW t \in Threads, t # c.cur, c.stat[t] \notin {"ready", "close"},
         ~Waits(c, t), ~Timed(c, t), NEW d, d = rt_schedule_insert_thread(c, t)
  PROVE  /\ Kernel(d) /\ SameBut(c, d, {"stat", "ready", "group"})
         /\ d.stat = [c.stat EXCEPT ![t] = "ready"]
<1>1. KType(c) /\ ReadyOK(c) /\ WaitOK(c) /\ TimerOK(c)
  BY DEF Kernel
<1> DEFINE p == c.prio[t]
           l == IF t \in c.yld THEN Append(c.ready[p], t) ELSE Cons(t, c.ready[p])
<1>2. /\ SameBut(c, d, {"stat", "fault", "ready", "group"})
      /\ d.stat = [c.stat EXCEPT ![t] = "ready"]
      /\ d.fault = (c.fault \/ Linked(c, t))
      /\ d.group = c.group \cup {p}
      /\ d.ready = [c.ready EXCEPT ![p] = l]
  BY <1>1 DEF rt_schedule_insert_thread, SameBut, Fields, KType
<1>3. p \in Prios /\ \A q \in Prios : IsList(Threads, c.ready[q]) /\ ~InList(t, c.ready[q])
  BY <1>1 DEF KType, ReadyOK
<1>4. IsList(Threads, l) /\ \A u : InList(u, l) <=> InList(u, c.ready[p]) \/ u = t
  BY <1>3, ConsFacts
<1> HIDE DEF l
<1>5. ~Linked(c, t)
  <2>1. \A q \in Prios : ~Contains(c.ready[q], t)
    BY <1>3, InListDef DEF Contains, IsList
  <2>2. \A w \in Lists : ~Contains(c.wait[w], t)
    <3>1. \A w \in Lists : IsList(Threads, c.wait[w]) /\ ~InList(t, c.wait[w])
      BY <1>1 DEF WaitOK, Waits
    <3> QED BY <3>1, InListDef DEF Contains, IsList
  <2>3. DOMAIN c.wait = Lists
    BY <1>1 DEF KType
  <2> QED BY <2>1, <2>2, <2>3 DEF Linked
<1>6. d.fault = FALSE /\ c.fault = FALSE
  BY <1>1, <1>2, <1>5 DEF KType
<1>7. SameBut(c, d, {"stat", "ready", "group"})
  BY <1>2, <1>6 DEF SameBut
<1>8. /\ d.cur = c.cur /\ d.yld = c.yld /\ d.prio = c.prio /\ d.timer = c.timer
      /\ d.err = c.err /\ d.slice = c.slice /\ d.lock = c.lock /\ d.wait = c.wait
  BY <1>7 DEF SameBut, Fields
<1>9. KType(d)
  <2>1. l \in Seq(Threads)
    BY <1>4 DEF IsList
  <2>2. d.ready \in [Prios -> Seq(Threads)] /\ d.stat \in [Threads -> Stats]
        /\ d.group \subseteq Prios
    BY <1>1, <1>2, <1>3, <2>1 DEF KType, Stats
  <2> QED BY <1>1, <1>6, <1>7, <1>8, <2>2 DEF KType, SameBut
<1>10. ReadyOK(d)
  <2>1. \A q \in Prios : d.ready[q] = IF q = p THEN l ELSE c.ready[q]
    BY <1>1, <1>2, <1>3 DEF KType
  <2>2. \A u \in Threads : d.stat[u] = IF u = t THEN "ready" ELSE c.stat[u]
    BY <1>1, <1>2 DEF KType
  <2>3. \A q \in Prios : IsList(Threads, d.ready[q])
    BY <1>3, <1>4, <2>1
  <2>4. ASSUME NEW q \in Prios, NEW u \in Threads
        PROVE  InList(u, d.ready[q]) <=> d.stat[u] = "ready" /\ q = d.prio[u]
    <3>1. InList(u, c.ready[q]) <=> c.stat[u] = "ready" /\ q = c.prio[u]
      BY <1>1 DEF ReadyOK
    <3> QED BY <1>3, <1>4, <1>8, <2>1, <2>2, <3>1
  <2>5. ASSUME NEW q \in Prios PROVE q \in d.group <=> d.ready[q] # << >>
    <3>1. q \in c.group <=> c.ready[q] # << >>
      BY <1>1 DEF ReadyOK
    <3>2. l # << >>
      BY <1>4 DEF InList
    <3> QED BY <1>2, <2>1, <3>1, <3>2
  <2> QED BY <2>3, <2>4, <2>5 DEF ReadyOK
<1>11. WaitOK(d)
  <2>1. \A u \in Threads : u # t => d.stat[u] = c.stat[u]
    BY <1>1, <1>2 DEF KType
  <2>2. d.stat[t] = "ready"
    BY <1>1, <1>2 DEF KType
  <2> QED BY <1>1, <1>8, <2>1, <2>2 DEF WaitOK, Waits
<1>12. TimerOK(d)
  <2>1. \A u \in Threads : u # t => d.stat[u] = c.stat[u]
    BY <1>1, <1>2 DEF KType
  <2> QED BY <1>1, <1>8, <2>1 DEF TimerOK, Timed
<1> QED BY <1>2, <1>7, <1>9, <1>10, <1>11, <1>12 DEF Kernel

\* Kernel state d is c but for the state x of thread t.
Stated(c, d, t, x) == SameBut(c, d, {"stat"}) /\ d.stat = [c.stat EXCEPT ![t] = x]

\* An assignment to thread->stat.
LEMMA StatSet ==
  ASSUME NEW c, Kernel(c), NEW t, NEW x, NEW d, d = [c EXCEPT !.stat[t] = x]
  PROVE  Stated(c, d, t, x)
<1>1. DOMAIN c = Fields
  BY DEF Kernel, KType
<1>2. SameBut(c, d, {"stat"})
  BY <1>1 DEF SameBut, Fields
<1>3. d.stat = [c.stat EXCEPT ![t] = x]
  BY <1>1 DEF Fields
<1> QED BY <1>2, <1>3 DEF Stated

\* A change of state alone, of a thread in no list.
LEMMA Restated ==
  ASSUME NEW c, Kernel(c), NEW t \in Threads, c.stat[t] \notin {"ready", "close"},
         ~Waits(c, t), ~Timed(c, t), NEW x \in {"running", "suspend", "init"},
         NEW d, Stated(c, d, t, x)
  PROVE  Kernel(d)
<1>1. KType(c) /\ ReadyOK(c) /\ WaitOK(c) /\ TimerOK(c)
  BY DEF Kernel
<1>2. SameBut(c, d, {"stat"}) /\ d.stat = [c.stat EXCEPT ![t] = x]
  BY DEF Stated
<1>3. /\ d.cur = c.cur /\ d.yld = c.yld /\ d.prio = c.prio /\ d.timer = c.timer
      /\ d.err = c.err /\ d.slice = c.slice /\ d.lock = c.lock /\ d.wait = c.wait
      /\ d.ready = c.ready /\ d.group = c.group /\ d.fault = c.fault
  BY <1>2 DEF SameBut, Fields
<1>4. \A u \in Threads : d.stat[u] = IF u = t THEN x ELSE c.stat[u]
  BY <1>1, <1>2 DEF KType
<1>5. KType(d)
  <2>1. d.stat \in [Threads -> Stats]
    BY <1>1, <1>2 DEF KType, Stats
  <2> QED BY <1>1, <1>2, <1>3, <2>1 DEF KType, SameBut
<1>6. ReadyOK(d)
  BY <1>1, <1>3, <1>4 DEF ReadyOK
<1>7. WaitOK(d)
  BY <1>1, <1>3, <1>4 DEF WaitOK, Waits
<1>8. TimerOK(d)
  BY <1>1, <1>3, <1>4 DEF TimerOK, Timed
<1> QED BY <1>2, <1>5, <1>6, <1>7, <1>8 DEF Kernel

\* The bit of a priority is cleared with the last thread of its list.
BitCleared(c, d, t) ==
  d.group = IF d.ready[c.prio[t]] = << >> THEN c.group \ {c.prio[t]} ELSE c.group

\* rt_schedule_remove_thread, field by field, for a thread that waits nowhere.
LEMMA RemovedFields ==
  ASSUME NEW c, Kernel(c), NEW t \in Threads, ~Waits(c, t), NEW d,
         d = rt_schedule_remove_thread(c, t)
  PROVE  /\ SameBut(c, d, {"ready", "group"}) /\ d.ready = Unlinks(c.ready, Prios, t)
         /\ BitCleared(c, d, t)
<1>1. KType(c) /\ WaitOK(c)
  BY DEF Kernel
<1>2. PICK u : u = rt_list_remove(c, t)
  OBVIOUS
<1>3. /\ SameBut(c, u, {"ready", "wait"})
      /\ u.ready = Unlinks(c.ready, Prios, t)
      /\ u.wait = Unlinks(c.wait, Lists, t)
  BY <1>1, <1>2, UnlinkFields
<1>4. u.wait = c.wait
  <2>1. \A w \in Lists : IsList(Threads, c.wait[w]) /\ ~InList(t, c.wait[w])
    BY <1>1 DEF WaitOK, Waits
  <2>2. c.wait \in [Lists -> Seq(Threads)]
    BY <1>1 DEF KType
  <2> QED BY <1>3, <2>1, <2>2, NotThere
<1>5. SameBut(c, u, {"ready"}) /\ u.group = c.group
  BY <1>3, <1>4 DEF SameBut, Fields
<1>6. d = IF u.ready[c.prio[t]] = << >> THEN [u EXCEPT !.group = @ \ {c.prio[t]}] ELSE u
  BY <1>2 DEF rt_schedule_remove_thread, clear_if_empty
<1>7. CASE u.ready[c.prio[t]] = << >>
  <2>1. d = [u EXCEPT !.group = @ \ {c.prio[t]}]
    BY <1>6, <1>7
  <2>2. SameBut(u, d, {"group"}) /\ d.group = c.group \ {c.prio[t]}
    BY <1>5, <2>1 DEF SameBut, Fields
  <2>3. d.ready = u.ready
    BY <2>2 DEF SameBut, Fields
  <2> QED BY <1>3, <1>5, <1>7, <2>2, <2>3 DEF SameBut, BitCleared
<1>8. CASE u.ready[c.prio[t]] # << >>
  BY <1>3, <1>5, <1>6, <1>8 DEF SameBut, BitCleared
<1> QED BY <1>7, <1>8

\* A ready or running thread is taken off the ready list and changes its state.
LEMMA TakenOff ==
  ASSUME NEW c, Kernel(c), NEW t \in Threads, c.stat[t] \in {"ready", "running"},
         NEW x \in {"running", "suspend"},
         NEW d, d = [rt_schedule_remove_thread(c, t) EXCEPT !.stat[t] = x]
  PROVE  /\ Kernel(d) /\ SameBut(c, d, {"stat", "ready", "group"})
         /\ d.stat = [c.stat EXCEPT ![t] = x]
<1>1. KType(c) /\ ReadyOK(c) /\ WaitOK(c) /\ TimerOK(c)
  BY DEF Kernel
<1>2. ~Waits(c, t) /\ ~Timed(c, t)
  BY <1>1 DEF WaitOK, Waits, TimerOK
<1>3. PICK b : b = rt_schedule_remove_thread(c, t)
  OBVIOUS
<1>4. /\ SameBut(c, b, {"ready", "group"}) /\ b.ready = Unlinks(c.ready, Prios, t)
      /\ BitCleared(c, b, t)
  BY <1>2, <1>3, RemovedFields
<1>5. b.stat = c.stat
  BY <1>4 DEF SameBut, Fields
<1>6. SameBut(b, d, {"stat"}) /\ d.stat = [c.stat EXCEPT ![t] = x]
  BY <1>3, <1>4, <1>5 DEF SameBut, Fields
<1>7. SameBut(c, d, {"stat", "ready", "group"})
  BY <1>4, <1>6 DEF SameBut
<1>8. /\ d.cur = c.cur /\ d.yld = c.yld /\ d.prio = c.prio /\ d.timer = c.timer
      /\ d.err = c.err /\ d.slice = c.slice /\ d.lock = c.lock /\ d.wait = c.wait
      /\ d.fault = c.fault
  BY <1>7 DEF SameBut, Fields
<1>9. d.ready = b.ready /\ d.group = b.group
  BY <1>6 DEF SameBut, Fields
<1>10. \A u \in Threads : d.stat[u] = IF u = t THEN x ELSE c.stat[u]
  BY <1>1, <1>6 DEF KType
<1>11. \A q \in Prios : /\ IsList(Threads, d.ready[q])
                        /\ \A u : InList(u, d.ready[q]) <=> InList(u, c.ready[q]) /\ u # t
                        /\ ~InList(t, c.ready[q]) => d.ready[q] = c.ready[q]
  <2>1. \A q \in Prios : IsList(Threads, c.ready[q]) /\ d.ready[q] = RemoveFirst(c.ready[q], t)
    BY <1>1, <1>4, <1>9 DEF ReadyOK, Unlinks
  <2> QED BY <2>1, RemoveFacts
<1>12. KType(d)
  <2>1. d.ready \in [Prios -> Seq(Threads)]
    BY <1>4, <1>9, <1>11 DEF Unlinks, IsList
  <2>2. d.stat \in [Threads -> Stats] /\ d.group \subseteq Prios
    BY <1>1, <1>4, <1>6, <1>9 DEF KType, Stats, BitCleared
  <2> QED BY <1>1, <1>7, <1>8, <2>1, <2>2 DEF KType, SameBut
<1>13. ReadyOK(d)
  <2>1. ASSUME NEW q \in Prios, NEW u \in Threads
        PROVE  InList(u, d.ready[q]) <=> d.stat[u] = "ready" /\ q = d.prio[u]
    <3>1. InList(u, c.ready[q]) <=> c.stat[u] = "ready" /\ q = c.prio[u]
      BY <1>1 DEF ReadyOK
    <3> QED BY <1>8, <1>10, <1>11, <3>1
  <2>2. ASSUME NEW q \in Prios PROVE q \in d.group <=> d.ready[q] # << >>
    <3>1. q \in c.group <=> c.ready[q] # << >>
      BY <1>1 DEF ReadyOK
    <3>2. CASE q = c.prio[t] /\ d.ready[q] # << >>
      <4>1. d.ready[q] \in Seq(Threads) /\ c.ready[q] \in Seq(Threads)
        BY <1>1, <1>12 DEF KType
      <4>2. PICK e : InList(e, d.ready[q])
        BY <3>2, <4>1, EmptyFacts
      <4>3. InList(e, c.ready[q])
        BY <1>11, <4>2
      <4>4. c.ready[q] # << >>
        BY <4>1, <4>3, EmptyFacts
      <4> QED BY <1>4, <1>9, <3>1, <3>2, <4>4 DEF BitCleared
    <3>3. CASE q = c.prio[t] /\ d.ready[q] = << >>
      BY <1>4, <1>9, <3>3 DEF BitCleared
    <3>4. CASE q # c.prio[t]
      <4>1. ~InList(t, c.ready[q])
        BY <1>1, <3>4 DEF ReadyOK
      <4>2. d.ready[q] = c.ready[q]
        BY <1>11, <4>1
      <4> QED BY <1>4, <1>9, <3>1, <3>4, <4>2 DEF BitCleared
    <3> QED BY <3>2, <3>3, <3>4
  <2> QED BY <1>11, <2>1, <2>2 DEF ReadyOK
<1>14. WaitOK(d)
  BY <1>1, <1>2, <1>8, <1>10 DEF WaitOK, Waits
<1>15. TimerOK(d)
  BY <1>1, <1>2, <1>8, <1>10 DEF TimerOK, Timed
<1> QED BY <1>6, <1>7, <1>12, <1>13, <1>14, <1>15 DEF Kernel

\* Kernel does not depend on the other fields.
LEMMA KernelSame ==
  ASSUME NEW c, Kernel(c), NEW d, KType(d), d.stat = c.stat, d.prio = c.prio, d.ready = c.ready,
         d.group = c.group, d.wait = c.wait, d.timer = c.timer
  PROVE  Kernel(d)
<1>1. ReadyOK(c) /\ WaitOK(c) /\ TimerOK(c)
  BY DEF Kernel
<1>2. ReadyOK(d)
  BY <1>1 DEF ReadyOK
<1>3. WaitOK(d)
  BY <1>1 DEF WaitOK
<1>4. TimerOK(d)
  BY <1>1 DEF TimerOK, Timed
<1> QED BY <1>2, <1>3, <1>4 DEF Kernel

\* A suspended thread becomes ready, or running if it is still the current one.
Awake(c, d, t) == d.stat = [c.stat EXCEPT ![t] = IF t = c.cur THEN "running" ELSE "ready"]

\* rt_schedule_insert_thread for a suspended thread that has been unlinked.
LEMMA Enlisted ==
  ASSUME NEW c, KInv(c), NEW t \in Threads, c.stat[t] = "suspend", ~Waits(c, t), ~Timed(c, t),
         NEW d, d = rt_schedule_insert_thread(c, t)
  PROVE  KInv(d) /\ SameBut(c, d, {"stat", "ready", "group"}) /\ Awake(c, d, t)
<1>1. Kernel(c) /\ CurOK(c) /\ c.stat \in [Threads -> Stats]
  BY DEF KInv, Kernel, KType
<1>2. c.stat[t] \notin {"ready", "close"}
  OBVIOUS
<1>3. CASE t = c.cur
  <2>1. d = [c EXCEPT !.stat[t] = "running"]
    BY <1>3 DEF rt_schedule_insert_thread
  <2>2. Kernel(d) /\ SameBut(c, d, {"stat"}) /\ d.stat = [c.stat EXCEPT ![t] = "running"]
    <3>1. PICK x : x = "running"
      OBVIOUS
    <3>2. Stated(c, d, t, x) /\ x \in {"running", "suspend", "init"}
      BY <1>1, <2>1, <3>1, StatSet
    <3>3. Kernel(d)
      BY <1>1, <1>2, <3>2, Restated
    <3> QED BY <3>1, <3>2, <3>3 DEF Stated
  <2>3. d.cur = c.cur /\ SameBut(c, d, {"stat", "ready", "group"})
    BY <2>2 DEF SameBut, Fields
  <2>4. CurOK(d)
    BY <1>1, <1>3, <2>2, <2>3 DEF CurOK
  <2> QED BY <1>3, <2>2, <2>3, <2>4 DEF KInv, Awake
<1>4. CASE t # c.cur
  <2>1. /\ Kernel(d) /\ SameBut(c, d, {"stat", "ready", "group"})
        /\ d.stat = [c.stat EXCEPT ![t] = "ready"]
    BY <1>1, <1>2, <1>4, Inserted
  <2>2. d.cur = c.cur
    BY <2>1 DEF SameBut, Fields
  <2>3. CurOK(d)
    BY <1>1, <1>4, <2>1, <2>2 DEF CurOK
  <2> QED BY <1>4, <2>1, <2>3 DEF KInv, Awake
<1> QED BY <1>3, <1>4

\* The current thread is the same and its state and all others' are.
LEMMA CurSame ==
  ASSUME NEW c, CurOK(c), NEW d, d.cur = c.cur, d.stat = c.stat
  PROVE  CurOK(d)
  BY DEF CurOK

\* rt_thread_resume, both of its sections, for a suspended thread.
LEMMA ThreadResumed ==
  ASSUME NEW c, KInv(c), NEW t \in Threads, c.stat[t] = "suspend",
         NEW d, d = rt_thread_resume(c, t)
  PROVE  /\ KInv(d) /\ SameBut(c, d, {"stat", "ready", "group", "wait", "timer"})
         /\ Awake(c, d, t) /\ WaitLess(c, d, t) /\ SubTimers(c, d)
<1>1. PICK a : a = rt_list_remove(c, t)
  OBVIOUS
<1>2. PICK b : b = rt_timer_stop(a, t)
  OBVIOUS
<1>3. d = rt_schedule_insert_thread(b, t)
  BY <1>1, <1>2 DEF rt_thread_resume
<1>4. Kernel(c) /\ CurOK(c)
  BY DEF KInv
<1>5. Kernel(a) /\ SameBut(c, a, {"wait"}) /\ ~Waits(a, t) /\ WaitLess(c, a, t)
  BY <1>1, <1>4, Unlinked
<1>6. Kernel(b) /\ SameBut(a, b, {"timer"}) /\ ~Timed(b, t) /\ SubTimers(a, b)
  BY <1>2, <1>5, TimerStopped
<1>7. a.timer = c.timer /\ b.wait = a.wait /\ b.stat = c.stat /\ b.cur = c.cur
  BY <1>5, <1>6 DEF SameBut, Fields
<1>8. KInv(b) /\ b.stat[t] = "suspend" /\ ~Waits(b, t)
  BY <1>4, <1>5, <1>6, <1>7, CurSame DEF KInv, Waits
<1>9. KInv(d) /\ SameBut(b, d, {"stat", "ready", "group"}) /\ Awake(b, d, t)
  BY <1>3, <1>6, <1>8, Enlisted
<1>10. SameBut(c, d, {"stat", "ready", "group", "wait", "timer"})
  BY <1>5, <1>6, <1>9 DEF SameBut
<1>11. d.wait = a.wait /\ d.timer = b.timer
  BY <1>7, <1>9 DEF SameBut, Fields
<1>12. Awake(c, d, t) /\ WaitLess(c, d, t) /\ SubTimers(c, d)
  BY <1>5, <1>6, <1>7, <1>9, <1>11 DEF Awake, WaitLess, SubTimers
<1> QED BY <1>9, <1>10, <1>12

\* Only threads that could run are switched.
Swaps(c, d) ==
  \A u \in Threads : \/ d.stat[u] = c.stat[u]
                     \/ c.stat[u] \in {"ready", "running"} /\ d.stat[u] \in {"ready", "running"}

\* The current thread runs, and no ready thread has a higher priority.
Quiet(c) ==
  /\ c.cur \in Threads /\ c.stat[c.cur] = "running"
  /\ \A t \in Threads : c.stat[t] = "ready" => c.prio[c.cur] <= c.prio[t]

\* The bitmap has the priorities of the ready threads, so its least bit is
\* the highest priority of them.
LEMMA Highest ==
  ASSUME NEW c, Kernel(c)
  PROVE  /\ \A t \in Threads : c.stat[t] = "ready" => c.prio[t] \in c.group
         /\ c.group # {} =>
              LET h == Min(c.group) IN
                /\ h \in Prios /\ h \in Int /\ \A q \in c.group : q \in Int /\ h <= q
                /\ c.ready[h] # << >> /\ Head(c.ready[h]) \in Threads
                /\ c.stat[Head(c.ready[h])] = "ready" /\ c.prio[Head(c.ready[h])] = h
<1>1. KType(c) /\ ReadyOK(c)
  BY DEF Kernel
<1>2. ASSUME NEW t \in Threads, c.stat[t] = "ready" PROVE c.prio[t] \in c.group
  <2>1. c.prio[t] \in Prios /\ c.ready[c.prio[t]] \in Seq(Threads)
    BY <1>1 DEF KType
  <2>2. InList(t, c.ready[c.prio[t]])
    BY <1>1, <1>2, <2>1 DEF ReadyOK
  <2>3. c.ready[c.prio[t]] # << >>
    BY <2>1, <2>2, EmptyFacts
  <2> QED BY <1>1, <2>1, <2>3 DEF ReadyOK
<1>3. ASSUME c.group # {}
      PROVE  LET h == Min(c.group) IN
                /\ h \in Prios /\ h \in Int /\ \A q \in c.group : q \in Int /\ h <= q
                /\ c.ready[h] # << >> /\ Head(c.ready[h]) \in Threads
                /\ c.stat[Head(c.ready[h])] = "ready" /\ c.prio[Head(c.ready[h])] = h
  <2> DEFINE h == Min(c.group)
  <2>1. c.group \in SUBSET Nat /\ c.group \subseteq Prios /\ MaxPrio \in Nat
    BY <1>1, SchedAssumption DEF KType, Prios
  <2>2. h \in c.group /\ \A q \in c.group : h <= q
    BY <1>3, <2>1, MinFacts
  <2> HIDE DEF h
  <2>3. h \in Prios /\ h \in Int /\ \A q \in c.group : q \in Int
    BY <2>1, <2>2
  <2>4. c.ready[h] \in Seq(Threads) /\ c.ready[h] # << >>
    BY <1>1, <2>2, <2>3 DEF KType, ReadyOK
  <2>5. Head(c.ready[h]) \in Threads /\ InList(Head(c.ready[h]), c.ready[h])
    BY <2>4, EmptyFacts
  <2>6. c.stat[Head(c.ready[h])] = "ready" /\ c.prio[Head(c.ready[h])] = h
    BY <1>1, <2>3, <2>5 DEF ReadyOK
  <2> QED BY <2>2, <2>3, <2>4, <2>5, <2>6 DEF h
<1> QED BY <1>2, <1>3

\* rt_schedule, when there is a thread to switch to or no need to.
LEMMA Scheduled ==
  ASSUME NEW c, KInv(c), c.cur \in Threads, c.stat[c.cur] = "running" \/ c.group # {},
         NEW d, d = rt_schedule(c)
  PROVE  /\ KInv(d) /\ SameBut(c, d, {"cur", "yld", "stat", "ready", "group"})
         /\ d.cur \in Threads /\ Swaps(c, d)
         /\ c.lock # 0 => d = c
         /\ c.lock = 0 => Quiet(d)
<1>1. /\ Kernel(c) /\ CurOK(c) /\ KType(c) /\ c.stat \in [Threads -> Stats] /\ DOMAIN c = Fields
      /\ \A t \in Threads : c.prio[t] \in Int
  <2>1. Kernel(c) /\ CurOK(c) /\ KType(c) /\ c.stat \in [Threads -> Stats] /\ DOMAIN c = Fields
    BY DEF KInv, Kernel, KType
  <2>2. c.prio \in [Threads -> Prios] /\ MaxPrio \in Nat
    BY <2>1, SchedAssumption DEF KType
  <2>3. \A p \in Prios : p \in Int
    BY <2>2 DEF Prios
  <2> QED BY <2>1, <2>2, <2>3
<1>2. CASE c.lock # 0 \/ c.group = {}
  <2>1. d = c
    BY <1>2, ZenonT(30) DEF rt_schedule
  <2>2. c.group = {} => Quiet(c)
    BY <1>1, Highest DEF Quiet
  <2> QED BY <1>1, <1>2, <2>1, <2>2, SMTT(30) DEF SameBut, Swaps
<1>3. CASE c.lock = 0 /\ c.group # {}
  <2> DEFINE from == c.cur
             h == Min(c.group)
             running == c.stat[from] = "running"
             stays == running /\ \/ c.prio[from] < h
                                 \/ c.prio[from] = h /\ from \notin c.yld
             to == IF stays THEN from ELSE Head(c.ready[h])
             y == IF running THEN c.yld \ {from} ELSE c.yld
  <2>1. PICK k1 : k1 = [c EXCEPT !.cur = to, !.yld = IF running THEN @ \ {from} ELSE @]
    OBVIOUS
  <2>2. PICK k2 : k2 = IF running /\ ~stays THEN rt_schedule_insert_thread(k1, from) ELSE k1
    BY ZenonT(30)
  <2>3. d = [rt_schedule_remove_thread(k2, to) EXCEPT !.stat[to] = "running"]
    <3>1. c.ready[h] # << >>
      BY <1>1, <1>3, Highest
    <3>2. d = IF ~stays /\ c.ready[h] = << >> THEN [c EXCEPT !.fault = TRUE]
              ELSE [rt_schedule_remove_thread(k2, to) EXCEPT !.stat[to] = "running"]
      BY <1>3, <2>1, <2>2, ZenonT(30) DEF rt_schedule
    <3> HIDE DEF stays, h, to
    <3> QED BY <3>1, <3>2
  <2>4. /\ h \in Int /\ \A t \in Threads : c.stat[t] = "ready" => h <= c.prio[t]
        /\ to \in Threads /\ (~stays => c.stat[to] = "ready" /\ c.prio[to] = h)
        /\ (stays => to = from /\ c.stat[to] = "running" /\ c.prio[to] <= h)
        /\ (running /\ ~stays => h <= c.prio[from])
    BY <1>1, <1>3, Highest
  <2> HIDE DEF h, to
  <2>5. SameBut(c, k1, {"cur", "yld"}) /\ k1.cur = to /\ k1.yld \subseteq Threads
    BY <1>1, <2>1 DEF SameBut, Fields, KType
  <2> HIDE DEF stays
  <2>6. /\ k1.stat = c.stat /\ k1.prio = c.prio /\ k1.ready = c.ready /\ k1.group = c.group
        /\ k1.wait = c.wait /\ k1.timer = c.timer /\ k1.err = c.err /\ k1.slice = c.slice
        /\ k1.lock = c.lock /\ k1.fault = c.fault
    BY <2>5 DEF SameBut, Fields
  <2>7. Kernel(k1)
    <3>1. KType(k1)
      BY <1>1, <2>4, <2>5, <2>6 DEF KType, SameBut
    <3> QED BY <1>1, <2>6, <3>1, KernelSame
  <2>8. /\ Kernel(k2) /\ SameBut(k1, k2, {"stat", "ready", "group"})
        /\ k2.stat = IF running /\ ~stays THEN [c.stat EXCEPT ![from] = "ready"] ELSE c.stat
    <3>1. CASE running /\ ~stays
      <4>1. to # from
        BY <2>4, <3>1
      <4>2. ~Waits(k1, from) /\ ~Timed(k1, from)
        BY <2>6, <2>7, <3>1 DEF Kernel, WaitOK, Waits, TimerOK
      <4>3. k1.stat[from] \notin {"ready", "close"} /\ from # k1.cur
        BY <2>5, <2>6, <3>1, <4>1
      <4>4. k2 = rt_schedule_insert_thread(k1, from)
        BY <2>2, <3>1
      <4> HIDE DEF running
      <4>5. /\ Kernel(k2) /\ SameBut(k1, k2, {"stat", "ready", "group"})
            /\ k2.stat = [k1.stat EXCEPT ![from] = "ready"]
        BY <2>7, <4>2, <4>3, <4>4, Inserted
      <4> QED BY <2>6, <3>1, <4>5
    <3>2. CASE ~(running /\ ~stays)
      <4>1. k2 = k1 /\ DOMAIN k1 = Fields
        BY <2>2, <2>5, <3>2 DEF SameBut
      <4> QED BY <2>6, <2>7, <3>2, <4>1 DEF SameBut
    <3> QED BY <3>1, <3>2
  <2>9. k2.stat[to] \in {"ready", "running"}
    BY <1>1, <2>4, <2>8
  <2>10. /\ Kernel(d) /\ SameBut(k2, d, {"stat", "ready", "group"})
         /\ d.stat = [k2.stat EXCEPT ![to] = "running"]
    <3>1. "running" \in {"running", "suspend"} /\ to \in Threads
      BY <2>4
    <3> QED BY <2>3, <2>8, <2>9, <3>1, TakenOff
  <2>11. SameBut(c, d, {"cur", "yld", "stat", "ready", "group"})
    BY <2>5, <2>8, <2>10 DEF SameBut
  <2>12. d.cur = to /\ d.prio = c.prio
    BY <2>5, <2>6, <2>8, <2>10 DEF SameBut, Fields
  <2>13. \A u \in Threads : d.stat[u] = IF u = to THEN "running"
                            ELSE IF u = from /\ running THEN "ready" ELSE c.stat[u]
    <3>1. k2.stat \in [Threads -> Stats]
      BY <2>8 DEF Kernel, KType
    <3>2. \A u \in Threads : d.stat[u] = IF u = to THEN "running" ELSE k2.stat[u]
      BY <2>10, <3>1
    <3>3. \A u \in Threads : k2.stat[u] = IF u = from /\ running /\ ~stays THEN "ready" ELSE c.stat[u]
      BY <1>1, <2>8
    <3> QED BY <2>4, <3>2, <3>3
  <2>14. CurOK(d)
    BY <1>1, <2>4, <2>12, <2>13 DEF CurOK
  <2>15. Swaps(c, d)
    BY <2>4, <2>13 DEF Swaps
  <2>16. Quiet(d)
    <3>1. to \in Threads /\ d.stat[to] = "running"
      BY <2>4, <2>13
    <3>2. c.prio[to] <= h
      BY <1>1, <2>4
    <3>3. ASSUME NEW u \in Threads, d.stat[u] = "ready" PROVE h <= c.prio[u]
      <4>1. CASE u = from /\ running
        BY <2>4, <2>13, <3>3, <4>1
      <4>2. CASE ~(u = from /\ running)
        BY <2>4, <2>13, <3>3, <4>2
      <4> QED BY <4>1, <4>2
    <3>4. ASSUME NEW u \in Threads, d.stat[u] = "ready" PROVE c.prio[to] <= c.prio[u]
      <4>1. h <= c.prio[u] /\ c.prio[u] \in Int /\ c.prio[to] \in Int /\ h \in Int
        BY <1>1, <2>4, <3>3, <3>4
      <4> QED BY <3>2, <4>1
    <3> QED BY <2>12, <3>1, <3>4 DEF Quiet
  <2> QED BY <1>3, <2>4, <2>10, <2>11, <2>12, <2>14, <2>15, <2>16 DEF KInv
<1> QED BY <1>2, <1>3

-----------------------------------------------------------------------------
(* Blocking calls *)

\* Thread t has entered the list w.
WaitMore(c, d, t, w) ==
  \A v \in Lists, u \in Threads : InList(u, d.wait[v]) <=> InList(u, c.wait[v]) \/ (u = t /\ v = w)

\* rt_thread_suspend for the current thread.
LEMMA Suspended ==
  ASSUME NEW c, KInv(c), c.cur \in Threads, c.stat[c.cur] = "running",
         NEW d, d = rt_thread_suspend(c, c.cur)
  PROVE  /\ KInv(d) /\ SameBut(c, d, {"stat", "ready", "group"})
         /\ d.stat = [c.stat EXCEPT ![c.cur] = "suspend"]
         /\ ~Waits(d, c.cur) /\ ~Timed(d, c.cur)
<1> DEFINE t == c.cur
<1>1. Kernel(c) /\ CurOK(c) /\ c.stat \in [Threads -> Stats]
  BY DEF KInv, Kernel, KType
<1>2. PICK b : b = [rt_schedule_remove_thread(c, t) EXCEPT !.stat[t] = "suspend"]
  OBVIOUS
<1>3. d = rt_timer_stop(b, t)
  BY <1>2 DEF rt_thread_suspend
<1>4. /\ Kernel(b) /\ SameBut(c, b, {"stat", "ready", "group"})
      /\ b.stat = [c.stat EXCEPT ![t] = "suspend"]
  <2>1. t \in Threads /\ c.stat[t] \in {"ready", "running"} /\ "suspend" \in {"running", "suspend"}
    OBVIOUS
  <2> QED BY <1>1, <1>2, <2>1, TakenOff
<1>5. ~Waits(c, t) /\ ~Timed(c, t)
  BY <1>1 DEF Kernel, WaitOK, Waits, TimerOK
<1>6. b.timer = c.timer /\ b.wait = c.wait /\ b.cur = c.cur
  BY <1>4 DEF SameBut, Fields
<1>7. Kernel(d) /\ SameBut(b, d, {"timer"}) /\ d.timer = b.timer
  BY <1>3, <1>4, <1>5, <1>6, TimerStopped DEF Timed
<1>8. SameBut(b, d, {}) /\ SameBut(c, d, {"stat", "ready", "group"})
  BY <1>4, <1>7 DEF SameBut
<1>9. d.stat = b.stat /\ d.wait = c.wait /\ d.timer = c.timer /\ d.cur = c.cur
  BY <1>6, <1>8 DEF SameBut, Fields
<1>10. CurOK(d)
  BY <1>1, <1>4, <1>9 DEF CurOK
<1> QED BY <1>4, <1>5, <1>7, <1>8, <1>9, <1>10 DEF KInv, Waits, Timed

\* A suspended thread enters a list to wait in.
LEMMA Entered ==
  ASSUME NEW c, KInv(c), NEW t \in Threads, c.stat[t] = "suspend", ~Waits(c, t),
         NEW w \in Lists, w # "defunct", NEW l, IsList(Threads, l),
         \A u : InList(u, l) <=> InList(u, c.wait[w]) \/ u = t,
         NEW d, d = [c EXCEPT !.wait[w] = l]
  PROVE  KInv(d) /\ SameBut(c, d, {"wait"}) /\ WaitMore(c, d, t, w)
<1>1. KType(c) /\ ReadyOK(c) /\ WaitOK(c) /\ TimerOK(c) /\ CurOK(c)
  BY DEF KInv, Kernel
<1>2. SameBut(c, d, {"wait"}) /\ d.wait = [c.wait EXCEPT ![w] = l]
  BY <1>1 DEF SameBut, Fields, KType
<1>3. /\ d.stat = c.stat /\ d.cur = c.cur /\ d.group = c.group /\ d.yld = c.yld /\ d.prio = c.prio
      /\ d.err = c.err /\ d.slice = c.slice /\ d.lock = c.lock /\ d.fault = c.fault
      /\ d.timer = c.timer /\ d.ready = c.ready
  BY <1>2 DEF SameBut, Fields
<1>4. KType(d)
  <2>1. d.wait \in [Lists -> Seq(Threads)]
    BY <1>1, <1>2 DEF KType, IsList
  <2> QED BY <1>1, <1>2, <1>3, <2>1 DEF KType, SameBut
<1>5. \A v \in Lists : d.wait[v] = IF v = w THEN l ELSE c.wait[v]
  BY <1>1, <1>2 DEF KType
<1>6. WaitMore(c, d, t, w)
  BY <1>5 DEF WaitMore
<1>7. WaitOK(d)
  <2>1. \A v \in Lists : IsList(Threads, d.wait[v])
    BY <1>1, <1>5 DEF WaitOK
  <2>2. ASSUME NEW v \in Lists, NEW u \in Threads, InList(u, d.wait[v])
        PROVE  d.stat[u] = IF v = "defunct" THEN "close" ELSE "suspend"
    <3>1. InList(u, c.wait[v]) \/ (u = t /\ v = w)
      BY <1>6, <2>2 DEF WaitMore
    <3> QED BY <1>1, <1>3, <3>1 DEF WaitOK
  <2>3. "defunct" \in Lists
    BY DEF Lists, WaitLists
  <2>4. \A u \in Threads : d.stat[u] = "close" => InList(u, d.wait["defunct"])
    BY <1>1, <1>3, <1>6, <2>3 DEF WaitOK, WaitMore
  <2>5. ASSUME NEW v \in Lists, NEW x \in Lists, NEW u \in Threads,
               InList(u, d.wait[v]), InList(u, d.wait[x])
        PROVE  v = x
    <3>1. CASE u = t
      BY <1>6, <2>5, <3>1 DEF WaitMore, Waits
    <3>2. CASE u # t
      BY <1>1, <1>6, <2>5, <3>2 DEF WaitMore, WaitOK
    <3> QED BY <3>1, <3>2
  <2> QED BY <2>1, <2>2, <2>4, <2>5 DEF WaitOK
<1>8. ReadyOK(d) /\ TimerOK(d) /\ CurOK(d)
  BY <1>1, <1>3 DEF ReadyOK, TimerOK, CurOK, Timed
<1> QED BY <1>2, <1>4, <1>6, <1>7, <1>8 DEF KInv, Kernel

\* The current thread is suspended in list w, for n ticks or for ever.
Suspends(c, d, t, w) ==
  /\ KInv(d) /\ SameBut(c, d, {"stat", "ready", "group", "wait", "timer", "err"})
  /\ d.stat = [c.stat EXCEPT ![t] = "suspend"] /\ WaitMore(c, d, t, w)
  /\ (Armed(c) => Armed(d)) /\ NewTimer(c, d, t)
  /\ \A u \in Threads : u # t => d.err[u] = c.err[u]

\* The timer is started if there is a timeout.
LEMMA MaybeTimed ==
  ASSUME NEW c, KInv(c), NEW t \in Threads, c.stat[t] = "suspend", NEW n \in Int,
         NEW d, d = IF n > 0 THEN rt_timer_start(c, t, n) ELSE c
  PROVE  /\ KInv(d) /\ SameBut(c, d, {"timer"}) /\ (Armed(c) => Armed(d))
         /\ NewTimer(c, d, t)
<1>1. Kernel(c) /\ CurOK(c) /\ DOMAIN c = Fields
  BY DEF KInv, Kernel, KType
<1>2. CASE n > 0
  <2>1. d = rt_timer_start(c, t, n)
    BY <1>2
  <2>2. Kernel(d) /\ SameBut(c, d, {"timer"}) /\ (Armed(c) /\ n > 0 => Armed(d)) /\ NewTimer(c, d, t)
    BY <1>1, <2>1, TimerStarted
  <2>3. d.cur = c.cur /\ d.stat = c.stat
    BY <2>2 DEF SameBut, Fields
  <2> QED BY <1>1, <1>2, <2>2, <2>3, CurSame DEF KInv
<1>3. CASE ~(n > 0)
  BY <1>1, <1>3 DEF SameBut, NewTimer
<1> QED BY <1>2, <1>3

\* A section that first changes fields no invariant is about.
LEMMA Prepared ==
  ASSUME NEW c, KInv(c), NEW d, SameBut(c, d, {"err", "evset", "evinfo", "ev", "slice", "yld", "lock",
                                               "sem", "mb", "mq", "mp"}),
         d.err \in [Threads -> Errors], d.slice \in [Threads -> 1 .. Slice], d.yld \subseteq Threads,
         d.lock \in Nat
  PROVE  /\ KInv(d) /\ d.stat = c.stat /\ d.wait = c.wait /\ d.timer = c.timer /\ d.cur = c.cur
         /\ d.prio = c.prio /\ d.ready = c.ready /\ d.group = c.group /\ d.fault = c.fault
<1>1. Kernel(c) /\ CurOK(c) /\ KType(c)
  BY DEF KInv, Kernel
<1>2. /\ d.stat = c.stat /\ d.wait = c.wait /\ d.timer = c.timer /\ d.cur = c.cur
      /\ d.prio = c.prio /\ d.ready = c.ready /\ d.group = c.group /\ d.fault = c.fault
  BY DEF SameBut, Fields
<1>3. KType(d)
  BY <1>1, <1>2 DEF KType, SameBut
<1> QED BY <1>1, <1>2, <1>3, KernelSame, CurSame DEF KInv

\* What every blocking call does when it has to wait.
LEMMA SuspendedOn ==
  ASSUME NEW c, KInv(c), c.cur \in Threads, c.stat[c.cur] = "running",
         NEW w \in Lists, w # "defunct", NEW n \in Int, NEW r, r = suspend_on(c, c.cur, w, n)
  PROVE  /\ r.at = "block" /\ r.ret = None /\ r.val = None
         /\ Suspends(c, r.k, c.cur, w) /\ r.k.err[c.cur] = "EINTR"
<1> DEFINE t == c.cur
<1>0. c.err \in [Threads -> Errors] /\ c.slice \in [Threads -> 1 .. Slice] /\ c.yld \subseteq Threads
      /\ c.lock \in Nat /\ DOMAIN c = Fields /\ "EINTR" \in Errors /\ c.stat \in [Threads -> Stats]
  BY DEF KInv, Kernel, KType, Errors
<1>1. PICK a : a = [c EXCEPT !.err[t] = "EINTR"]
  OBVIOUS
<1>2. PICK b : b = rt_thread_suspend(a, t)
  OBVIOUS
<1> DEFINE s == b.wait[w]
           lower == {i \in DOMAIN s : c.flag = "PRIO" /\ b.prio[t] < b.prio[s[i]]}
           l == InsertAt(s, place(s, lower), t)
<1>3. PICK e : e = [b EXCEPT !.wait[w] = l]
  BY ZenonT(30)
<1>4. PICK d : d = IF n > 0 THEN rt_timer_start(e, t, n) ELSE e
  OBVIOUS
<1>5. r = Block(d)
  BY <1>1, <1>2, <1>3, <1>4, ZenonT(30) DEF suspend_on, start_timeout, _ipc_list_suspend, enlist, waiting
<1>6. SameBut(c, a, {"err"}) /\ a.err = [c.err EXCEPT ![t] = "EINTR"]
  BY <1>0, <1>1 DEF SameBut, Fields
<1>7. KInv(a) /\ a.stat = c.stat /\ a.wait = c.wait /\ a.timer = c.timer /\ a.cur = c.cur
  <2>1. a.slice = c.slice /\ a.yld = c.yld /\ a.lock = c.lock
    BY <1>6 DEF SameBut, Fields
  <2>2. SameBut(c, a, {"err", "evset", "evinfo", "ev", "slice", "yld", "lock", "sem", "mb", "mq", "mp"})
    BY <1>6 DEF SameBut
  <2>3. a.err \in [Threads -> Errors]
    BY <1>0, <1>6
  <2> QED BY <1>0, <2>1, <2>2, <2>3, Prepared
<1>8. /\ KInv(b) /\ SameBut(a, b, {"stat", "ready", "group"})
      /\ b.stat = [c.stat EXCEPT ![t] = "suspend"] /\ ~Waits(b, t) /\ ~Timed(b, t)
  BY <1>2, <1>7, Suspended
<1>9. b.wait = c.wait /\ b.timer = c.timer /\ b.err = a.err
  BY <1>7, <1>8 DEF SameBut, Fields
<1>10. IsList(Threads, l) /\ \A u : InList(u, l) <=> InList(u, b.wait[w]) \/ u = t
  <2>1. IsList(Threads, s) /\ ~InList(t, s)
    BY <1>8 DEF KInv, Kernel, WaitOK, Waits
  <2>2. s \in Seq(Threads) /\ DOMAIN s = 1 .. Len(s)
    BY <2>1, LenProperties DEF IsList
  <2>3. lower \in SUBSET (1 .. Len(s))
    BY <2>2
  <2> HIDE DEF lower, s
  <2>4. place(s, lower) \in 1 .. Len(s) + 1
    BY <2>2, <2>3, PlaceFacts
  <2>5. IsList(Threads, l) /\ \A u : InList(u, l) <=> InList(u, s) \/ u = t
    BY <2>1, <2>4, InsertFacts
  <2> QED BY <2>5 DEF s
<1> HIDE DEF l
<1>11. KInv(e) /\ SameBut(b, e, {"wait"}) /\ WaitMore(b, e, t, w)
  <2>1. b.stat[t] = "suspend"
    BY <1>0, <1>8
  <2> QED BY <1>3, <1>8, <1>10, <2>1, Entered
<1>12. e.stat = b.stat /\ e.timer = c.timer /\ e.err = a.err
  BY <1>9, <1>11 DEF SameBut, Fields
<1>13. /\ KInv(d) /\ SameBut(e, d, {"timer"}) /\ (Armed(e) => Armed(d))
       /\ NewTimer(e, d, t)
  <2>1. e.stat[t] = "suspend"
    BY <1>0, <1>8, <1>12
  <2> QED BY <1>4, <1>11, <2>1, MaybeTimed
<1>14. d.stat = b.stat /\ d.wait = e.wait /\ d.err = a.err
  BY <1>12, <1>13 DEF SameBut, Fields
<1>15. SameBut(c, d, {"stat", "ready", "group", "wait", "timer", "err"})
  BY <1>6, <1>8, <1>11, <1>13 DEF SameBut
<1>16. WaitMore(c, d, t, w)
  BY <1>9, <1>11, <1>14 DEF WaitMore
<1>17. (Armed(c) => Armed(d)) /\ NewTimer(c, d, t)
  BY <1>12, <1>13 DEF Armed, Timed, NewTimer
<1>18. (\A u \in Threads : u # t => d.err[u] = c.err[u]) /\ d.err[t] = "EINTR"
  BY <1>0, <1>6, <1>14
<1>19. Suspends(c, d, t, w)
  BY <1>8, <1>13, <1>14, <1>15, <1>16, <1>17, <1>18 DEF Suspends
<1> QED BY <1>5, <1>18, <1>19 DEF Block

-----------------------------------------------------------------------------
(***************************************************************************)
(* The kernel and the calls of its threads.                                *)
(***************************************************************************)

(* The loads the theorems are about: no thread deletes another, the mutex  *)
(* is not used, one thread at most resumes and starts the others, and if   *)
(* there are interrupts it resumes only threads that suspended themselves. *)
(* rt_thread_resume looks at the state before it disables interrupts, so   *)
(* that a timeout in between would make the thread ready.                  *)
Starts == {"resume", "startup"}
IpcLoad(l) ==
  /\ \A t \in Threads : l.ops[t] \cap {"close", "mutex_take", "mutex_release", "set_ceiling"} = {}
  /\ \A t, u \in Threads : l.ops[t] \cap Starts # {} /\ l.ops[u] \cap Starts # {} => t = u
  /\ l.any => l.isr = {}

IpcLists == WaitLists \ {"defunct"}
OpOf(w) == CASE w = "sem" -> "sem_take" [] w = "ev" -> "event_recv" [] w = "mp" -> "mp_alloc"
             [] OTHER -> w

\* A suspended thread that is in no list and has no timer.
Loose(c, u) == u \in Threads /\ c.stat[u] = "suspend" /\ ~Waits(c, u) /\ ~Timed(c, u)

\* A thread at e is about to put e.arg into the ready list, and nothing else can.
Aims(l, e) == e.at = "insert" \/ (e.at \in {"check", "unlink"} /\ ~l.any)

\* What holds of thread t when it is at e in its call.
Own(l, c, e, t) ==
  /\ DOMAIN e = {"at", "op", "to", "el", "arg", "slot"} /\ e.to \in Int /\ e.el \in Int
  /\ e.at \in {"top", "block", "woken", "resched", "check", "unlink", "insert", "copy"}
  /\ e.op # "mutex_take" /\ (e.at = "copy" => e.op \in {"mq_send", "mq_urgent", "mq_recv"})
  /\ t = Idle => e.at = "top"
  /\ \A w \in Lists \ {"defunct"} : InList(t, c.wait[w]) =>
       w \in IpcLists /\ e.op = OpOf(w) /\ e.at \in {"block", "woken"}
  /\ Timed(c, t) => e.at \in {"block", "woken"}
  /\ e.at \in {"check", "unlink", "insert"} => l.ops[t] \cap Starts # {} /\ e.arg \in Threads
  /\ e.at \in {"check", "unlink"} => e.op \in Starts
  /\ Aims(l, e) => Loose(c, e.arg)
  /\ c.stat[t] = "close" => e.at \in {"resched", "top"}
  /\ c.stat[t] = "init" => e.at = "top"
  /\ c.stat[t] = "suspend" /\ e.op = "sem_take" /\ e.at \in {"block", "woken"} => c.err[t] # "EOK"

\* What holds of the current thread, which is at e.
Runs(c, e) ==
  /\ c.stat[c.cur] # "running" => c.lock = 0 /\ e.at \in {"block", "resched"}
  /\ e.at \in {"block", "woken"} => c.lock = 0
  /\ c.lock = 0 /\ e.at \notin {"block", "resched"} => Quiet(c)

\* The inductive invariant: Base, and that no timer that is due is left.
Base(l, c, h) ==
  /\ KInv(c) /\ c.cur \in Threads /\ c.stat[Idle] \in {"ready", "running"}
  /\ c.sem \in Nat /\ c.init \in [Threads -> Prios]
  /\ DOMAIN h = Threads /\ \A t \in Threads : Own(l, c, h[t], t)
  /\ Runs(c, h[c.cur])
System(l, c, h) == Base(l, c, h) /\ Armed(c)

\* What a section that wakes threads does to thread u; it may hand out RT_EOK
\* to the threads G.
Wake(c, d, G, u) ==
  /\ d.stat[u] = c.stat[u] \/ /\ c.stat[u] \in {"suspend", "ready", "running"}
                              /\ d.stat[u] \in {"ready", "running"}
  /\ \A w \in Lists : InList(u, d.wait[w]) => InList(u, c.wait[w])
  /\ Loose(c, u) => d.stat[u] = "suspend"
  /\ d.err[u] = c.err[u] \/ /\ c.stat[u] = "suspend" /\ d.stat[u] # "suspend"
                            /\ d.err[u] = "EOK" => u \in G

\* A section that wakes threads and changes the objects F.
WakeFields == {"cur", "yld", "stat", "ready", "group", "wait", "timer", "err", "slice"}
Objects == {"sem", "ev", "evset", "evinfo", "mb", "mq", "mp"}
Wakes(c, d, G, F) ==
  /\ KInv(d) /\ SameBut(c, d, WakeFields \cup F) /\ SubTimers(c, d)
  /\ \A u \in Threads : Wake(c, d, G, u)

\* A thread without a timer gets none.
LEMMA SubTimed ==
  ASSUME NEW c, NEW d, SubTimers(c, d), NEW u, Timed(d, u)
  PROVE  Timed(c, u)
BY DEF SubTimers, Timed

\* Timers that were not due are not due.
LEMMA SubArmed ==
  ASSUME NEW c, NEW d, SubTimers(c, d), Armed(c)
  PROVE  Armed(d)
BY DEF SubTimers, Armed

\* An unlinked thread stays so as long as others are woken.
LEMMA LooseStays ==
  ASSUME NEW c, NEW d, NEW G, NEW F, Wakes(c, d, G, F), NEW u, Loose(c, u)
  PROVE  Loose(d, u)
<1>1. u \in Threads /\ Wake(c, d, G, u) /\ SubTimers(c, d)
  BY DEF Wakes, Loose
<1>2. ~Timed(d, u)
  BY <1>1, SubTimed DEF Loose
<1> QED BY <1>1, <1>2 DEF Wake, Loose, Waits

\* One wake-up after another.
LEMMA WakesTrans ==
  ASSUME NEW c, NEW b, NEW d, NEW G, NEW F, NEW H, NEW E, Wakes(c, b, G, F), Wakes(b, d, H, E),
         KInv(c)
  PROVE  Wakes(c, d, G \cup H, F \cup E)
<1>1. KInv(d) /\ SameBut(c, d, WakeFields \cup (F \cup E))
  BY DEF Wakes, SameBut
<1>2. SubTimers(c, d)
  <2>1. SubTimers(c, b) /\ SubTimers(b, d)
    BY DEF Wakes
  <2> QED BY <2>1 DEF SubTimers
<1>3. ASSUME NEW u \in Threads PROVE Wake(c, d, G \cup H, u)
  <2>1. Wake(c, b, G, u) /\ Wake(b, d, H, u)
    BY DEF Wakes
  <2>2. Loose(c, u) => Loose(b, u)
    BY LooseStays
  <2>3. Loose(c, u) => d.stat[u] = "suspend"
    BY <2>1, <2>2 DEF Wake
  <2>4. \A w \in Lists : InList(u, d.wait[w]) => InList(u, c.wait[w])
    BY <2>1 DEF Wake
  <2>5. d.stat[u] = c.stat[u] \/ /\ c.stat[u] \in {"suspend", "ready", "running"}
                                 /\ d.stat[u] \in {"ready", "running"}
    BY <2>1 DEF Wake
  <2>6. d.err[u] = c.err[u] \/ /\ c.stat[u] = "suspend" /\ d.stat[u] # "suspend"
                               /\ d.err[u] = "EOK" => u \in G \cup H
    BY <2>1 DEF Wake
  <2> QED BY <2>3, <2>4, <2>5, <2>6 DEF Wake
<1> QED BY <1>1, <1>2, <1>3 DEF Wakes

\* A section that changes objects only.
LEMMA ObjectsOnly ==
  ASSUME NEW c, KInv(c), NEW F, F \subseteq Objects, NEW d, SameBut(c, d, F)
  PROVE  /\ Wakes(c, d, {}, F) /\ d.stat = c.stat /\ d.cur = c.cur /\ d.wait = c.wait /\ d.err = c.err
         /\ d.lock = c.lock
<1>1. /\ d.stat = c.stat /\ d.cur = c.cur /\ d.wait = c.wait /\ d.timer = c.timer /\ d.err = c.err
      /\ d.slice = c.slice /\ d.yld = c.yld /\ d.lock = c.lock
  BY DEF SameBut, Fields, Objects
<1>2. c.err \in [Threads -> Errors] /\ c.slice \in [Threads -> 1 .. Slice] /\ c.yld \subseteq Threads
      /\ c.lock \in Nat
  BY DEF KInv, Kernel, KType
<1>3. SameBut(c, d, {"err", "evset", "evinfo", "ev", "slice", "yld", "lock", "sem", "mb", "mq", "mp"})
  BY DEF SameBut, Objects
<1>4. KInv(d)
  BY <1>1, <1>2, <1>3, Prepared
<1>5. SameBut(c, d, WakeFields \cup F)
  BY DEF SameBut
<1>6. SubTimers(c, d)
  BY <1>1 DEF SubTimers
<1>7. \A u \in Threads : Wake(c, d, {}, u)
  BY <1>1 DEF Wake, Loose
<1> QED BY <1>1, <1>4, <1>5, <1>6, <1>7 DEF Wakes

\* Thread t waits or sleeps; b is c with its error number set to x, which is
\* RT_EOK only for the threads G, and the objects F changed.
Sleeps(c, t) == t \in Threads /\ c.stat[t] = "suspend" /\ (Waits(c, t) \/ Timed(c, t))
Readied(c, b, t, x, G, F) ==
  /\ F \subseteq Objects /\ SameBut(c, b, {"err"} \cup F) /\ b.err = [c.err EXCEPT ![t] = x]
  /\ x \in Errors /\ (x = "EOK" => t \in G)

\* rt_thread_resume for a thread that waits or sleeps.
LEMMA OneWoken ==
  ASSUME NEW c, KInv(c), NEW t, Sleeps(c, t), NEW G, NEW F, NEW x, NEW b, Readied(c, b, t, x, G, F),
         NEW d, d = rt_thread_resume(b, t)
  PROVE  Wakes(c, d, G, F) /\ d.cur = c.cur /\ WaitLess(c, d, t) /\ d.err = b.err
<1> USE DEF Sleeps, Readied
<1>1. /\ c.err \in [Threads -> Errors] /\ c.slice \in [Threads -> 1 .. Slice] /\ c.yld \subseteq Threads
      /\ c.lock \in Nat /\ c.stat \in [Threads -> Stats]
  BY DEF KInv, Kernel, KType
<1>2. /\ b.stat = c.stat /\ b.cur = c.cur /\ b.wait = c.wait /\ b.timer = c.timer
      /\ b.slice = c.slice /\ b.yld = c.yld /\ b.lock = c.lock
  BY DEF SameBut, Fields, Objects
<1>3. SameBut(c, b, {"err", "evset", "evinfo", "ev", "slice", "yld", "lock", "sem", "mb", "mq", "mp"})
  BY DEF SameBut, Objects
<1>4. b.err \in [Threads -> Errors]
  BY <1>1
<1>5. KInv(b)
  BY <1>1, <1>2, <1>3, <1>4, Prepared
<1>6. /\ KInv(d) /\ SameBut(b, d, {"stat", "ready", "group", "wait", "timer"})
      /\ Awake(b, d, t) /\ WaitLess(b, d, t) /\ SubTimers(b, d)
  BY <1>2, <1>5, ThreadResumed
<1>7. SameBut(c, d, WakeFields \cup F)
  BY <1>6 DEF SameBut, WakeFields
<1>8. d.cur = c.cur /\ d.err = b.err
  BY <1>2, <1>6 DEF SameBut, Fields
<1>9. SubTimers(c, d) /\ WaitLess(c, d, t)
  BY <1>2, <1>6 DEF SubTimers, WaitLess
<1>10. ASSUME NEW u \in Threads PROVE Wake(c, d, G, u)
  <2>1. CASE u = t
    <3>1. d.stat[t] \in {"ready", "running"}
      BY <1>1, <1>2, <1>6 DEF Awake
    <3>2. d.err[t] = x
      BY <1>1, <1>8
    <3> QED BY <1>9, <2>1, <3>1, <3>2 DEF Wake, Loose, WaitLess
  <2>2. CASE u # t
    <3>1. d.stat[u] = c.stat[u]
      BY <1>1, <1>2, <1>6, <2>2 DEF Awake
    <3>2. d.err[u] = c.err[u]
      BY <1>1, <1>8, <2>2
    <3> QED BY <1>9, <3>1, <3>2 DEF Wake, Loose, WaitLess
  <2> QED BY <2>1, <2>2
<1> QED BY <1>6, <1>7, <1>8, <1>9, <1>10 DEF Wakes

\* _ipc_list_resume: the first thread of the list is woken.
LEMMA ListResumed ==
  ASSUME NEW c, KInv(c), NEW w \in Lists, w # "defunct", c.wait[w] # << >>,
         NEW d, d = _ipc_list_resume(c, w)
  PROVE  /\ Head(c.wait[w]) \in Threads /\ InList(Head(c.wait[w]), c.wait[w])
         /\ Wakes(c, d, {Head(c.wait[w])}, {}) /\ d.cur = c.cur
         /\ d.err = [c.err EXCEPT ![Head(c.wait[w])] = "EOK"]
<1>0. PICK t : t = Head(c.wait[w])
  OBVIOUS
<1>1. c.err \in [Threads -> Errors] /\ DOMAIN c = Fields /\ c.wait[w] \in Seq(Threads)
  BY DEF KInv, Kernel, KType
<1>2. t \in Threads /\ InList(t, c.wait[w])
  BY <1>0, <1>1, EmptyFacts
<1>3. c.stat[t] = "suspend" /\ Waits(c, t)
  BY <1>2 DEF KInv, Kernel, WaitOK, Waits
<1>4. PICK b : b = [c EXCEPT !.err[t] = "EOK"]
  OBVIOUS
<1>5. SameBut(c, b, {"err"} \cup {}) /\ b.err = [c.err EXCEPT ![t] = "EOK"]
  BY <1>1, <1>4 DEF SameBut, Fields
<1>6. d = rt_thread_resume(b, t)
  BY <1>0, <1>4 DEF _ipc_list_resume
<1>7. PICK G, F, x : G = {t} /\ F = {} /\ x = "EOK"
  OBVIOUS
<1>8. Sleeps(c, t) /\ Readied(c, b, t, x, G, F)
  BY <1>2, <1>3, <1>5, <1>7 DEF Errors, Sleeps, Readied
<1>9. Wakes(c, d, G, F) /\ d.cur = c.cur /\ d.err = b.err
  BY <1>6, <1>8, OneWoken
<1> QED BY <1>0, <1>2, <1>5, <1>7, <1>9

\* The current thread is suspended in list w after the objects F have been
\* changed.
SuspendsIn(c, d, w, F) == \E a : SameBut(c, a, F) /\ Suspends(a, d, c.cur, w)

\* What a section may do that the current thread executes in call o: return,
\* wake threads and go on to rt_schedule, or block.
Section(c, r, o, G, F) ==
  \/ r.at \in {"top", "copy"} /\ Wakes(c, r.k, {}, F) /\ r.k.stat = c.stat /\ r.k.cur = c.cur
  \/ r.at = "resched" /\ Wakes(c, r.k, G, F) /\ r.k.cur = c.cur
  \/ /\ r.at = "block" /\ (o = "sem_take" => r.k.err[c.cur] # "EOK")
     /\ \E w \in IpcLists : OpOf(w) = o /\ SuspendsIn(c, r.k, w, F)

\* The threads that wait in a list.
InWait(c, w) == {u \in Threads : InList(u, c.wait[w])}

\* One of the threads that wait in list w has been handed RT_EOK.
Hands(c, d, w) == \E u \in InWait(c, w) : d.err = [c.err EXCEPT ![u] = "EOK"]

\* How the calls end that may wake one thread: the objects F have been
\* changed, and one of the threads that wait in list w may be resumed.
LEMMA Finished ==
  ASSUME NEW c, KInv(c), NEW w \in Lists, w # "defunct", NEW F, F \subseteq Objects,
         NEW b, SameBut(c, b, F), NEW v, NEW r, r = finish(b, w, v), NEW o
  PROVE  /\ Section(c, r, o, InWait(c, w), F) /\ r.ret = "EOK" /\ r.val = v
         /\ \/ r.at = "top" /\ c.wait[w] = << >> /\ r.k = b
            \/ r.at = "resched" /\ c.wait[w] # << >> /\ Hands(c, r.k, w)
<1>1. /\ Wakes(c, b, {}, F) /\ b.stat = c.stat /\ b.cur = c.cur /\ b.wait = c.wait /\ b.err = c.err
      /\ KInv(b)
  BY ObjectsOnly DEF Wakes
<1>2. CASE b.wait[w] = << >>
  <2>1. r.k = b /\ r.at = "top" /\ r.ret = "EOK" /\ r.val = v
    BY <1>2 DEF finish, Ret
  <2> QED BY <1>1, <1>2, <2>1 DEF Section
<1>3. CASE b.wait[w] # << >>
  <2>1. PICK d : d = _ipc_list_resume(b, w)
    OBVIOUS
  <2>2. r.k = d /\ r.at = "resched" /\ r.ret = "EOK" /\ r.val = v
    BY <1>3, <2>1 DEF finish, Resched
  <2>3. /\ Head(b.wait[w]) \in Threads /\ InList(Head(b.wait[w]), b.wait[w])
        /\ Wakes(b, d, {Head(b.wait[w])}, {}) /\ d.cur = b.cur
        /\ d.err = [b.err EXCEPT ![Head(b.wait[w])] = "EOK"]
    BY <1>1, <1>3, <2>1, ListResumed, ZenonT(30)
  <2>4. Wakes(c, d, {} \cup {Head(b.wait[w])}, F \cup {})
    BY <1>1, <2>3, WakesTrans
  <2>5. Wakes(c, d, {Head(b.wait[w])}, F) /\ Head(b.wait[w]) \in InWait(c, w)
    <3>1. {} \cup {Head(b.wait[w])} = {Head(b.wait[w])} /\ F \cup {} = F
      OBVIOUS
    <3> QED BY <1>1, <2>3, <2>4, <3>1 DEF InWait
  <2>6. Wakes(c, d, InWait(c, w), F)
    BY <2>5 DEF Wakes, Wake
  <2>7. Hands(c, d, w)
    BY <1>1, <2>3, <2>5 DEF Hands
  <2> QED BY <1>1, <1>3, <2>2, <2>3, <2>6, <2>7 DEF Section
<1> QED BY <1>2, <1>3

-----------------------------------------------------------------------------
(* Loops over the threads of a wait list *)

\* After i passes of a loop over list w, the threads behind are still in it.
Remain(w, s, i, d) == \A j \in 1 .. Len(s) : j > i => InList(s[j], d.wait[w])

WakeAll(env, c, t) == resume_with_error(c, t)
AllWoken(w, base, s, i, d) ==
  /\ Wakes(base, d, {}, {}) /\ d.cur = base.cur /\ Remain(w, s, i, d)
  /\ \A j \in 1 .. i : ~InList(s[j], d.wait[w])
All == INSTANCE FoldFacts WITH Op <- WakeAll, Rel <- AllWoken

\* A pass of the loop of _ipc_list_resume_all.
LEMMA OneOfAll ==
  ASSUME NEW base, KInv(base), NEW w \in Lists, w # "defunct", NEW s, s = base.wait[w],
         NEW i \in 1 .. Len(s), NEW c, AllWoken(w, base, s, i - 1, c), NEW d, d = WakeAll(w, c, s[i])
  PROVE  AllWoken(w, base, s, i, d)
<1>1. IsList(Threads, s)
  BY DEF KInv, Kernel, WaitOK
<1>2. s \in Seq(Threads) /\ s[i] \in Threads /\ Len(s) \in Nat
  BY <1>1 DEF IsList
<1>3. Wakes(base, c, {}, {}) /\ c.cur = base.cur /\ Remain(w, s, i - 1, c) /\ KInv(c)
  BY DEF AllWoken, Wakes
<1>4. i > i - 1
  BY <1>2
<1>5. InList(s[i], c.wait[w])
  BY <1>3, <1>4 DEF Remain
<1> DEFINE t == s[i]
<1>6. c.stat[t] = "suspend" /\ Waits(c, t)
  BY <1>2, <1>3, <1>5 DEF KInv, Kernel, WaitOK, Waits
<1>7. c.err \in [Threads -> Errors] /\ DOMAIN c = Fields
  BY <1>3 DEF KInv, Kernel, KType
<1>8. PICK b : b = [c EXCEPT !.err[t] = "ERROR"]
  OBVIOUS
<1>9. SameBut(c, b, {"err"} \cup {}) /\ b.err = [c.err EXCEPT ![t] = "ERROR"]
  BY <1>7, <1>8 DEF SameBut, Fields
<1>10. d = rt_thread_resume(b, t)
  BY <1>8 DEF WakeAll, resume_with_error
<1>11. PICK E : E = {}
  OBVIOUS
<1>12. Sleeps(c, t) /\ Readied(c, b, t, "ERROR", E, E)
  BY <1>2, <1>6, <1>9, <1>11 DEF Errors, Sleeps, Readied
<1> HIDE DEF t
<1>13. Wakes(c, d, E, E) /\ d.cur = c.cur /\ WaitLess(c, d, t)
  BY <1>3, <1>10, <1>12, OneWoken
<1>14. Wakes(base, d, {}, {})
  <2>1. Wakes(base, c, E, E)
    BY <1>3, <1>11
  <2>2. Wakes(base, d, E \cup E, E \cup E)
    BY <1>13, <2>1, WakesTrans
  <2>3. E \cup E = E
    OBVIOUS
  <2> QED BY <1>11, <2>2, <2>3
<1>15. Remain(w, s, i, d)
  <2> SUFFICES ASSUME NEW j \in 1 .. Len(s), j > i PROVE InList(s[j], d.wait[w])
    BY DEF Remain
  <2>1. j > i - 1 /\ j # i
    BY <1>2
  <2>2. InList(s[j], c.wait[w])
    BY <1>3, <2>1 DEF Remain
  <2>3. s[j] # t /\ s[j] \in Threads
    BY <1>1, <1>2, <2>1 DEF IsList, Distinct, t
  <2> QED BY <1>13, <2>2, <2>3 DEF WaitLess
<1>16. ASSUME NEW j \in 1 .. i PROVE ~InList(s[j], d.wait[w])
  <2>1. s[j] \in Threads
    BY <1>2
  <2>2. CASE j = i
    BY <1>13, <2>1, <2>2 DEF WaitLess, t
  <2>3. CASE j # i
    <3>1. j \in 1 .. i - 1
      BY <1>2, <2>3
    <3>2. ~InList(s[j], c.wait[w])
      BY <3>1 DEF AllWoken
    <3> QED BY <1>13, <2>1, <3>2 DEF WaitLess
  <2> QED BY <2>2, <2>3
<1> QED BY <1>3, <1>13, <1>14, <1>15, <1>16 DEF AllWoken

\* _ipc_list_resume_all.
LEMMA AllResumed ==
  ASSUME NEW c, KInv(c), NEW w \in Lists, w # "defunct", NEW d, d = _ipc_list_resume_all(c, w)
  PROVE  Wakes(c, d, {}, {}) /\ d.cur = c.cur /\ d.wait[w] = << >>
<1> DEFINE s == c.wait[w]
<1>1. IsList(Threads, s)
  BY DEF KInv, Kernel, WaitOK
<1>2. s \in Seq(Threads) /\ Len(s) \in Nat
  BY <1>1 DEF IsList
<1>3. AllWoken(w, c, s, 0, c)
  <2>1. SameBut(c, c, {})
    BY DEF KInv, Kernel, KType, SameBut
  <2>2. Wakes(c, c, {}, {})
    BY <2>1, ObjectsOnly
  <2>3. Remain(w, s, 0, c)
    <3> SUFFICES ASSUME NEW j \in 1 .. Len(s) PROVE InList(s[j], c.wait[w])
      BY DEF Remain
    <3> QED BY <1>2, InListDef
  <2> QED BY <2>2, <2>3 DEF AllWoken
<1>4. \A i \in 1 .. Len(s) : \A a : AllWoken(w, c, s, i - 1, a) => AllWoken(w, c, s, i, WakeAll(w, a, s[i]))
  BY OneOfAll
<1>5. AllWoken(w, c, s, Len(s), All!Fold(w, c, s))
  BY <1>2, <1>3, <1>4, LeastExists, All!FoldKeeps DEF All!LeastNumber
<1>6. All!Fold(w, c, s) = d
  BY DEF _ipc_list_resume_all, WakeAll, All!Fold, FoldLeft, MapThenFoldSet, All!Greatest, Max
<1>7. Wakes(c, d, {}, {}) /\ d.cur = c.cur /\ \A j \in 1 .. Len(s) : ~InList(s[j], d.wait[w])
  BY <1>5, <1>6 DEF AllWoken
<1>8. d.wait[w] = << >>
  <2> SUFFICES ASSUME d.wait[w] # << >> PROVE FALSE
    OBVIOUS
  <2>1. d.wait[w] \in Seq(Threads)
    BY <1>7 DEF Wakes, KInv, Kernel, KType
  <2>2. PICK u : u \in Threads /\ InList(u, d.wait[w])
    BY <2>1, EmptyFacts
  <2>3. InList(u, s)
    BY <1>7, <2>2 DEF Wakes, Wake
  <2>4. PICK j \in 1 .. Len(s) : s[j] = u
    BY <1>2, <2>3, InListDef
  <2> QED BY <1>7, <2>2, <2>4
<1> QED BY <1>7, <1>8

SendTo(env, c, t) == event_wake(c, t)
EvFields == {"ev", "evset"}

\* Thread u does not get what it waits for.
Wanting(c, u) == ~Satisfied(c.ev, c.evset[u], c.evinfo[u])
Sent(G, base, s, i, d) ==
  /\ Wakes(base, d, G, EvFields) /\ d.cur = base.cur /\ Remain("ev", s, i, d) /\ d.ev \subseteq base.ev
  /\ DOMAIN base.evset = Threads =>
       DOMAIN d.evset = Threads /\ \A j \in 1 .. i : InList(s[j], d.wait["ev"]) => Wanting(d, s[j])
  /\ d.stat = base.stat \/ \E u \in Threads : InList(u, base.wait["ev"]) /\ ~InList(u, d.wait["ev"])
Event == INSTANCE FoldFacts WITH Op <- SendTo, Rel <- Sent

\* A pass of the loop of rt_event_send.
LEMMA OneSent ==
  ASSUME NEW base, KInv(base), NEW s, s = base.wait["ev"], NEW G, G = InWait(base, "ev"),
         NEW i \in 1 .. Len(s), NEW c, Sent(G, base, s, i - 1, c), NEW d, d = SendTo(G, c, s[i])
  PROVE  Sent(G, base, s, i, d)
<1>0. "ev" \in Lists /\ "ev" # "defunct"
  BY DEF Lists, WaitLists
<1>1. IsList(Threads, s)
  BY <1>0 DEF KInv, Kernel, WaitOK
<1>2. s \in Seq(Threads) /\ s[i] \in Threads /\ Len(s) \in Nat
  BY <1>1 DEF IsList
<1>3. PICK t : t = s[i]
  OBVIOUS
<1>4. /\ Wakes(base, c, G, EvFields) /\ c.cur = base.cur /\ Remain("ev", s, i - 1, c) /\ KInv(c)
      /\ c.stat = base.stat \/ \E u \in Threads : InList(u, base.wait["ev"]) /\ ~InList(u, c.wait["ev"])
  BY DEF Sent, Wakes
<1>5. t \in Threads /\ InList(t, c.wait["ev"]) /\ InList(t, base.wait["ev"]) /\ t \in G
  <2>1. i > i - 1
    BY <1>2
  <2>2. InList(s[i], s)
    BY <1>2, InListDef
  <2> QED BY <1>2, <1>3, <1>4, <2>1, <2>2 DEF Remain, InWait
<1>6. CASE Wanting(c, t)
  <2>0. d = c
    BY <1>3, <1>6 DEF SendTo, event_wake, Wanting
  <2>1. Remain("ev", s, i, d)
    <3> SUFFICES ASSUME NEW j \in 1 .. Len(s), j > i PROVE InList(s[j], d.wait["ev"])
      BY DEF Remain
    <3>1. j > i - 1
      BY <1>2
    <3> QED BY <1>4, <2>0, <3>1 DEF Remain
  <2>2. ASSUME DOMAIN base.evset = Threads, NEW j \in 1 .. i, InList(s[j], d.wait["ev"]) PROVE Wanting(d, s[j])
    <3>1. j = i \/ j \in 1 .. i - 1
      BY <1>2
    <3> QED BY <1>3, <1>6, <2>0, <2>2, <3>1 DEF Sent
  <2> QED BY <1>4, <2>0, <2>1, <2>2 DEF Sent
<1>7. CASE ~Wanting(c, t)
  <2>1. c.stat[t] = "suspend" /\ Waits(c, t)
    BY <1>0, <1>4, <1>5 DEF KInv, Kernel, WaitOK, Waits
  <2>2. c.err \in [Threads -> Errors] /\ DOMAIN c = Fields
    BY <1>4, SMTT(30) DEF KInv, Kernel, KType
  <2>3. PICK e, v : /\ d = rt_thread_resume([c EXCEPT !.evset[t] = e, !.err[t] = "EOK", !.ev = v], t)
                    /\ v \subseteq c.ev
    <3>1. PICK g : g = IF c.evinfo[t].all THEN c.evset[t] ELSE c.evset[t] \cap c.ev
      OBVIOUS
    <3>2. PICK v : v = IF c.evinfo[t].clear THEN c.ev \ g ELSE c.ev
      BY ZenonT(60)
    <3>3. d = rt_thread_resume([c EXCEPT !.evset[t] = g, !.err[t] = "EOK", !.ev = v], t)
      BY <1>3, <1>7, <3>1, <3>2, ZenonT(60) DEF SendTo, event_wake, Wanting
    <3>4. v \subseteq c.ev
      BY <3>2
    <3> QED BY <3>3, <3>4
  <2>4. PICK b : b = [c EXCEPT !.evset[t] = e, !.err[t] = "EOK", !.ev = v]
    OBVIOUS
  <2>5. PICK x : x = "EOK"
    OBVIOUS
  <2>6. SameBut(c, b, {"err"} \cup EvFields) /\ b.err = [c.err EXCEPT ![t] = x]
    BY <2>2, <2>4, <2>5 DEF SameBut, Fields, EvFields
  <2>7. d = rt_thread_resume(b, t)
    BY <2>3, <2>4
  <2>8. Wakes(c, d, G, EvFields) /\ d.cur = c.cur /\ WaitLess(c, d, t)
    <3>1. Sleeps(c, t)
      BY <1>5, <2>1 DEF Sleeps
    <3>2. Readied(c, b, t, x, G, EvFields)
      BY <1>5, <2>5, <2>6 DEF EvFields, Objects, Errors, Readied
    <3> QED BY <1>4, <2>7, <3>1, <3>2, OneWoken
  <2>9. Wakes(base, d, G, EvFields)
    <3>1. Wakes(base, d, G \cup G, EvFields \cup EvFields)
      BY <1>4, <2>8, WakesTrans
    <3>2. G \cup G = G /\ EvFields \cup EvFields = EvFields
      OBVIOUS
    <3> QED BY <3>1, <3>2
  <2>10. Remain("ev", s, i, d)
    <3> SUFFICES ASSUME NEW j \in 1 .. Len(s), j > i PROVE InList(s[j], d.wait["ev"])
      BY DEF Remain
    <3>1. j > i - 1 /\ j # i
      BY <1>2
    <3>2. InList(s[j], c.wait["ev"])
      BY <1>4, <3>1 DEF Remain
    <3>3. s[j] # t /\ s[j] \in Threads
      BY <1>1, <1>2, <1>3, <3>1 DEF IsList, Distinct
    <3> QED BY <1>0, <2>8, <3>2, <3>3 DEF WaitLess
  <2>11. ~InList(t, d.wait["ev"])
    BY <1>0, <1>5, <2>8 DEF WaitLess
  <2>12. KInv(b) /\ b.stat[t] = "suspend"
    <3>1. b.err \in [Threads -> Errors]
      BY <2>2, <2>5, <2>6 DEF Errors
    <3>2. SameBut(c, b, {"err", "evset", "evinfo", "ev", "slice", "yld", "lock", "sem", "mb", "mq", "mp"})
      BY <2>6 DEF SameBut, EvFields
    <3>3. b.slice \in [Threads -> 1 .. Slice] /\ b.yld \subseteq Threads /\ b.lock \in Nat
      BY <1>4, <2>6 DEF SameBut, Fields, EvFields, KInv, Kernel, KType
    <3>4. KInv(b) /\ b.stat = c.stat
      BY <1>4, <3>1, <3>2, <3>3, Prepared
    <3> QED BY <2>1, <3>4
  <2>13. SameBut(b, d, {"stat", "ready", "group", "wait", "timer"})
    BY <1>5, <2>7, <2>12, ThreadResumed
  <2>14. d.ev = v /\ d.evinfo = c.evinfo /\ d.evset = [c.evset EXCEPT ![t] = e]
    BY <2>2, <2>4, <2>13, ZenonT(60) DEF SameBut, Fields
  <2>15. ASSUME DOMAIN base.evset = Threads, NEW j \in 1 .. i, InList(s[j], d.wait["ev"]) PROVE Wanting(d, s[j])
    <3>1. s[j] # t /\ s[j] \in Threads /\ InList(s[j], c.wait["ev"])
      BY <1>0, <1>2, <2>8, <2>11, <2>15 DEF WaitLess
    <3>2. j \in 1 .. i - 1
      BY <1>2, <1>3, <3>1
    <3>3. Wanting(c, s[j]) /\ DOMAIN c.evset = Threads
      BY <2>15, <3>1, <3>2 DEF Sent
    <3>4. d.evset[s[j]] = c.evset[s[j]]
      BY <2>14, <3>1, <3>3
    <3> QED BY <2>3, <2>14, <3>3, <3>4, ZenonT(60) DEF Wanting, Satisfied
  <2>16. DOMAIN base.evset = Threads => DOMAIN d.evset = Threads
    BY <2>14 DEF Sent
  <2>17. d.ev \subseteq base.ev
    BY <2>3, <2>14 DEF Sent
  <2> QED BY <1>4, <1>5, <2>8, <2>9, <2>10, <2>11, <2>15, <2>16, <2>17 DEF Sent
<1> QED BY <1>6, <1>7

\* rt_event_send.
LEMMA EventSent ==
  ASSUME NEW c, KInv(c), NEW set, NEW r, r = rt_event_send(c, set), NEW o
  PROVE  /\ Section(c, r, o, InWait(c, "ev"), EvFields) /\ r.at \in {"top", "resched"}
         /\ r.k.ev \subseteq c.ev \cup set
         /\ DOMAIN c.evset = Threads =>
              /\ DOMAIN r.k.evset = Threads
              /\ \A u \in Threads : InList(u, r.k.wait["ev"]) => Wanting(r.k, u)
<1>0. "ev" \in Lists /\ DOMAIN c = Fields
  BY DEF Lists, WaitLists, KInv, Kernel, KType
<1>1. PICK b : b = [c EXCEPT !.ev = @ \cup set]
  OBVIOUS
<1>2. SameBut(c, b, EvFields) /\ EvFields \subseteq Objects
  BY <1>0, <1>1 DEF SameBut, Fields, EvFields, Objects
<1>3. Wakes(c, b, {}, EvFields) /\ b.stat = c.stat /\ b.cur = c.cur /\ b.wait = c.wait /\ KInv(b)
  BY <1>2, ObjectsOnly DEF Wakes
<1>4. PICK G, s, d : G = InWait(b, "ev") /\ s = b.wait["ev"] /\ d = Event!Fold(G, b, s)
  OBVIOUS
<1>5. s \in Seq(Threads) /\ Len(s) \in Nat
  BY <1>0, <1>3, <1>4 DEF KInv, Kernel, KType
<1>6. Sent(G, b, s, 0, b)
  <2>1. SameBut(b, b, EvFields)
    BY <1>3 DEF KInv, Kernel, KType, SameBut
  <2>2. Wakes(b, b, {}, EvFields)
    BY <1>2, <1>3, <2>1, ObjectsOnly
  <2>3. Wakes(b, b, G, EvFields)
    BY <2>2 DEF Wakes, Wake
  <2>4. Remain("ev", s, 0, b)
    <3> SUFFICES ASSUME NEW j \in 1 .. Len(s) PROVE InList(s[j], b.wait["ev"])
      BY DEF Remain
    <3> QED BY <1>4, <1>5, InListDef
  <2> QED BY <2>3, <2>4 DEF Sent
<1>7. \A i \in 1 .. Len(s) : \A a : Sent(G, b, s, i - 1, a) => Sent(G, b, s, i, SendTo(G, a, s[i]))
  BY <1>3, <1>4, OneSent
<1>8. Sent(G, b, s, Len(s), d)
  BY <1>4, <1>5, <1>6, <1>7, LeastExists, Event!FoldKeeps DEF Event!LeastNumber
<1>9. d = FoldLeft(event_wake, b, c.wait["ev"])
  BY <1>3, <1>4 DEF SendTo, Event!Fold, FoldLeft, MapThenFoldSet, Event!Greatest, Max
<1>10. r = IF d.wait["ev"] = c.wait["ev"] THEN Ret(d, "EOK") ELSE Resched(d, "EOK")
  BY <1>1, <1>9 DEF rt_event_send
<1>11. Wakes(c, d, G, EvFields) /\ d.cur = c.cur
  <2>1. Wakes(b, d, G, EvFields) /\ d.cur = b.cur
    BY <1>8 DEF Sent
  <2>2. PICK E : E = {}
    OBVIOUS
  <2>3. Wakes(c, b, E, EvFields)
    BY <1>3, <2>2
  <2>4. Wakes(c, d, E \cup G, EvFields \cup EvFields)
    BY <2>1, <2>3, WakesTrans
  <2>5. E \cup G = G /\ EvFields \cup EvFields = EvFields
    BY <2>2
  <2> QED BY <1>3, <2>1, <2>4, <2>5
<1>12. G = InWait(c, "ev")
  BY <1>3, <1>4 DEF InWait
<1>13. r.k = d
  BY <1>10 DEF Ret, Resched
<1>14. b.evset = c.evset
  BY <1>0, <1>1
<1>15. d.ev \subseteq c.ev \cup set
  <2>1. b.ev = c.ev \cup set
    BY <1>0, <1>1 DEF Fields
  <2> QED BY <1>8, <2>1 DEF Sent
<1>16. ASSUME DOMAIN c.evset = Threads, NEW u \in Threads, InList(u, d.wait["ev"]) PROVE Wanting(d, u)
  <2>1. InList(u, s)
    BY <1>0, <1>3, <1>4, <1>11, <1>16 DEF Wakes, Wake
  <2>2. PICK j \in 1 .. Len(s) : s[j] = u
    BY <1>5, <2>1, InListDef
  <2> QED BY <1>8, <1>16, <1>14, <2>2 DEF Sent
<1>17. ASSUME d.wait["ev"] = c.wait["ev"] PROVE Section(c, r, o, InWait(c, "ev"), EvFields) /\ r.at = "top"
  <2>1. r.k = d /\ r.at = "top"
    BY <1>10, <1>17 DEF Ret
  <2>2. d.stat = c.stat
    BY <1>3, <1>8, <1>17 DEF Sent
  <2>3. Wakes(c, d, {}, EvFields)
    <3>1. \A u \in Threads : Wake(c, d, {}, u)
      BY <1>11, <2>2 DEF Wakes, Wake
    <3> QED BY <1>11, <3>1 DEF Wakes
  <2> QED BY <1>11, <2>1, <2>2, <2>3 DEF Section
<1>18. ASSUME d.wait["ev"] # c.wait["ev"] PROVE Section(c, r, o, InWait(c, "ev"), EvFields) /\ r.at = "resched"
  <2>1. r.k = d /\ r.at = "resched"
    BY <1>10, <1>18 DEF Resched
  <2> QED BY <1>11, <1>12, <2>1 DEF Section
<1>19. DOMAIN c.evset = Threads => DOMAIN d.evset = Threads
  BY <1>8, <1>14 DEF Sent
<1> QED BY <1>13, <1>15, <1>16, <1>17, <1>18, <1>19

-----------------------------------------------------------------------------
(* The calls of the IPC objects *)

\* A section that returns, or goes on to copy, and changes objects only.
LEMMA Returned ==
  ASSUME NEW c, KInv(c), NEW F, F \subseteq Objects, NEW r, SameBut(c, r.k, F), r.at \in {"top", "copy"},
         NEW o, NEW G
  PROVE  Section(c, r, o, G, F) /\ r.k.err = c.err
<1>1. PICK d : d = r.k
  OBVIOUS
<1>2. SameBut(c, d, F)
  BY <1>1
<1>3. Wakes(c, d, {}, F) /\ d.stat = c.stat /\ d.cur = c.cur /\ d.err = c.err
  BY <1>2, ObjectsOnly
<1> QED BY <1>1, <1>3 DEF Section

\* What a section has done, by how it ends.
LEMMA SectionEnds ==
  ASSUME NEW c, NEW r, NEW o, NEW G, NEW F, Section(c, r, o, G, F)
  PROVE  /\ r.at \in {"top", "copy"} => Wakes(c, r.k, {}, F) /\ r.k.stat = c.stat /\ r.k.cur = c.cur
         /\ r.at = "resched" => Wakes(c, r.k, G, F) /\ r.k.cur = c.cur
         /\ r.at = "block" => /\ \E w \in IpcLists : OpOf(w) = o /\ SuspendsIn(c, r.k, w, F)
                              /\ o = "sem_take" => r.k.err[c.cur] # "EOK"
         /\ r.at \in {"top", "copy", "resched", "block"}
BY DEF Section

\* A kernel state is what it was.
LEMMA Itself ==
  ASSUME NEW c, KInv(c), NEW F
  PROVE  SameBut(c, c, F)
BY DEF KInv, Kernel, KType, SameBut

\* A section that suspends the current thread in the list of its call.
LEMMA BlockedOn ==
  ASSUME NEW c, KInv(c), c.cur \in Threads, c.stat[c.cur] = "running", NEW w \in IpcLists,
         NEW F, F \subseteq Objects, NEW a, SameBut(c, a, F),
         NEW n \in Int, NEW r, r = suspend_on(a, c.cur, w, n), NEW G
  PROVE  Section(c, r, OpOf(w), G, F) /\ r.at = "block" /\ r.ret = None /\ r.val = None
<1>1. w \in Lists /\ w # "defunct"
  BY DEF IpcLists, Lists
<1>2. KInv(a) /\ a.cur = c.cur /\ a.stat = c.stat
  <2>1. Wakes(c, a, {}, F) /\ a.cur = c.cur /\ a.stat = c.stat
    BY ObjectsOnly
  <2> QED BY <2>1 DEF Wakes
<1>3. /\ r.at = "block" /\ r.ret = None /\ r.val = None
      /\ Suspends(a, r.k, a.cur, w) /\ r.k.err[a.cur] = "EINTR"
  <2>1. r = suspend_on(a, a.cur, w, n) /\ a.cur \in Threads /\ a.stat[a.cur] = "running"
    BY <1>2
  <2> QED BY <1>1, <1>2, <2>1, SuspendedOn
<1>4. r.k.err[c.cur] # "EOK"
  BY <1>2, <1>3
<1>5. SuspendsIn(c, r.k, w, F)
  BY <1>2, <1>3 DEF SuspendsIn
<1> QED BY <1>3, <1>4, <1>5 DEF Section

\* A section that wakes all the threads of a list and then sets the objects F.
LEMMA Reset ==
  ASSUME NEW c, KInv(c), NEW b, Wakes(c, b, {}, {}), b.cur = c.cur, NEW F, F \subseteq Objects,
         NEW r, SameBut(b, r.k, F), r.at = "resched", NEW o, NEW G
  PROVE  Section(c, r, o, {}, F)
<1>1. PICK d, E : d = r.k /\ E = {}
  OBVIOUS
<1>2. SameBut(b, d, F) /\ KInv(b) /\ Wakes(c, b, E, E)
  BY <1>1 DEF Wakes
<1>3. Wakes(b, d, {}, F) /\ d.cur = b.cur
  BY <1>2, ObjectsOnly
<1>4. Wakes(b, d, E, F)
  BY <1>1, <1>3
<1>5. Wakes(c, d, E \cup E, E \cup F)
  BY <1>2, <1>4, WakesTrans
<1>6. E \cup E = {} /\ E \cup F = F
  BY <1>1
<1>7. Wakes(c, d, {}, F)
  BY <1>5, <1>6
<1> QED BY <1>1, <1>3, <1>7 DEF Section

\* _rt_sem_take.
LEMMA SemTaken ==
  ASSUME NEW c, KInv(c), c.cur \in Threads, c.stat[c.cur] = "running", c.sem \in Nat, NEW n \in Int,
         NEW r, r = _rt_sem_take(c, c.cur, n)
  PROVE  /\ Section(c, r, "sem_take", {}, {"sem"})
         /\ \/ /\ r.at = "top" /\ r.ret = "EOK" /\ c.sem > 0 /\ r.k.sem = c.sem - 1
               /\ r.k.err = c.err
            \/ r.at = "top" /\ r.ret # "EOK" /\ r.k = c
            \/ r.at = "block" /\ r.ret # "EOK" /\ r.k.sem = c.sem
<1>0. "sem" \in Lists /\ "sem" # "defunct"
  BY DEF Lists, WaitLists
<1>1. {"sem"} \subseteq Objects /\ DOMAIN c = Fields /\ "EOK" # None
  BY DEF Objects, KInv, Kernel, KType, None
<1>2. CASE c.sem > 0
  <2>1. r = Ret([c EXCEPT !.sem = @ - 1], "EOK")
    BY <1>2 DEF _rt_sem_take
  <2>2. r.at = "top" /\ r.ret = "EOK" /\ SameBut(c, r.k, {"sem"}) /\ r.k.sem = c.sem - 1
    BY <1>1, <2>1 DEF Ret, SameBut, Fields
  <2>3. Section(c, r, "sem_take", {}, {"sem"}) /\ r.k.err = c.err
    BY <1>1, <2>2, Returned
  <2> QED BY <1>2, <2>2, <2>3
<1>3. CASE c.sem = 0 /\ n = 0
  <2>1. r = Ret(c, "ETIMEOUT")
    BY <1>3 DEF _rt_sem_take
  <2>2. r.at = "top" /\ r.ret = "ETIMEOUT" /\ r.k = c
    BY <2>1 DEF Ret
  <2>3. SameBut(c, r.k, {"sem"})
    BY <2>2, Itself
  <2>4. Section(c, r, "sem_take", {}, {"sem"})
    BY <1>1, <2>2, <2>3, Returned
  <2> QED BY <2>2, <2>4
<1>4. CASE c.sem = 0 /\ n # 0
  <2>1. r = suspend_on(c, c.cur, "sem", n)
    BY <1>4 DEF _rt_sem_take
  <2>2. "sem" \in IpcLists /\ OpOf("sem") = "sem_take"
    BY DEF IpcLists, WaitLists, OpOf
  <2>3. Section(c, r, OpOf("sem"), {}, {"sem"}) /\ r.at = "block" /\ r.ret = None
    <3>1. PICK F : F = {"sem"}
      OBVIOUS
    <3>2. SameBut(c, c, F) /\ F \subseteq Objects
      BY <1>1, <3>1, Itself
    <3>3. Section(c, r, OpOf("sem"), {}, F) /\ r.at = "block" /\ r.ret = None
      BY <2>1, <2>2, <3>2, BlockedOn, ZenonT(30)
    <3> QED BY <3>1, <3>3
  <2>4. r.k.sem = c.sem
    <3>1. Suspends(c, r.k, c.cur, "sem")
      BY <1>0, <2>1, SuspendedOn
    <3> QED BY <3>1 DEF Suspends, SameBut, Fields
  <2> QED BY <1>1, <2>2, <2>3, <2>4
<1> QED BY <1>2, <1>3, <1>4

\* rt_sem_release.
LEMMA SemReleased ==
  ASSUME NEW c, KInv(c), c.sem \in Nat, NEW r, r = rt_sem_release(c), NEW o
  PROVE  /\ Section(c, r, o, InWait(c, "sem"), {"sem"})
         /\ \/ r.at = "top" /\ r.ret = "EOK" /\ r.k.sem = c.sem + 1 /\ r.k.err = c.err
            \/ r.at = "top" /\ r.ret = "EFULL" /\ r.k = c
            \/ r.at = "resched" /\ r.ret = "EOK" /\ r.k.sem = c.sem /\ Hands(c, r.k, "sem")
<1>1. /\ {"sem"} \subseteq Objects /\ DOMAIN c = Fields /\ "sem" \in Lists /\ "sem" # "defunct"
      /\ SemMax \in Nat
  BY IpcAssumption DEF Objects, KInv, Kernel, KType, Lists, WaitLists
<1>2. CASE c.wait["sem"] # << >>
  <2>1. r = finish(c, "sem", None)
    BY <1>2 DEF rt_sem_release
  <2>2. PICK F : F = {}
    OBVIOUS
  <2>3. SameBut(c, c, F) /\ F \subseteq Objects
    BY <2>2, Itself
  <2>4. /\ Section(c, r, o, InWait(c, "sem"), F) /\ r.ret = "EOK"
        /\ r.at = "resched" /\ Hands(c, r.k, "sem")
    BY <1>1, <1>2, <2>1, <2>3, Finished
  <2>5. Wakes(c, r.k, InWait(c, "sem"), F) /\ r.k.cur = c.cur
    BY <2>4, SectionEnds
  <2>6. r.k.sem = c.sem
    BY <2>2, <2>5 DEF Wakes, SameBut, Fields, WakeFields
  <2>7. SameBut(c, r.k, WakeFields \cup {"sem"})
    BY <2>2, <2>5 DEF Wakes, SameBut
  <2>8. Wakes(c, r.k, InWait(c, "sem"), {"sem"})
    BY <2>5, <2>7 DEF Wakes
  <2> QED BY <2>4, <2>5, <2>6, <2>8 DEF Section
<1>3. CASE c.wait["sem"] = << >> /\ c.sem < SemMax
  <2>1. r = Ret([c EXCEPT !.sem = @ + 1], "EOK")
    BY <1>1, <1>3 DEF rt_sem_release
  <2>2. r.at = "top" /\ r.ret = "EOK" /\ SameBut(c, r.k, {"sem"}) /\ r.k.sem = c.sem + 1
    BY <1>1, <2>1 DEF Ret, SameBut, Fields
  <2>3. Section(c, r, o, InWait(c, "sem"), {"sem"}) /\ r.k.err = c.err
    BY <1>1, <2>2, Returned
  <2> QED BY <2>2, <2>3
<1>4. CASE c.wait["sem"] = << >> /\ c.sem >= SemMax
  <2>1. r = Ret(c, "EFULL")
    BY <1>1, <1>4 DEF rt_sem_release
  <2>2. r.at = "top" /\ r.ret = "EFULL" /\ r.k = c
    BY <2>1 DEF Ret
  <2>3. SameBut(c, r.k, {"sem"})
    BY <2>2, Itself
  <2>4. Section(c, r, o, InWait(c, "sem"), {"sem"})
    BY <1>1, <2>2, <2>3, Returned
  <2> QED BY <2>2, <2>4
<1> QED BY <1>1, <1>2, <1>3, <1>4

\* Two lists of threads are woken with an error.
LEMMA WakesTwice ==
  ASSUME NEW c, KInv(c), NEW a, Wakes(c, a, {}, {}), NEW b, Wakes(a, b, {}, {})
  PROVE  Wakes(c, b, {}, {})
<1>1. PICK E : E = {}
  OBVIOUS
<1>2. Wakes(c, a, E, E) /\ Wakes(a, b, E, E)
  BY <1>1
<1>3. Wakes(c, b, E \cup E, E \cup E)
  BY <1>2, WakesTrans
<1> QED BY <1>1, <1>3

\* rt_sem_control and rt_event_control.
LEMMA SemEventReset ==
  ASSUME NEW c, KInv(c), NEW o
  PROVE  /\ \A r : r = rt_sem_control(c, 0) => Section(c, r, o, {}, {"sem"}) /\ r.k.sem = 0 /\ r.at = "resched"
         /\ \A r : r = rt_event_control(c) =>
              Section(c, r, o, {}, {"ev"}) /\ r.at = "resched" /\ r.k.wait["ev"] = << >>
<1>1. "sem" \in Lists /\ "ev" \in Lists /\ "sem" # "defunct" /\ "ev" # "defunct"
  BY DEF Lists, WaitLists
<1>2. ASSUME NEW r, r = rt_sem_control(c, 0) PROVE Section(c, r, o, {}, {"sem"}) /\ r.k.sem = 0 /\ r.at = "resched"
  <2>1. PICK b : b = _ipc_list_resume_all(c, "sem")
    OBVIOUS
  <2>2. Wakes(c, b, {}, {}) /\ b.cur = c.cur /\ KInv(b) /\ DOMAIN b = Fields
    <3>1. Wakes(c, b, {}, {}) /\ b.cur = c.cur
      BY <1>1, <2>1, AllResumed
    <3>2. KInv(b)
      BY <3>1 DEF Wakes
    <3> QED BY <3>1, <3>2 DEF KInv, Kernel, KType
  <2>3. r.at = "resched" /\ r.k = [b EXCEPT !.sem = 0]
    BY <1>2, <2>1 DEF rt_sem_control, Resched
  <2>4. SameBut(b, r.k, {"sem"}) /\ r.k.sem = 0 /\ {"sem"} \subseteq Objects
    BY <2>2, <2>3 DEF SameBut, Fields, Objects
  <2> QED BY <2>2, <2>3, <2>4, Reset
<1>3. ASSUME NEW r, r = rt_event_control(c)
      PROVE  Section(c, r, o, {}, {"ev"}) /\ r.at = "resched" /\ r.k.wait["ev"] = << >>
  <2>1. PICK b : b = _ipc_list_resume_all(c, "ev")
    OBVIOUS
  <2>2. Wakes(c, b, {}, {}) /\ b.cur = c.cur /\ b.wait["ev"] = << >> /\ KInv(b) /\ DOMAIN b = Fields
    <3>1. Wakes(c, b, {}, {}) /\ b.cur = c.cur /\ b.wait["ev"] = << >>
      BY <1>1, <2>1, AllResumed
    <3>2. KInv(b)
      BY <3>1 DEF Wakes
    <3> QED BY <3>1, <3>2 DEF KInv, Kernel, KType
  <2>3. r.at = "resched" /\ r.k = [b EXCEPT !.ev = {}]
    BY <1>3, <2>1 DEF rt_event_control, Resched
  <2>4. SameBut(b, r.k, {"ev"}) /\ {"ev"} \subseteq Objects
    BY <2>2, <2>3 DEF SameBut, Fields, Objects
  <2>5. r.k.wait["ev"] = << >>
    BY <2>2, <2>4 DEF SameBut, Fields
  <2> QED BY <2>2, <2>3, <2>4, <2>5, Reset
<1> QED BY <1>2, <1>3

\* The error number of the current thread is set.
Preset(c, b) == SameBut(c, b, {"err"}) /\ \E x \in Errors : b.err = [c.err EXCEPT ![c.cur] = x]

\* The current thread goes on as it was with another error number.
LEMMA PresetFacts ==
  ASSUME NEW c, KInv(c), c.cur \in Threads, NEW b, Preset(c, b)
  PROVE  /\ KInv(b) /\ b.stat = c.stat /\ b.cur = c.cur /\ b.wait = c.wait /\ b.timer = c.timer
         /\ b.lock = c.lock /\ b.prio = c.prio /\ b.sem = c.sem /\ b.init = c.init
         /\ \A u \in Threads : u # c.cur => b.err[u] = c.err[u]
<1>1. c.err \in [Threads -> Errors] /\ c.slice \in [Threads -> 1 .. Slice] /\ c.yld \subseteq Threads
      /\ c.lock \in Nat
  BY DEF KInv, Kernel, KType
<1>2. PICK x \in Errors : b.err = [c.err EXCEPT ![c.cur] = x]
  BY DEF Preset
<1>3. b.err \in [Threads -> Errors] /\ \A u \in Threads : u # c.cur => b.err[u] = c.err[u]
  BY <1>1, <1>2
<1>4. b.slice = c.slice /\ b.yld = c.yld /\ b.lock = c.lock /\ b.sem = c.sem /\ b.init = c.init
  BY DEF Preset, SameBut, Fields
<1>5. SameBut(c, b, {"err", "evset", "evinfo", "ev", "slice", "yld", "lock", "sem", "mb", "mq", "mp"})
  BY DEF Preset, SameBut
<1> QED BY <1>1, <1>3, <1>4, <1>5, Prepared

\* The fields a receiver of the event object writes.
EvWait == {"ev", "evset", "evinfo"}

\* _rt_event_recv: thread->error is set, and the section returns or blocks.
LEMMA EventReceived ==
  ASSUME NEW c, KInv(c), c.cur \in Threads, c.stat[c.cur] = "running", NEW n \in Int, NEW set, NEW opt,
         NEW r, r = _rt_event_recv(c, c.cur, set, opt, n)
  PROVE  \E b : Preset(c, b) /\ Section(b, r, "event_recv", {}, EvWait) /\ r.at \in {"top", "block"}
<1> DEFINE t == c.cur
<1>1. /\ DOMAIN c = Fields /\ EvWait \subseteq Objects /\ c.err \in [Threads -> Errors]
      /\ {"EOK", "ETIMEOUT"} \subseteq Errors
  BY DEF EvWait, Objects, KInv, Kernel, KType, Errors
<1>2. ASSUME NEW x \in Errors, NEW b, b = [c EXCEPT !.err[t] = x]
      PROVE  Preset(c, b) /\ KInv(b) /\ DOMAIN b = Fields
  <2>1. SameBut(c, b, {"err"}) /\ b.err = [c.err EXCEPT ![t] = x] /\ DOMAIN b = Fields
    BY <1>1, <1>2 DEF SameBut, Fields
  <2>2. Preset(c, b)
    BY <2>1 DEF Preset
  <2> QED BY <2>1, <2>2, PresetFacts
<1>3. CASE Satisfied(c.ev, set, opt)
  <2>1. PICK v : r.k = [c EXCEPT !.err[t] = "EOK", !.ev = v] /\ r.at = "top"
    BY <1>3 DEF _rt_event_recv, Ret
  <2>2. PICK b : b = [c EXCEPT !.err[t] = "EOK"]
    OBVIOUS
  <2>3. Preset(c, b) /\ KInv(b)
    BY <1>1, <1>2, <2>2
  <2>4. SameBut(b, r.k, EvWait)
    BY <1>1, <2>1, <2>2 DEF SameBut, Fields, EvWait
  <2>5. Section(b, r, "event_recv", {}, EvWait)
    BY <1>1, <2>1, <2>3, <2>4, Returned
  <2> QED BY <2>1, <2>3, <2>5
<1>4. CASE ~Satisfied(c.ev, set, opt) /\ n = 0
  <2>1. r.k = [c EXCEPT !.err[t] = "ETIMEOUT"] /\ r.at = "top"
    BY <1>4 DEF _rt_event_recv, Ret
  <2>2. PICK b : b = r.k
    OBVIOUS
  <2>3. Preset(c, b) /\ KInv(b)
    BY <1>1, <1>2, <2>1, <2>2
  <2>4. SameBut(b, r.k, EvWait)
    BY <2>2, <2>3, Itself
  <2>5. Section(b, r, "event_recv", {}, EvWait)
    BY <1>1, <2>1, <2>3, <2>4, Returned
  <2> QED BY <2>1, <2>3, <2>5
<1>5. CASE ~Satisfied(c.ev, set, opt) /\ n # 0
  <2>1. PICK a : a = [c EXCEPT !.evset[t] = set, !.evinfo[t] = opt]
    OBVIOUS
  <2>2. r = suspend_on(a, t, "ev", n)
    BY <1>5, <2>1 DEF _rt_event_recv
  <2>3. SameBut(c, a, EvWait)
    BY <1>1, <2>1 DEF SameBut, Fields, EvWait
  <2>4. "ev" \in IpcLists /\ OpOf("ev") = "event_recv"
    BY DEF IpcLists, WaitLists, OpOf
  <2>5. Section(c, r, OpOf("ev"), {}, EvWait) /\ r.at = "block"
    BY <1>1, <2>2, <2>3, <2>4, BlockedOn
  <2>6. Preset(c, c)
    <3>1. c.err = [c.err EXCEPT ![t] = c.err[t]] /\ c.err[t] \in Errors
      BY <1>1
    <3>2. SameBut(c, c, {"err"})
      BY Itself
    <3> QED BY <3>1, <3>2 DEF Preset
  <2> QED BY <2>4, <2>5, <2>6
<1> QED BY <1>3, <1>4, <1>5

\* The sections of the mailbox.
LEMMA MailSections ==
  ASSUME NEW c, KInv(c), c.cur \in Threads, c.stat[c.cur] = "running", NEW n \in Int, NEW v
  PROVE  /\ \A r : r = _rt_mb_send_wait(c, c.cur, v, n) => Section(c, r, "mb_send", InWait(c, "mb_recv"), {"mb"})
         /\ \A r : r = _rt_mb_recv(c, c.cur, n) => Section(c, r, "mb_recv", InWait(c, "mb_send"), {"mb"})
<1>1. /\ DOMAIN c = Fields /\ {"mb"} \subseteq Objects /\ SameBut(c, c, {"mb"})
      /\ "mb_send" \in Lists /\ "mb_recv" \in Lists /\ "mb_send" # "defunct" /\ "mb_recv" # "defunct"
      /\ "mb_send" \in IpcLists /\ OpOf("mb_send") = "mb_send"
      /\ "mb_recv" \in IpcLists /\ OpOf("mb_recv") = "mb_recv"
  BY Itself DEF Objects, KInv, Kernel, KType, Lists, WaitLists, IpcLists, OpOf
<1>2. ASSUME NEW r, r = _rt_mb_send_wait(c, c.cur, v, n)
      PROVE  Section(c, r, "mb_send", InWait(c, "mb_recv"), {"mb"})
  <2>1. CASE c.mb.entry = MbSize /\ n = 0
    <3>1. r.k = c /\ r.at = "top"
      BY <1>2, <2>1 DEF _rt_mb_send_wait, Ret
    <3> QED BY <1>1, <3>1, Returned
  <2>2. CASE c.mb.entry = MbSize /\ n # 0
    <3>1. r = suspend_on(c, c.cur, "mb_send", n)
      BY <1>2, <2>2 DEF _rt_mb_send_wait
    <3>2. Section(c, r, OpOf("mb_send"), InWait(c, "mb_recv"), {"mb"})
      BY <1>1, <3>1, BlockedOn
    <3> QED BY <1>1, <3>2
  <2>3. CASE c.mb.entry # MbSize
    <3>1. PICK b : b = [c EXCEPT !.mb.pool[c.mb.in] = v,
                          !.mb.in = IF @ + 1 >= MbSize THEN 0 ELSE @ + 1,
                          !.mb.entry = @ + 1]
      OBVIOUS
    <3>2. r = finish(b, "mb_recv", None)
      BY <1>2, <2>3, <3>1 DEF _rt_mb_send_wait
    <3>3. SameBut(c, b, {"mb"})
      BY <1>1, <3>1 DEF SameBut, Fields
    <3> QED BY <1>1, <3>2, <3>3, Finished
  <2> QED BY <2>1, <2>2, <2>3
<1>3. ASSUME NEW r, r = _rt_mb_recv(c, c.cur, n)
      PROVE  Section(c, r, "mb_recv", InWait(c, "mb_send"), {"mb"})
  <2>1. CASE c.mb.entry = 0 /\ n = 0
    <3>1. r.k = c /\ r.at = "top"
      BY <1>3, <2>1 DEF _rt_mb_recv, Ret
    <3> QED BY <1>1, <3>1, Returned
  <2>2. CASE c.mb.entry = 0 /\ n # 0
    <3>1. r = suspend_on(c, c.cur, "mb_recv", n)
      BY <1>3, <2>2 DEF _rt_mb_recv
    <3>2. Section(c, r, OpOf("mb_recv"), InWait(c, "mb_send"), {"mb"})
      BY <1>1, <3>1, BlockedOn
    <3> QED BY <1>1, <3>2
  <2>3. CASE c.mb.entry # 0
    <3>1. PICK b : b = [c EXCEPT !.mb.out = IF @ + 1 >= MbSize THEN 0 ELSE @ + 1,
                                 !.mb.entry = @ - 1]
      OBVIOUS
    <3>2. r = finish(b, "mb_send", c.mb.pool[c.mb.out])
      BY <1>3, <2>3, <3>1 DEF _rt_mb_recv
    <3>3. SameBut(c, b, {"mb"})
      BY <1>1, <3>1 DEF SameBut, Fields
    <3> QED BY <1>1, <3>2, <3>3, Finished
  <2> QED BY <2>1, <2>2, <2>3
<1> QED BY <1>2, <1>3

\* rt_mb_urgent and rt_mb_control.
LEMMA MailOthers ==
  ASSUME NEW c, KInv(c), NEW v, NEW o
  PROVE  /\ \A r : r = rt_mb_urgent(c, v) => /\ Section(c, r, o, InWait(c, "mb_recv"), {"mb"})
                                             /\ r.at \in {"top", "resched"}
         /\ \A r : r = rt_mb_control(c) =>
              Section(c, r, o, {}, {"mb"}) /\ r.at = "resched" /\ r.k.wait["mb_send"] = << >>
<1>1. /\ DOMAIN c = Fields /\ {"mb"} \subseteq Objects /\ SameBut(c, c, {"mb"})
      /\ "mb_send" \in Lists /\ "mb_recv" \in Lists /\ "mb_send" # "defunct" /\ "mb_recv" # "defunct"
  BY Itself DEF Objects, KInv, Kernel, KType, Lists, WaitLists
<1>2. ASSUME NEW r, r = rt_mb_urgent(c, v)
      PROVE  Section(c, r, o, InWait(c, "mb_recv"), {"mb"}) /\ r.at \in {"top", "resched"}
  <2>1. CASE c.mb.entry = MbSize
    <3>1. r.k = c /\ r.at = "top"
      BY <1>2, <2>1 DEF rt_mb_urgent, Ret
    <3> QED BY <1>1, <3>1, Returned
  <2>2. CASE c.mb.entry # MbSize
    <3>1. PICK b, x : b = [c EXCEPT !.mb.pool[x] = v, !.mb.out = x, !.mb.entry = @ + 1]
                      /\ r = finish(b, "mb_recv", None)
      BY <1>2, <2>2 DEF rt_mb_urgent
    <3>2. SameBut(c, b, {"mb"})
      BY <1>1, <3>1 DEF SameBut, Fields
    <3> QED BY <1>1, <3>1, <3>2, Finished
  <2> QED BY <2>1, <2>2
<1>3. ASSUME NEW r, r = rt_mb_control(c)
      PROVE  Section(c, r, o, {}, {"mb"}) /\ r.at = "resched" /\ r.k.wait["mb_send"] = << >>
  <2>1. PICK a : a = _ipc_list_resume_all(c, "mb_recv")
    OBVIOUS
  <2>2. PICK b : b = _ipc_list_resume_all(a, "mb_send")
    OBVIOUS
  <2>3. Wakes(c, a, {}, {}) /\ a.cur = c.cur /\ KInv(a)
    BY <1>1, <2>1, AllResumed DEF Wakes
  <2>4. Wakes(a, b, {}, {}) /\ b.cur = a.cur /\ b.wait["mb_send"] = << >> /\ KInv(b) /\ DOMAIN b = Fields
    <3>1. Wakes(a, b, {}, {}) /\ b.cur = a.cur /\ b.wait["mb_send"] = << >>
      BY <1>1, <2>2, <2>3, AllResumed
    <3> QED BY <3>1 DEF Wakes, KInv, Kernel, KType
  <2>5. Wakes(c, b, {}, {})
    BY <2>3, <2>4, WakesTwice
  <2>6. r.at = "resched" /\ r.k = [b EXCEPT !.mb.entry = 0, !.mb.in = 0, !.mb.out = 0]
    BY <1>3, <2>1, <2>2 DEF rt_mb_control, Resched
  <2>7. SameBut(b, r.k, {"mb"})
    BY <2>4, <2>6 DEF SameBut, Fields
  <2>8. r.k.wait["mb_send"] = << >>
    BY <2>4, <2>7 DEF SameBut, Fields
  <2> QED BY <1>1, <2>3, <2>4, <2>5, <2>6, <2>7, <2>8, Reset
<1> QED BY <1>2, <1>3

\* The sections of the message queue before the copy of the message.
LEMMA MsgSections ==
  ASSUME NEW c, KInv(c), c.cur \in Threads, c.stat[c.cur] = "running", NEW n \in Int
  PROVE  /\ \A r : r = mq_reserve(c, c.cur, n) =>
              /\ Section(c, r, "mq_send", {}, {"mq"}) /\ r.at # "resched"
              /\ r.at = "block" => n # 0
         /\ \A r : r = mq_unlink(c, c.cur, n) =>
              Section(c, r, "mq_recv", {}, {"mq"}) /\ r.at # "resched"
<1>1. /\ DOMAIN c = Fields /\ {"mq"} \subseteq Objects /\ SameBut(c, c, {"mq"})
      /\ "mq_send" \in IpcLists /\ OpOf("mq_send") = "mq_send"
      /\ "mq_recv" \in IpcLists /\ OpOf("mq_recv") = "mq_recv"
  BY Itself DEF Objects, KInv, Kernel, KType, WaitLists, IpcLists, OpOf
<1>2. ASSUME NEW r, r = mq_reserve(c, c.cur, n)
      PROVE  /\ Section(c, r, "mq_send", {}, {"mq"}) /\ r.at # "resched"
             /\ r.at = "block" => n # 0
  <2>1. CASE c.mq.free = Null /\ n = 0
    <3>1. r.k = c /\ r.at = "top"
      BY <1>2, <2>1 DEF mq_reserve, Ret
    <3> QED BY <1>1, <3>1, Returned
  <2>2. CASE c.mq.free = Null /\ n # 0
    <3>1. r = suspend_on(c, c.cur, "mq_send", n)
      BY <1>2, <2>2 DEF mq_reserve
    <3>2. Section(c, r, OpOf("mq_send"), {}, {"mq"}) /\ r.at = "block"
      BY <1>1, <3>1, BlockedOn
    <3> QED BY <1>1, <2>2, <3>2
  <2>3. CASE c.mq.free # Null
    <3>1. r.k = [c EXCEPT !.mq.free = c.mq.next[@]] /\ r.at = "copy"
      BY <1>2, <2>3 DEF mq_reserve, Copy
    <3>2. SameBut(c, r.k, {"mq"})
      BY <1>1, <3>1 DEF SameBut, Fields
    <3> QED BY <1>1, <3>1, <3>2, Returned
  <2> QED BY <2>1, <2>2, <2>3
<1>3. ASSUME NEW r, r = mq_unlink(c, c.cur, n)
      PROVE  Section(c, r, "mq_recv", {}, {"mq"}) /\ r.at # "resched"
  <2>1. CASE c.mq.entry = 0 /\ n = 0
    <3>1. r.k = c /\ r.at = "top"
      BY <1>3, <2>1 DEF mq_unlink, Ret
    <3> QED BY <1>1, <3>1, Returned
  <2>2. CASE c.mq.entry = 0 /\ n # 0
    <3>1. r = suspend_on(c, c.cur, "mq_recv", n)
      BY <1>3, <2>2 DEF mq_unlink
    <3>2. Section(c, r, OpOf("mq_recv"), {}, {"mq"}) /\ r.at = "block"
      BY <1>1, <3>1, BlockedOn, ZenonT(30)
    <3> QED BY <1>1, <3>2
  <2>3. CASE c.mq.entry # 0
    <3>1. PICK h : /\ r.k = [c EXCEPT !.mq.head = c.mq.next[h], !.mq.entry = @ - 1,
                                      !.mq.tail = IF @ = h THEN Null ELSE @]
                   /\ r.at = "copy"
      BY <1>3, <2>3 DEF mq_unlink, Copy
    <3>2. SameBut(c, r.k, {"mq"})
      BY <1>1, <3>1 DEF SameBut, Fields
    <3> QED BY <1>1, <3>1, <3>2, Returned
  <2> QED BY <2>1, <2>2, <2>3
<1> QED BY <1>2, <1>3

\* The sections of the message queue after the copy.
LEMMA MsgCopied ==
  ASSUME NEW c, KInv(c), NEW s, NEW v, NEW o
  PROVE  /\ \A r : r = mq_link(c, s, v) =>
              Section(c, r, o, InWait(c, "mq_recv"), {"mq"}) /\ r.at \in {"top", "resched"}
         /\ \A r : r = mq_link_urgent(c, s, v) =>
              Section(c, r, o, InWait(c, "mq_recv"), {"mq"}) /\ r.at \in {"top", "resched"}
         /\ \A r : r = mq_free(c, s) =>
              Section(c, r, o, InWait(c, "mq_send"), {"mq"}) /\ r.at \in {"top", "resched"}
<1>1. /\ DOMAIN c = Fields /\ {"mq"} \subseteq Objects
      /\ "mq_send" \in Lists /\ "mq_recv" \in Lists /\ "mq_send" # "defunct" /\ "mq_recv" # "defunct"
  BY DEF Objects, KInv, Kernel, KType, Lists, WaitLists
<1>2. ASSUME NEW r, r = mq_link(c, s, v)
      PROVE  Section(c, r, o, InWait(c, "mq_recv"), {"mq"}) /\ r.at \in {"top", "resched"}
  <2>1. PICK b, x, h : /\ b = [c EXCEPT !.mq.next = x, !.mq.val[s] = v, !.mq.tail = s,
                                        !.mq.entry = @ + 1, !.mq.head = h]
                       /\ r = finish(b, "mq_recv", None)
    BY <1>2 DEF mq_link
  <2>2. SameBut(c, b, {"mq"})
    BY <1>1, <2>1 DEF SameBut, Fields
  <2> QED BY <1>1, <2>1, <2>2, Finished
<1>3. ASSUME NEW r, r = mq_link_urgent(c, s, v)
      PROVE  Section(c, r, o, InWait(c, "mq_recv"), {"mq"}) /\ r.at \in {"top", "resched"}
  <2>1. PICK b, x : /\ b = [c EXCEPT !.mq.next[s] = c.mq.head, !.mq.val[s] = v, !.mq.head = s,
                                     !.mq.entry = @ + 1, !.mq.tail = x]
                    /\ r = finish(b, "mq_recv", None)
    BY <1>3 DEF mq_link_urgent
  <2>2. SameBut(c, b, {"mq"})
    BY <1>1, <2>1 DEF SameBut, Fields
  <2> QED BY <1>1, <2>1, <2>2, Finished
<1>4. ASSUME NEW r, r = mq_free(c, s)
      PROVE  Section(c, r, o, InWait(c, "mq_send"), {"mq"}) /\ r.at \in {"top", "resched"}
  <2>1. PICK b : b = [c EXCEPT !.mq.next[s] = c.mq.free, !.mq.free = s, !.mq.val[s] = None]
    OBVIOUS
  <2>2. r = finish(b, "mq_send", c.mq.val[s])
    BY <1>4, <2>1 DEF mq_free
  <2>3. SameBut(c, b, {"mq"})
    BY <1>1, <2>1 DEF SameBut, Fields
  <2> QED BY <1>1, <2>2, <2>3, Finished
<1> QED BY <1>2, <1>3, <1>4

Follow(env, c, i) ==
  LET e == IF c = << >> THEN env[2] ELSE env[1][Last(c)]
  IN  IF e = Null \/ Contains(c, e) THEN c ELSE Append(c, e)
Followed(env, base, s, i, c) == \E T : c \in Seq(T)
Walk == INSTANCE FoldFacts WITH Op <- Follow, Rel <- Followed

\* The slots along a list of messages are a sequence.
LEMMA ChainIsSeq ==
  ASSUME NEW next, NEW s
  PROVE  \E T : Chain(next, s) \in Seq(T)
<1>1. PICK env, base, q : env = <<next, s>> /\ base = << >> /\ q = [i \in 1 .. MqSize |-> i]
  OBVIOUS
<1>2. q \in Seq(Int) /\ MqSize \in Nat
  BY <1>1, IpcAssumption
<1>3. Followed(env, base, q, 0, base)
  <2>1. base \in Seq({})
    BY <1>1
  <2> QED BY <2>1 DEF Followed
<1>4. ASSUME NEW i \in 1 .. Len(q), NEW c, Followed(env, base, q, i - 1, c)
      PROVE  Followed(env, base, q, i, Follow(env, c, q[i]))
  <2>1. PICK T : c \in Seq(T)
    BY <1>4 DEF Followed
  <2>2. PICK e : Follow(env, c, q[i]) = c \/ Follow(env, c, q[i]) = Append(c, e)
    BY DEF Follow
  <2>3. c \in Seq(T \cup {e}) /\ e \in T \cup {e}
    BY <2>1
  <2>4. Append(c, e) \in Seq(T \cup {e})
    BY <2>3
  <2> QED BY <2>2, <2>3, <2>4 DEF Followed
<1>5. Followed(env, base, q, Len(q), Walk!Fold(env, base, q))
  BY <1>2, <1>3, <1>4, LeastExists, Walk!FoldKeeps DEF Walk!LeastNumber
<1>6. Walk!Fold(env, base, q) = Chain(next, s)
  BY <1>1 DEF Chain, Follow, Walk!Fold, FoldLeft, MapThenFoldSet, Walk!Greatest, Max
<1> QED BY <1>5, <1>6 DEF Followed

Release(env, c, s) == mq_release(c, s)
Released(env, base, s, i, d) == SameBut(base, d, {"mq"})
Flush == INSTANCE FoldFacts WITH Op <- Release, Rel <- Released

\* rt_mq_control.
LEMMA MsgReset ==
  ASSUME NEW c, KInv(c), NEW o, NEW r, r = rt_mq_control(c)
  PROVE  Section(c, r, o, {}, {"mq"}) /\ r.at = "resched" /\ r.k.wait["mq_send"] = << >>
<1>1. /\ {"mq"} \subseteq Objects /\ "mq_send" \in Lists /\ "mq_recv" \in Lists
      /\ "mq_send" # "defunct" /\ "mq_recv" # "defunct"
  BY DEF Objects, Lists, WaitLists
<1>2. PICK a : a = _ipc_list_resume_all(c, "mq_recv")
  OBVIOUS
<1>3. PICK b : b = _ipc_list_resume_all(a, "mq_send")
  OBVIOUS
<1>4. Wakes(c, a, {}, {}) /\ a.cur = c.cur
  BY <1>1, <1>2, AllResumed
<1>5. KInv(a)
  BY <1>4 DEF Wakes
<1>6. Wakes(a, b, {}, {}) /\ b.cur = a.cur /\ b.wait["mq_send"] = << >>
  BY <1>1, <1>3, <1>5, AllResumed
<1>7. KInv(b) /\ DOMAIN b = Fields
  BY <1>6 DEF Wakes, KInv, Kernel, KType
<1>8. Wakes(c, b, {}, {})
  BY <1>4, <1>6, WakesTwice
<1>9. PICK s, T : s = Chain(c.mq.next, c.mq.head) /\ s \in Seq(T)
  BY ChainIsSeq
<1>10. PICK d : d = Flush!Fold(0, b, s)
  OBVIOUS
<1>11. SameBut(b, d, {"mq"})
  <2>1. Released(0, b, s, 0, b)
    BY <1>7, Itself DEF Released
  <2>2. ASSUME NEW i \in 1 .. Len(s), NEW e, Released(0, b, s, i - 1, e)
        PROVE  Released(0, b, s, i, Release(0, e, s[i]))
    <3>1. DOMAIN e = Fields
      BY <2>2 DEF Released, SameBut
    <3>2. PICK f : f = Release(0, e, s[i])
      OBVIOUS
    <3>3. SameBut(e, f, {"mq"})
      BY <3>1, <3>2 DEF Release, mq_release, SameBut, Fields
    <3> QED BY <2>2, <3>2, <3>3 DEF Released, SameBut
  <2>3. Released(0, b, s, Len(s), d)
    BY <1>9, <1>10, <2>1, <2>2, LeastExists, Flush!FoldKeeps DEF Flush!LeastNumber
  <2> QED BY <2>3 DEF Released
<1>12. d = FoldLeft(mq_release, b, s)
  BY <1>10 DEF Release, Flush!Fold, FoldLeft, MapThenFoldSet, Flush!Greatest, Max
<1>13. r.at = "resched" /\ r.k = [d EXCEPT !.mq.head = Null, !.mq.tail = Null, !.mq.entry = 0]
  BY <1>2, <1>3, <1>9, <1>12 DEF rt_mq_control, Resched
<1>14. SameBut(d, r.k, {"mq"})
  BY <1>11, <1>13 DEF SameBut, Fields
<1>15. SameBut(b, r.k, {"mq"})
  BY <1>11, <1>14 DEF SameBut
<1>16. r.k.wait["mq_send"] = << >>
  BY <1>6, <1>15 DEF SameBut, Fields
<1> QED BY <1>1, <1>4, <1>6, <1>8, <1>13, <1>15, <1>16, Reset

\* rt_mp_alloc.
LEMMA PoolTaken ==
  ASSUME NEW c, KInv(c), c.cur \in Threads, c.stat[c.cur] = "running", NEW n \in Int,
         NEW r, r = rt_mp_alloc(c, c.cur, n)
  PROVE  \E b : Preset(c, b) /\ Section(b, r, "mp_alloc", {}, {"mp"}) /\ r.at \in {"top", "block"}
<1>0. PICK t : t = c.cur
  OBVIOUS
<1>1. /\ DOMAIN c = Fields /\ {"mp"} \subseteq Objects /\ c.err \in [Threads -> Errors]
      /\ "EOK" \in Errors /\ "mp" \in Lists /\ "mp" # "defunct" /\ "mp" \in IpcLists
      /\ OpOf("mp") = "mp_alloc" /\ c.stat \in [Threads -> Stats]
  BY DEF Objects, KInv, Kernel, KType, Errors, Lists, WaitLists, IpcLists, OpOf
<1>2. CASE c.mp.free = 0 /\ n # 0
  <2>1. PICK b : b = [c EXCEPT !.err[t] = "EOK"]
    OBVIOUS
  <2>2. PICK a : a = rt_thread_suspend(b, t)
    OBVIOUS
  <2>3. PICK l : l = Cons(t, a.wait["mp"])
    OBVIOUS
  <2>4. PICK e : e = [a EXCEPT !.wait["mp"] = l]
    OBVIOUS
  <2>5. PICK d : d = IF n > 0 THEN rt_timer_start(e, t, n) ELSE e
    OBVIOUS
  <2>6. r.k = d /\ r.at = "block"
    <3>1. e = [a EXCEPT !.wait["mp"] = Cons(t, @)]
      BY <2>3, <2>4
    <3> QED BY <1>0, <1>2, <2>1, <2>2, <2>5, <3>1 DEF rt_mp_alloc, Block
  <2>7. Preset(c, b)
    <3>1. SameBut(c, b, {"err"}) /\ b.err = [c.err EXCEPT ![t] = "EOK"]
      BY <1>1, <2>1 DEF SameBut, Fields
    <3> QED BY <1>0, <1>1, <3>1 DEF Preset
  <2>8. KInv(b) /\ b.stat = c.stat /\ b.cur = t
    BY <1>0, <2>7, PresetFacts
  <2>9. /\ KInv(a) /\ SameBut(b, a, {"stat", "ready", "group"})
        /\ a.stat = [b.stat EXCEPT ![t] = "suspend"] /\ ~Waits(a, t) /\ ~Timed(a, t)
    <3>1. a = rt_thread_suspend(b, b.cur) /\ b.cur \in Threads /\ b.stat[b.cur] = "running"
      BY <1>0, <2>2, <2>8
    <3>2. /\ KInv(a) /\ SameBut(b, a, {"stat", "ready", "group"})
          /\ a.stat = [b.stat EXCEPT ![b.cur] = "suspend"] /\ ~Waits(a, b.cur) /\ ~Timed(a, b.cur)
      BY <2>8, <3>1, Suspended
    <3> QED BY <2>8, <3>2
  <2>10. a.wait = b.wait /\ a.timer = b.timer /\ a.err = b.err
    BY <2>9 DEF SameBut, Fields
  <2>11. IsList(Threads, l) /\ \A u : InList(u, l) <=> InList(u, a.wait["mp"]) \/ u = t
    <3>1. IsList(Threads, a.wait["mp"]) /\ ~InList(t, a.wait["mp"]) /\ t \in Threads
      BY <1>0, <1>1, <2>9 DEF KInv, Kernel, WaitOK, Waits
    <3> QED BY <2>3, <3>1, ConsFacts
  <2>12. KInv(e) /\ SameBut(a, e, {"wait"}) /\ WaitMore(a, e, t, "mp")
    <3>1. a.stat[t] = "suspend" /\ t \in Threads
      BY <1>0, <1>1, <2>8, <2>9
    <3> QED BY <1>1, <2>4, <2>9, <2>11, <3>1, Entered
  <2>13. e.stat = a.stat /\ e.timer = b.timer /\ e.err = b.err
    BY <2>10, <2>12 DEF SameBut, Fields
  <2>14. /\ KInv(d) /\ SameBut(e, d, {"timer"}) /\ (Armed(e) => Armed(d))
         /\ NewTimer(e, d, t)
    <3>1. e.stat[t] = "suspend" /\ t \in Threads
      BY <1>0, <1>1, <2>8, <2>9, <2>13
    <3> QED BY <2>5, <2>12, <3>1, MaybeTimed
  <2>15. d.stat = a.stat /\ d.wait = e.wait /\ d.err = b.err
    BY <2>13, <2>14 DEF SameBut, Fields
  <2>16. SameBut(b, d, {"stat", "ready", "group", "wait", "timer", "err"})
    BY <2>9, <2>12, <2>14 DEF SameBut
  <2>17. WaitMore(b, d, t, "mp")
    BY <2>10, <2>12, <2>15 DEF WaitMore
  <2>18. (Armed(b) => Armed(d)) /\ NewTimer(b, d, t)
    BY <2>13, <2>14 DEF Armed, Timed, NewTimer
  <2>19. Suspends(b, d, t, "mp")
    BY <2>9, <2>14, <2>15, <2>16, <2>17, <2>18 DEF Suspends
  <2>20. SuspendsIn(b, d, "mp", {"mp"})
    <3>1. SameBut(b, b, {"mp"})
      BY <2>8, Itself
    <3> QED BY <2>8, <2>19, <3>1 DEF SuspendsIn
  <2>21. Section(b, r, "mp_alloc", {}, {"mp"})
    BY <1>1, <2>6, <2>20 DEF Section
  <2> QED BY <2>6, <2>7, <2>21
<1>3. CASE c.mp.free # 0 \/ n = 0
  <2>1. r.at = "top" /\ SameBut(c, r.k, {"mp"})
    <3>1. CASE c.mp.free # 0
      <4>1. r.k = [c EXCEPT !.mp.free = @ - 1, !.mp.list = Tail(@)] /\ r.at = "top"
        BY <3>1 DEF rt_mp_alloc, Ret
      <4> QED BY <1>1, <4>1 DEF SameBut, Fields
    <3>2. CASE c.mp.free = 0
      <4>1. r.k = c /\ r.at = "top"
        BY <1>3, <3>2 DEF rt_mp_alloc, Ret
      <4> QED BY <4>1, Itself
    <3> QED BY <3>1, <3>2
  <2>2. Preset(c, c)
    <3>1. c.err = [c.err EXCEPT ![c.cur] = c.err[c.cur]] /\ c.err[c.cur] \in Errors
      BY <1>1
    <3>2. SameBut(c, c, {"err"})
      BY Itself
    <3> QED BY <3>1, <3>2 DEF Preset
  <2>3. Section(c, r, "mp_alloc", {}, {"mp"})
    BY <1>1, <2>1, Returned
  <2> QED BY <2>1, <2>2, <2>3
<1> QED BY <1>2, <1>3

\* rt_mp_free.
LEMMA PoolFreed ==
  ASSUME NEW c, KInv(c), NEW x, NEW o, NEW r, r = rt_mp_free(c, x)
  PROVE  Section(c, r, o, InWait(c, "mp"), {"mp"}) /\ r.at \in {"top", "resched"}
<1>1. DOMAIN c = Fields /\ {"mp"} \subseteq Objects /\ "mp" \in Lists /\ "mp" # "defunct"
  BY DEF Objects, KInv, Kernel, KType, Lists, WaitLists
<1>2. PICK b : b = [c EXCEPT !.mp.free = @ + 1, !.mp.list = Cons(x, @)]
  OBVIOUS
<1>3. r = finish(b, "mp", None)
  BY <1>2 DEF rt_mp_free
<1>4. SameBut(c, b, {"mp"})
  BY <1>1, <1>2 DEF SameBut, Fields
<1> QED BY <1>1, <1>3, <1>4, Finished

-----------------------------------------------------------------------------
(* Steps of the system *)

\* What holds of a thread at e stays true while other threads are woken.
LEMMA OwnWakes ==
  ASSUME NEW l, NEW c, NEW d, NEW G, NEW F, Wakes(c, d, G, F), NEW t \in Threads, NEW e, Own(l, c, e, t)
  PROVE  Own(l, d, e, t)
<1>1. Wake(c, d, G, t)
  BY DEF Wakes
<1>2. (Aims(l, e) => Loose(d, e.arg)) /\ (Timed(d, t) => Timed(c, t))
  <2>1. SubTimers(c, d)
    BY DEF Wakes
  <2> QED BY <2>1, LooseStays, SubTimed DEF Own
<1>3. \A w \in Lists \ {"defunct"} : InList(t, d.wait[w]) =>
       w \in IpcLists /\ e.op = OpOf(w) /\ e.at \in {"block", "woken"}
  BY <1>1 DEF Own, Wake
<1>4. (d.stat[t] = "close" => e.at \in {"resched", "top"}) /\ (d.stat[t] = "init" => e.at = "top")
  BY <1>1 DEF Own, Wake
<1>5. d.stat[t] = "suspend" /\ e.op = "sem_take" /\ e.at \in {"block", "woken"} => d.err[t] # "EOK"
  BY <1>1 DEF Own, Wake
<1> QED BY <1>2, <1>3, <1>4, <1>5 DEF Own

\* A running thread that is not the idle thread may be at any other place.
LEMMA OwnRuns ==
  ASSUME NEW l, NEW d, KInv(d), NEW t \in Threads, d.stat[t] = "running", t # Idle, NEW e,
         DOMAIN e = {"at", "op", "to", "el", "arg", "slot"}, e.to \in Int, e.el \in Int,
         e.at \in {"top", "resched", "copy", "woken"}, e.op # "mutex_take",
         e.at = "copy" => e.op \in {"mq_send", "mq_urgent", "mq_recv"}
  PROVE  Own(l, d, e, t)
<1>1. (\A w \in Lists : ~InList(t, d.wait[w])) /\ ~Timed(d, t)
  BY DEF KInv, Kernel, WaitOK, TimerOK, Timed
<1> QED BY <1>1 DEF Own, Aims

\* Thread t goes on to e.
Goes(h, g, t, e) == DOMAIN g = Threads /\ g[t] = e /\ \A u \in Threads : u # t => g[u] = h[u]

\* The current thread goes on to e and others are woken.
LEMMA BaseMoves ==
  ASSUME NEW l, NEW c, NEW h, Base(l, c, h), NEW d, NEW G, NEW F, Wakes(c, d, G, F), F \subseteq Objects,
         d.cur \in Threads, d.sem \in Nat, NEW t \in Threads, NEW e, Own(l, d, e, t),
         NEW g, Goes(h, g, t, e), Runs(d, g[d.cur])
  PROVE  Base(l, d, g)
<1>1. KInv(d) /\ d.init = c.init
  BY DEF Wakes, SameBut, Fields, WakeFields, Objects
<1>2. d.stat[Idle] \in {"ready", "running"}
  <2>1. Wake(c, d, G, Idle)
    BY SchedAssumption DEF Wakes
  <2> QED BY <2>1 DEF Base, Wake
<1>3. DOMAIN g = Threads
  BY DEF Goes
<1>4. ASSUME NEW u \in Threads PROVE Own(l, d, g[u], u)
  <2>1. CASE u = t
    BY <2>1 DEF Goes
  <2>2. CASE u # t
    <3>1. g[u] = h[u] /\ Own(l, c, h[u], u)
      BY <2>2 DEF Base, Goes
    <3> QED BY <3>1, OwnWakes
  <2> QED BY <2>1, <2>2
<1> QED BY <1>1, <1>2, <1>3, <1>4 DEF Base

\* Quiet is about the current thread, the states and the priorities.
LEMMA QuietSame ==
  ASSUME NEW c, Quiet(c), NEW d, d.cur = c.cur, d.stat = c.stat, d.prio = c.prio
  PROVE  Quiet(d)
BY DEF Quiet

\* Thread t goes on to e, as Go says.
Moved(h, t, e) == [h EXCEPT ![t] = e]

\* Where a thread is in its call after section r.
After(r, o, n, arg) ==
  IF r.at = "top" THEN Top
  ELSE [at |-> r.at, op |-> o, to |-> n, el |-> 0, arg |-> arg,
        slot |-> IF r.at = "copy" THEN r.val ELSE Null]

\* The current thread is in a call, and not before rt_schedule.
Calling(c, h) == c.cur # Idle /\ h[c.cur].at \notin {"block", "resched"}

\* What After is.
LEMMA AfterFacts ==
  ASSUME NEW r, NEW o, NEW n \in Int, NEW arg, NEW e, e = After(r, o, n, arg), o # "mutex_take"
  PROVE  /\ DOMAIN e = {"at", "op", "to", "el", "arg", "slot"} /\ e.to \in Int /\ e.el \in Int
         /\ e.at = r.at /\ e.op # "mutex_take" /\ (e.at # "top" => e.op = o)
         /\ (e.at # "top" => e.arg = arg)
BY DEF After, Top, None

\* A call of the current thread that returns or goes on to rt_schedule.
LEMMA CallGoesOn ==
  ASSUME NEW l, NEW c, NEW h, System(l, c, h), Calling(c, h), NEW r, NEW o, NEW n \in Int, NEW arg,
         NEW G, NEW F, F \subseteq Objects, Section(c, r, o, G, F), r.k.sem \in Nat,
         o # "mutex_take", r.at = "copy" => o \in {"mq_send", "mq_urgent", "mq_recv"},
         r.at # "block", NEW g, g = Moved(h, c.cur, After(r, o, n, arg))
  PROVE  System(l, r.k, g)
<1>0. PICK d, t, e : d = r.k /\ t = c.cur /\ e = After(r, o, n, arg)
  OBVIOUS
<1>1. /\ Base(l, c, h) /\ Armed(c) /\ KInv(c) /\ t \in Threads /\ t # Idle /\ h[t].at \notin {"block", "resched"}
      /\ DOMAIN h = Threads /\ Runs(c, h[t])
  BY <1>0 DEF System, Base, Calling
<1>2. c.stat[t] = "running" /\ (c.lock = 0 => Quiet(c))
  BY <1>0, <1>1 DEF Runs
<1>3. PICK H : Wakes(c, d, H, F) /\ d.cur = t /\ (r.at \in {"top", "copy"} => d.stat = c.stat)
               /\ r.at \in {"top", "copy", "resched"}
  BY <1>0, SectionEnds
<1>4. KInv(d) /\ d.lock = c.lock /\ d.prio = c.prio
  BY <1>3 DEF Wakes, SameBut, Fields, WakeFields, Objects
<1>5. d.stat[t] = "running"
  <2>1. Wake(c, d, H, t)
    BY <1>1, <1>3 DEF Wakes
  <2>2. d.stat[t] # "ready"
    BY <1>1, <1>3, <1>4 DEF KInv, CurOK
  <2> QED BY <1>2, <2>1, <2>2 DEF Wake
<1>6. /\ DOMAIN e = {"at", "op", "to", "el", "arg", "slot"} /\ e.to \in Int /\ e.el \in Int
      /\ e.at = r.at /\ e.op # "mutex_take" /\ (e.at # "top" => e.op = o)
  BY <1>0, AfterFacts
<1>7. Own(l, d, e, t)
  <2>1. e.at \in {"top", "resched", "copy", "woken"} /\ (e.at = "copy" => e.op \in {"mq_send", "mq_urgent", "mq_recv"})
    BY <1>3, <1>6
  <2> QED BY <1>1, <1>4, <1>5, <1>6, <2>1, OwnRuns
<1>8. g = [h EXCEPT ![t] = e] /\ g[d.cur] = e
  BY <1>0, <1>1, <1>3 DEF Moved
<1>9. Runs(d, e)
  <2>1. d.lock = 0 /\ e.at \notin {"block", "resched"} => Quiet(d)
    <3> SUFFICES ASSUME d.lock = 0, e.at \notin {"block", "resched"} PROVE Quiet(d)
      OBVIOUS
    <3>1. Quiet(c) /\ d.stat = c.stat /\ d.cur = c.cur
      BY <1>0, <1>2, <1>3, <1>4, <1>6
    <3> QED BY <1>4, <3>1, QuietSame
  <2>2. d.stat[d.cur] = "running"
    BY <1>3, <1>5
  <2>3. e.at \notin {"block", "woken"}
    BY <1>3, <1>6
  <2> QED BY <2>1, <2>2, <2>3 DEF Runs
<1>10. Base(l, d, g)
  <2>1. d.cur \in Threads /\ d.sem \in Nat /\ Runs(d, g[d.cur])
    BY <1>0, <1>1, <1>3, <1>8, <1>9
  <2>2. Base(l, c, h) /\ t \in Threads /\ Wakes(c, d, H, F)
    BY <1>1, <1>3
  <2>3. Goes(h, g, t, e)
    BY <1>1, <1>8 DEF Goes
  <2> QED BY <1>7, <2>1, <2>2, <2>3, BaseMoves
<1>11. Armed(d)
  <2>1. SubTimers(c, d)
    BY <1>3 DEF Wakes
  <2> QED BY <1>1, <2>1, SubArmed
<1> QED BY <1>0, <1>10, <1>11 DEF System

\* A call of the current thread that blocks.
LEMMA CallBlocks ==
  ASSUME NEW l, NEW c, NEW h, System(l, c, h), Calling(c, h), NEW r, NEW o, NEW n \in Int, NEW arg,
         NEW G, NEW F, F \subseteq Objects, Section(c, r, o, G, F), r.k.sem \in Nat,
         o # "mutex_take", r.at = "block", c.lock = 0,
         NEW g, g = Moved(h, c.cur, After(r, o, n, arg))
  PROVE  System(l, r.k, g)
<1>0. PICK d, t, e : d = r.k /\ t = c.cur /\ e = After(r, o, n, arg)
  OBVIOUS
<1>1. /\ Base(l, c, h) /\ Armed(c) /\ KInv(c) /\ t \in Threads /\ t # Idle /\ h[t].at \notin {"block", "resched"}
      /\ DOMAIN h = Threads /\ Runs(c, h[t])
  BY <1>0 DEF System, Base, Calling
<1>2. c.stat[t] = "running"
  BY <1>0, <1>1 DEF Runs
<1>3. PICK w \in IpcLists : OpOf(w) = o /\ SuspendsIn(c, d, w, F) /\ (o = "sem_take" => d.err[t] # "EOK")
  BY <1>0, SectionEnds
<1>4. PICK a : SameBut(c, a, F) /\ Suspends(a, d, t, w)
  BY <1>0, <1>3 DEF SuspendsIn
<1>5. /\ a.stat = c.stat /\ a.cur = c.cur /\ a.wait = c.wait /\ a.timer = c.timer /\ a.err = c.err
      /\ a.lock = c.lock /\ a.init = c.init
  BY <1>4 DEF SameBut, Fields, Objects
<1>6. /\ KInv(d) /\ d.stat = [c.stat EXCEPT ![t] = "suspend"] /\ WaitMore(c, d, t, w)
      /\ (Armed(c) => Armed(d)) /\ NewTimer(c, d, t) /\ \A u \in Threads : u # t => d.err[u] = c.err[u]
  BY <1>4, <1>5 DEF Suspends, Armed, NewTimer, Timed, WaitMore
<1>7. d.cur = t /\ d.lock = c.lock /\ d.init = c.init
  BY <1>0, <1>4, <1>5 DEF Suspends, SameBut, Fields
<1>8. /\ DOMAIN e = {"at", "op", "to", "el", "arg", "slot"} /\ e.to \in Int /\ e.el \in Int
      /\ e.at = "block" /\ e.op # "mutex_take" /\ e.op = o
  <2>1. e.at # "top"
    BY <1>0, AfterFacts
  <2> QED BY <1>0, <2>1, AfterFacts
<1>9. g = [h EXCEPT ![t] = e] /\ g[d.cur] = e
  BY <1>0, <1>1, <1>7 DEF Moved
<1>10. c.stat \in [Threads -> Stats] /\ w \in Lists /\ w # "defunct"
  BY <1>1 DEF KInv, Kernel, KType, IpcLists, Lists
<1>11. Own(l, d, e, t)
  <2>1. \A v \in Lists : InList(t, d.wait[v]) => v = w
    <3>1. InList(t, d.wait[w])
      BY <1>1, <1>6, <1>10 DEF WaitMore
    <3> QED BY <1>1, <1>6, <1>10, <3>1 DEF KInv, Kernel, WaitOK
  <2>2. d.stat[t] = "suspend"
    BY <1>1, <1>6, <1>10
  <2> QED BY <1>1, <1>3, <1>8, <2>1, <2>2 DEF Own, Aims
<1>12. ASSUME NEW u \in Threads, u # t PROVE Own(l, d, h[u], u)
  <2>1. Own(l, c, h[u], u)
    BY <1>1 DEF Base
  <2>2. d.stat[u] = c.stat[u] /\ d.err[u] = c.err[u]
    BY <1>6, <1>10, <1>12
  <2>3. \A v \in Lists : InList(u, d.wait[v]) => InList(u, c.wait[v])
    BY <1>6, <1>12 DEF WaitMore
  <2>4. ASSUME NEW x, Loose(c, x) PROVE Loose(d, x)
    <3>1. x \in Threads /\ x # t /\ d.stat[x] = "suspend"
      BY <1>2, <1>6, <1>10, <2>4 DEF Loose
    <3>2. ~Waits(d, x)
      BY <1>6, <2>4, <3>1 DEF WaitMore, Waits, Loose
    <3>3. ~Timed(d, x)
      BY <1>6, <2>4, <3>1 DEF NewTimer, Loose
    <3> QED BY <3>1, <3>2, <3>3 DEF Loose
  <2>5. Timed(d, u) => Timed(c, u)
    BY <1>6, <1>12 DEF NewTimer
  <2> QED BY <2>1, <2>2, <2>3, <2>4, <2>5 DEF Own
<1>13. \A u \in Threads : Own(l, d, g[u], u)
  BY <1>1, <1>9, <1>11, <1>12
<1>14. Runs(d, g[d.cur])
  BY <1>7, <1>8, <1>9 DEF Runs
<1>15. d.stat[Idle] \in {"ready", "running"}
  BY <1>1, <1>6, <1>10, SchedAssumption DEF Base
<1>16. DOMAIN g = Threads /\ d.sem \in Nat /\ d.init \in [Threads -> Prios] /\ d.cur \in Threads
  BY <1>0, <1>1, <1>7, <1>9 DEF Base
<1> QED BY <1>0, <1>1, <1>6, <1>13, <1>14, <1>15, <1>16 DEF System, Base

-----------------------------------------------------------------------------
(* The units of the semaphore *)

\* The threads that have been handed a unit and have not run yet.
Grants(c, h) == {t \in Threads : /\ h[t].op = "sem_take" /\ h[t].at \in {"block", "woken"}
                                 /\ c.err[t] = "EOK"}

SameGrants(c, h, d, g) == Grants(d, g) = Grants(c, h)

\* Two sets of threads with the same threads.
LEMMA SameThreads ==
  ASSUME NEW c, NEW h, NEW d, NEW g, \A u \in Threads : u \in Grants(d, g) <=> u \in Grants(c, h)
  PROVE  SameGrants(c, h, d, g)
<1>1. \A u : u \in Grants(d, g) => u \in Threads
  BY DEF Grants
<1>2. \A u : u \in Grants(c, h) => u \in Threads
  BY DEF Grants
<1>3. PICK X, Y : X = Grants(d, g) /\ Y = Grants(c, h)
  OBVIOUS
<1>4. X = Y
  BY <1>1, <1>2, <1>3
<1> QED BY <1>3, <1>4 DEF SameGrants

\* Thread t holds no unit at e.
NoGrant(c, e, t) == e.op = "sem_take" /\ e.at \in {"block", "woken"} => c.err[t] # "EOK"

\* The threads G do not wait for the semaphore.
Others(h, G) == \A u \in G : h[u].op # "sem_take"

\* A thread that waits for something else than the semaphore.
LEMMA OtherLists ==
  ASSUME NEW l, NEW c, NEW h, Base(l, c, h), NEW w \in IpcLists, w # "sem"
  PROVE  Others(h, InWait(c, w)) /\ Others(h, {})
<1> SUFFICES ASSUME NEW u \in InWait(c, w) PROVE h[u].op # "sem_take"
  BY DEF Others
<1>1. u \in Threads /\ InList(u, c.wait[w]) /\ w \in Lists \ {"defunct"}
  BY DEF InWait, IpcLists, Lists
<1>2. Own(l, c, h[u], u)
  BY <1>1 DEF Base
<1>3. h[u].op = OpOf(w)
  BY <1>1, <1>2 DEF Own
<1>4. OpOf(w) # "sem_take"
  BY DEF OpOf, IpcLists, WaitLists
<1> QED BY <1>3, <1>4

\* Waking threads hands out no unit but to the threads G that wait for one.
LEMMA WakesGrants ==
  ASSUME NEW l, NEW c, NEW h, Base(l, c, h), NEW d, NEW G, NEW F, Wakes(c, d, G, F),
         Others(h, G), NEW u \in Threads
  PROVE  u \in Grants(d, h) <=> u \in Grants(c, h)
<1>1. Wake(c, d, G, u) /\ Own(l, c, h[u], u)
  BY DEF Wakes, Base
<1> QED BY <1>1 DEF Wake, Own, Grants, Others

\* A call of a thread without a unit that does not take one.
LEMMA CallGrants ==
  ASSUME NEW l, NEW c, NEW h, Base(l, c, h), NEW r, NEW o, NEW n \in Int, NEW arg, NEW G, NEW F,
         F \subseteq Objects, Section(c, r, o, G, F), Others(h, G),
         o # "mutex_take", NoGrant(c, h[c.cur], c.cur),
         NEW g, g = Moved(h, c.cur, After(r, o, n, arg))
  PROVE  SameGrants(c, h, r.k, g)
<1>0. PICK d, t, e : d = r.k /\ t = c.cur /\ e = After(r, o, n, arg)
  OBVIOUS
<1>1. t \in Threads /\ DOMAIN h = Threads /\ g = [h EXCEPT ![t] = e]
  BY <1>0 DEF Base, Moved
<1>2. e.at = r.at /\ (e.at # "top" => e.op = o)
  BY <1>0, AfterFacts
<1>3. t \notin Grants(c, h)
  BY <1>0 DEF NoGrant, Grants
<1>4. t \notin Grants(d, g)
  <2>1. r.at = "block" => (o = "sem_take" => d.err[t] # "EOK")
    BY <1>0, SectionEnds
  <2>2. r.at # "woken"
    BY SectionEnds
  <2> QED BY <1>1, <1>2, <2>1, <2>2 DEF Grants
<1>5. ASSUME NEW u \in Threads, u # t PROVE u \in Grants(d, g) <=> u \in Grants(c, h)
  <2>1. g[u] = h[u]
    BY <1>1, <1>5
  <2>2. CASE r.at = "block"
    <3>1. PICK w \in IpcLists : SuspendsIn(c, d, w, F)
      BY <1>0, <2>2, SectionEnds
    <3>2. PICK a : SameBut(c, a, F) /\ Suspends(a, d, t, w)
      BY <1>0, <3>1 DEF SuspendsIn
    <3>3. a.err = c.err
      BY <3>2 DEF SameBut, Fields, Objects
    <3>4. d.err[u] = c.err[u]
      BY <1>5, <3>2, <3>3 DEF Suspends
    <3> QED BY <2>1, <3>4 DEF Grants
  <2>3. CASE r.at # "block"
    <3>1. PICK H : Wakes(c, d, H, F) /\ Others(h, H)
      <4>1. CASE r.at = "resched"
        <5>1. Wakes(c, d, G, F)
          BY <1>0, <4>1, SectionEnds
        <5> QED BY <5>1
      <4>2. CASE r.at # "resched"
        <5>1. Wakes(c, d, {}, F)
          BY <1>0, <2>3, <4>2, SectionEnds
        <5>2. PICK H : H = {}
          OBVIOUS
        <5>3. Wakes(c, d, H, F) /\ Others(h, H)
          BY <5>1, <5>2 DEF Others
        <5> QED BY <5>3
      <4> QED BY <4>1, <4>2
    <3>2. u \in Grants(d, h) <=> u \in Grants(c, h)
      BY <3>1, WakesGrants
    <3> QED BY <2>1, <3>2 DEF Grants
  <2> QED BY <2>2, <2>3
<1>6. SameGrants(c, h, d, g)
  BY <1>3, <1>4, <1>5, SameThreads
<1> QED BY <1>0, <1>6

\* The units of the semaphore: in the count, or on their way to a thread.
Units(c, h) == c.sem + Cardinality(Grants(c, h))

\* The objects but the semaphore.
Rest == Objects \ {"sem"}

\* A call that leaves the semaphore alone.
LEMMA CallKeeps ==
  ASSUME NEW l, NEW c, NEW h, System(l, c, h), Calling(c, h), NEW r, NEW o, NEW n \in Int, NEW arg,
         NEW G, NEW F, F \subseteq Rest, Section(c, r, o, G, F), Others(h, G),
         o # "mutex_take", r.at = "copy" => o \in {"mq_send", "mq_urgent", "mq_recv"},
         r.at = "block" => c.lock = 0, NoGrant(c, h[c.cur], c.cur),
         NEW g, g = Moved(h, c.cur, After(r, o, n, arg))
  PROVE  System(l, r.k, g) /\ Units(r.k, g) = Units(c, h)
<1>1. F \subseteq Objects /\ Base(l, c, h) /\ c.sem \in Nat
  BY DEF Rest, System, Base
<1>2. r.k.sem = c.sem
  <2>1. CASE r.at = "block"
    <3>1. PICK w \in IpcLists : SuspendsIn(c, r.k, w, F)
      BY <2>1, SectionEnds
    <3>2. PICK a : SameBut(c, a, F) /\ Suspends(a, r.k, c.cur, w)
      BY <3>1 DEF SuspendsIn
    <3>3. a.sem = c.sem
      BY <3>2 DEF SameBut, Fields, Rest
    <3> QED BY <3>2, <3>3 DEF Suspends, SameBut, Fields
  <2>2. CASE r.at # "block"
    <3>1. SameBut(c, r.k, WakeFields \cup F)
      BY <2>2, SectionEnds DEF Wakes
    <3> QED BY <3>1 DEF SameBut, Fields, Rest, WakeFields
  <2> QED BY <2>1, <2>2
<1>3. System(l, r.k, g)
  <2>1. CASE r.at = "block"
    BY <1>1, <1>2, <2>1, CallBlocks
  <2>2. CASE r.at # "block"
    BY <1>1, <1>2, <2>2, CallGoesOn
  <2> QED BY <2>1, <2>2
<1>4. SameGrants(c, h, r.k, g)
  BY <1>1, CallGrants
<1> QED BY <1>2, <1>3, <1>4 DEF Units, SameGrants

-----------------------------------------------------------------------------
(* rt_schedule at the end of a call or of an interrupt handler *)

\* rt_schedule finds a thread: the idle thread can always run.
LEMMA SchedWakes ==
  ASSUME NEW c, KInv(c), c.cur \in Threads, c.stat[Idle] \in {"ready", "running"},
         NEW d, d = rt_schedule(c)
  PROVE  /\ Wakes(c, d, {}, {}) /\ d.cur \in Threads /\ d.lock = c.lock /\ d.sem = c.sem /\ d.err = c.err
         /\ c.lock # 0 => d = c
         /\ c.lock = 0 => Quiet(d)
<1>1. c.stat[c.cur] = "running" \/ c.group # {}
  <2>1. Idle \in Threads
    BY SchedAssumption
  <2>2. c.stat[Idle] = "ready" => c.prio[Idle] \in c.group
    BY <2>1, Highest DEF KInv
  <2>3. c.stat[Idle] = "running" => Idle = c.cur
    BY <2>1 DEF KInv, CurOK
  <2> QED BY <2>2, <2>3
<1>2. /\ KInv(d) /\ SameBut(c, d, {"cur", "yld", "stat", "ready", "group"})
      /\ d.cur \in Threads /\ Swaps(c, d)
      /\ c.lock # 0 => d = c
      /\ c.lock = 0 => Quiet(d)
  BY <1>1, Scheduled
<1>3. d.wait = c.wait /\ d.timer = c.timer /\ d.err = c.err /\ d.lock = c.lock /\ d.sem = c.sem
  BY <1>2 DEF SameBut, Fields
<1>4. SameBut(c, d, WakeFields \cup {})
  BY <1>2 DEF SameBut, WakeFields
<1>5. SubTimers(c, d)
  BY <1>3 DEF SubTimers
<1>6. \A u \in Threads : Wake(c, d, {}, u)
  BY <1>2, <1>3 DEF Wake, Swaps, Loose
<1> QED BY <1>2, <1>3, <1>4, <1>5, <1>6 DEF Wakes

\* The same with the threads woken before.
LEMMA WakesSched ==
  ASSUME NEW c, KInv(c), c.stat[Idle] \in {"ready", "running"}, NEW b, NEW G, NEW F, Wakes(c, b, G, F),
         b.cur \in Threads, NEW d, d = rt_schedule(b)
  PROVE  /\ Wakes(c, d, G, F) /\ d.cur \in Threads /\ d.lock = b.lock /\ d.sem = b.sem /\ d.err = b.err
         /\ b.lock # 0 => d = b
         /\ b.lock = 0 => Quiet(d)
<1>1. KInv(b) /\ b.stat[Idle] \in {"ready", "running"}
  <2>1. Wake(c, b, G, Idle)
    BY SchedAssumption DEF Wakes
  <2> QED BY <2>1 DEF Wakes, Wake
<1>2. /\ Wakes(b, d, {}, {}) /\ d.cur \in Threads /\ d.lock = b.lock /\ d.sem = b.sem /\ d.err = b.err
      /\ b.lock # 0 => d = b
      /\ b.lock = 0 => Quiet(d)
  BY <1>1, SchedWakes
<1>3. PICK E : E = {}
  OBVIOUS
<1>4. Wakes(b, d, E, E)
  BY <1>2, <1>3
<1>5. Wakes(c, d, G \cup E, F \cup E)
  BY <1>4, WakesTrans
<1>6. G \cup E = G /\ F \cup E = F
  BY <1>3
<1>7. Wakes(c, d, G, F)
  BY <1>5, <1>6
<1> QED BY <1>2, <1>7

\* A step in which no thread goes on: threads are woken, and rt_schedule
\* has been called if the states have changed.
LEMMA Interrupted ==
  ASSUME NEW l, NEW c, NEW h, Base(l, c, h), NEW d, NEW G, NEW F, Wakes(c, d, G, F), F \subseteq Objects,
         d.cur \in Threads, d.sem \in Nat, d.lock = c.lock,
         c.lock # 0 => d.cur = c.cur,
         c.lock = 0 => Quiet(d) \/ (d.stat = c.stat /\ d.cur = c.cur)
  PROVE  Base(l, d, h)
<1>1. PICK t, e : t = d.cur /\ e = h[t]
  OBVIOUS
<1>2. t \in Threads /\ DOMAIN h = Threads /\ Own(l, c, e, t)
  BY <1>1 DEF Base
<1>3. Own(l, d, e, t)
  BY <1>2, OwnWakes
<1>4. Goes(h, h, t, e)
  BY <1>1, <1>2 DEF Goes
<1>5. Runs(d, h[d.cur])
  <2>1. h[d.cur] = e /\ Runs(c, h[c.cur]) /\ KInv(c)
    BY <1>1 DEF Base
  <2>2. CASE c.lock # 0
    <3>1. d.cur = c.cur /\ e = h[c.cur] /\ c.stat[c.cur] = "running"
      BY <1>1, <2>1, <2>2 DEF Runs
    <3>2. d.stat[d.cur] = "running"
      <4>1. Wake(c, d, G, t)
        BY <1>2 DEF Wakes
      <4>2. d.stat[t] # "ready"
        BY <1>1, <1>2 DEF Wakes, KInv, CurOK
      <4> QED BY <1>1, <3>1, <4>1, <4>2 DEF Wake
    <3> QED BY <2>1, <2>2, <3>1, <3>2 DEF Runs
  <2>3. CASE c.lock = 0 /\ Quiet(d)
    BY <2>1, <2>3 DEF Runs, Quiet
  <2>4. CASE c.lock = 0 /\ d.stat = c.stat /\ d.cur = c.cur
    <3>1. d.prio = c.prio
      BY DEF Wakes, SameBut, Fields, WakeFields, Objects
    <3>2. Quiet(c) => Quiet(d)
      BY <2>4, <3>1, QuietSame
    <3> QED BY <1>1, <2>1, <2>4, <3>2 DEF Runs
  <2> QED BY <2>2, <2>3, <2>4
<1> QED BY <1>2, <1>3, <1>4, <1>5, BaseMoves

\* An interrupt handler: a section, and rt_schedule if it has woken a thread.
LEMMA HandlerKeeps ==
  ASSUME NEW l, NEW c, NEW h, System(l, c, h), NEW r, NEW o, NEW G, NEW F, F \subseteq Objects,
         Section(c, r, o, G, F), r.at \in {"top", "resched"}, r.k.sem \in Nat,
         NEW d, d = IF r.at = "resched" THEN rt_schedule(r.k) ELSE r.k
  PROVE  /\ System(l, d, h) /\ d.sem = r.k.sem
         /\ \E H \in {G, {}} : Wakes(c, d, H, F) /\ (r.at = "resched" => H = G)
         /\ r.at = "resched" => d.err = r.k.err
<1>1. Base(l, c, h) /\ Armed(c) /\ KInv(c) /\ c.cur \in Threads /\ c.stat[Idle] \in {"ready", "running"}
  BY DEF System, Base
<1>2. CASE r.at = "top"
  <2>1. Wakes(c, d, {}, F) /\ d.stat = c.stat /\ d.cur = c.cur /\ d = r.k
    BY <1>2, SectionEnds
  <2>2. d.lock = c.lock
    BY <2>1 DEF Wakes, SameBut, Fields, WakeFields, Objects
  <2>3. PICK E : E = {}
    OBVIOUS
  <2>4. Wakes(c, d, E, F) /\ d.cur \in Threads /\ d.sem \in Nat
    BY <1>1, <2>1, <2>3
  <2>5. (c.lock # 0 => d.cur = c.cur) /\ (c.lock = 0 => Quiet(d) \/ (d.stat = c.stat /\ d.cur = c.cur))
    BY <2>1
  <2>6. Base(l, d, h)
    BY <1>1, <2>2, <2>4, <2>5, Interrupted
  <2>7. Armed(d)
    BY <1>1, <2>1, SubArmed DEF Wakes
  <2> QED BY <1>2, <2>1, <2>6, <2>7 DEF System
<1>3. CASE r.at = "resched"
  <2>1. PICK b : b = r.k
    OBVIOUS
  <2>2. Wakes(c, b, G, F) /\ b.cur = c.cur /\ d = rt_schedule(b) /\ b.cur \in Threads
    BY <1>1, <1>3, <2>1, SectionEnds
  <2>3. /\ Wakes(c, d, G, F) /\ d.cur \in Threads /\ d.lock = b.lock /\ d.sem = b.sem /\ d.err = b.err
        /\ b.lock # 0 => d = b
        /\ b.lock = 0 => Quiet(d)
    BY <1>1, <2>2, WakesSched
  <2>4. b.lock = c.lock
    BY <2>2 DEF Wakes, SameBut, Fields, WakeFields, Objects
  <2>5. (c.lock # 0 => d.cur = c.cur) /\ (c.lock = 0 => Quiet(d) \/ (d.stat = c.stat /\ d.cur = c.cur))
    BY <2>2, <2>3, <2>4
  <2>6. d.lock = c.lock /\ d.sem \in Nat
    BY <2>1, <2>3, <2>4
  <2>7. Base(l, d, h)
    BY <1>1, <2>3, <2>5, <2>6, Interrupted
  <2>8. Armed(d)
    BY <1>1, <2>3, SubArmed DEF Wakes
  <2> QED BY <1>3, <2>1, <2>3, <2>7, <2>8 DEF System
<1> QED BY <1>2, <1>3

\* A handler that leaves the semaphore alone.
LEMMA HandlerUnits ==
  ASSUME NEW l, NEW c, NEW h, System(l, c, h), NEW r, NEW o, NEW G, NEW F, F \subseteq Rest,
         Section(c, r, o, G, F), r.at \in {"top", "resched"}, Others(h, G),
         NEW d, d = IF r.at = "resched" THEN rt_schedule(r.k) ELSE r.k
  PROVE  System(l, d, h) /\ Units(d, h) = Units(c, h)
<1>1. Base(l, c, h) /\ F \subseteq Objects /\ c.sem \in Nat
  BY DEF System, Base, Rest
<1>2. r.k.sem = c.sem
  <2>1. SameBut(c, r.k, WakeFields \cup F)
    BY SectionEnds DEF Wakes
  <2> QED BY <2>1 DEF SameBut, Fields, Rest, WakeFields
<1>3. r.k.sem \in Nat
  BY <1>1, <1>2
<1>4. System(l, d, h) /\ d.sem = r.k.sem /\ \E H \in {G, {}} : Wakes(c, d, H, F)
  BY <1>1, <1>3, HandlerKeeps
<1>5. PICK H \in {G, {}} : Wakes(c, d, H, F)
  BY <1>4
<1>6. Others(h, H)
  BY <1>5 DEF Others
<1>7. \A u \in Threads : u \in Grants(d, h) <=> u \in Grants(c, h)
  BY <1>1, <1>5, <1>6, WakesGrants
<1>8. SameGrants(c, h, d, h)
  BY <1>7, SameThreads
<1> QED BY <1>2, <1>4, <1>8 DEF Units, SameGrants

\* The current thread calls rt_schedule.
LEMMA SchedKeeps ==
  ASSUME NEW l, NEW c, NEW h, System(l, c, h), NEW t, t = c.cur, h[t].at \in {"block", "resched"},
         NEW b, b = c \/ (h[t].op = "sleep" /\ Preset(c, b)), NEW d, d = rt_schedule(b),
         NEW g, Goes(h, g, t, IF h[t].at = "block" THEN [h[t] EXCEPT !.at = "woken"] ELSE Top)
  PROVE  System(l, d, g) /\ Units(d, g) = Units(c, h)
<1>1. /\ Base(l, c, h) /\ Armed(c) /\ KInv(c) /\ t \in Threads /\ c.stat[Idle] \in {"ready", "running"}
      /\ c.sem \in Nat /\ DOMAIN h = Threads /\ Runs(c, h[t]) /\ Own(l, c, h[t], t)
      /\ c.init \in [Threads -> Prios]
  BY DEF System, Base
<1>2. /\ KInv(b) /\ b.stat = c.stat /\ b.cur = c.cur /\ b.wait = c.wait /\ b.timer = c.timer
      /\ b.lock = c.lock /\ b.prio = c.prio /\ b.sem = c.sem /\ b.init = c.init
      /\ \A u \in Threads : u # t => b.err[u] = c.err[u]
  BY <1>1, PresetFacts
<1>3. b = c \/ h[t].op = "sleep"
  OBVIOUS
<1>4. \A u \in Threads : Own(l, b, h[u], u)
  <2> SUFFICES ASSUME NEW u \in Threads PROVE Own(l, b, h[u], u)
    OBVIOUS
  <2>1. Own(l, c, h[u], u)
    BY <1>1 DEF Base
  <2>2. \A x : Loose(c, x) => Loose(b, x)
    BY <1>2 DEF Loose, Waits, Timed
  <2>3. Timed(b, u) => Timed(c, u)
    BY <1>2 DEF Timed
  <2> QED BY <1>2, <1>3, <2>1, <2>2, <2>3 DEF Own
<1>5. Base(l, b, h)
  <2>1. Runs(b, h[b.cur])
    <3>1. Quiet(c) => Quiet(b)
      BY <1>2, QuietSame
    <3> QED BY <1>1, <1>2, <3>1 DEF Runs
  <2> QED BY <1>1, <1>2, <1>4, <2>1 DEF Base
<1>6. /\ Wakes(b, d, {}, {}) /\ d.cur \in Threads /\ d.lock = b.lock /\ d.sem = b.sem /\ d.err = b.err
      /\ b.lock # 0 => d = b
      /\ b.lock = 0 => Quiet(d)
  BY <1>1, <1>2, SchedWakes
<1>7. PICK E : E = {} /\ Wakes(b, d, E, E) /\ E \subseteq Objects
  BY <1>6
<1>8. PICK e : e = IF h[t].at = "block" THEN [h[t] EXCEPT !.at = "woken"] ELSE Top
  OBVIOUS
<1>9. Goes(h, g, t, e)
  BY <1>8
<1>10. /\ DOMAIN e = {"at", "op", "to", "el", "arg", "slot"}
       /\ \/ h[t].at = "block" /\ e.at = "woken" /\ e.op = h[t].op /\ e.to = h[t].to /\ e.el = h[t].el
          \/ h[t].at = "resched" /\ e = Top
  BY <1>1, <1>8 DEF Own, Top
<1>11. Own(l, d, e, t)
  <2>1. Own(l, d, h[t], t)
    BY <1>1, <1>4, <1>7, OwnWakes
  <2>2. CASE h[t].at = "block" /\ e.at = "woken" /\ e.op = h[t].op /\ e.to = h[t].to /\ e.el = h[t].el
    BY <1>10, <2>1, <2>2 DEF Own, Aims
  <2>3. CASE h[t].at = "resched" /\ e = Top
    <3>1. e.at = "top" /\ e.op = None /\ e.to = 0 /\ e.el = 0 /\ None # "mutex_take" /\ None # "sem_take"
      BY <2>3 DEF Top, None
    <3> QED BY <1>10, <2>1, <2>3, <3>1 DEF Own, Aims
  <2> QED BY <1>10, <2>2, <2>3
<1>12. Runs(d, g[d.cur])
  <2>1. CASE b.lock = 0
    BY <1>6, <2>1 DEF Runs, Quiet
  <2>2. CASE b.lock # 0
    <3>1. d.cur = t /\ c.stat[t] = "running" /\ h[t].at = "resched"
      BY <1>1, <1>2, <1>6, <2>2 DEF Runs
    <3>2. g[d.cur].at = "top" /\ d.stat[d.cur] = "running"
      BY <1>2, <1>6, <1>9, <1>10, <2>2, <3>1 DEF Goes, Top
    <3> QED BY <1>6, <2>2, <3>2 DEF Runs
  <2> QED BY <2>1, <2>2
<1>13. Base(l, d, g)
  <2>1. d.sem \in Nat /\ d.cur \in Threads
    BY <1>1, <1>2, <1>6
  <2> QED BY <1>1, <1>5, <1>7, <1>9, <1>11, <1>12, <2>1, BaseMoves
<1>14. Armed(d)
  <2>1. Armed(b)
    BY <1>1, <1>2 DEF Armed
  <2> QED BY <1>7, <2>1, SubArmed DEF Wakes
<1>15. \A u \in Threads : u \in Grants(d, g) <=> u \in Grants(c, h)
  <2> SUFFICES ASSUME NEW u \in Threads PROVE u \in Grants(d, g) <=> u \in Grants(c, h)
    OBVIOUS
  <2>1. CASE u # t
    BY <1>2, <1>6, <1>9, <2>1 DEF Grants, Goes
  <2>2. CASE u = t /\ b = c
    BY <1>6, <1>9, <1>10, <2>2 DEF Grants, Goes, Top
  <2>3. CASE u = t /\ h[t].op = "sleep"
    <3>1. g[t].op # "sem_take"
      BY <1>9, <1>10, <2>3 DEF Goes, Top, None
    <3> QED BY <2>3, <3>1 DEF Grants
  <2> QED BY <1>3, <2>1, <2>2, <2>3
<1>16. SameGrants(c, h, d, g)
  BY <1>15, SameThreads
<1> QED BY <1>2, <1>6, <1>13, <1>14, <1>16 DEF System, Units, SameGrants

-----------------------------------------------------------------------------
(* Calls that change the state of one thread *)

\* The threads but t are as they were.
Apart(c, d, t) ==
  \A u \in Threads : u # t =>
    /\ d.stat[u] = c.stat[u] /\ d.err[u] = c.err[u]
    /\ \A w \in Lists : InList(u, d.wait[w]) => InList(u, c.wait[w])
    /\ Timed(d, u) => Timed(c, u)

\* No thread is about to put t into the ready list.
NotTarget(l, h, t) == \A u \in Threads : Aims(l, h[u]) => h[u].arg # t

\* Only suspended threads are.
LEMMA Untargeted ==
  ASSUME NEW l, NEW c, NEW h, Base(l, c, h), NEW t, c.stat[t] # "suspend"
  PROVE  NotTarget(l, h, t)
BY DEF Base, Own, Loose, NotTarget

\* A thread that is not about to be put into the ready list changes alone.
LEMMA Alone ==
  ASSUME NEW l, NEW c, NEW h, System(l, c, h), NEW d, NEW t \in Threads, NEW e, NEW g,
         NotTarget(l, h, t), Apart(c, d, t), KInv(d), Armed(d), d.cur \in Threads, d.init = c.init,
         d.sem = c.sem, d.stat[Idle] \in {"ready", "running"}, Own(l, d, e, t), Goes(h, g, t, e),
         Runs(d, g[d.cur]), NoGrant(c, h[t], t), NoGrant(d, e, t)
  PROVE  System(l, d, g) /\ Units(d, g) = Units(c, h)
<1>1. /\ KInv(c) /\ c.sem \in Nat /\ c.init \in [Threads -> Prios] /\ DOMAIN g = Threads
      /\ \A u \in Threads : Own(l, c, h[u], u)
  BY DEF System, Base, Goes
<1>2. ASSUME NEW u \in Threads PROVE Own(l, d, g[u], u)
  <2>1. CASE u = t
    BY <2>1 DEF Goes
  <2>2. CASE u # t
    <3>1. g[u] = h[u] /\ Own(l, c, h[u], u)
      BY <1>1, <2>2 DEF Goes
    <3>2. ASSUME NEW x, x # t, Loose(c, x) PROVE Loose(d, x)
      BY <3>2 DEF Apart, Loose, Waits
    <3>3. Aims(l, h[u]) => h[u].arg # t
      BY DEF NotTarget
    <3> QED BY <2>2, <3>1, <3>2, <3>3 DEF Own, Apart
  <2> QED BY <2>1, <2>2
<1>3. \A u \in Threads : u \in Grants(d, g) <=> u \in Grants(c, h)
  <2> SUFFICES ASSUME NEW u \in Threads PROVE u \in Grants(d, g) <=> u \in Grants(c, h)
    OBVIOUS
  <2>1. CASE u = t
    BY <2>1 DEF Grants, Goes, NoGrant
  <2>2. CASE u # t
    BY <2>2 DEF Grants, Goes, Apart
  <2> QED BY <2>1, <2>2
<1>4. SameGrants(c, h, d, g)
  BY <1>3, SameThreads
<1>5. Base(l, d, g)
  BY <1>1, <1>2 DEF Base
<1> QED BY <1>4, <1>5 DEF System, Units, SameGrants

\* What is known of the current thread in a call.
LEMMA CallerFacts ==
  ASSUME NEW l, NEW c, NEW h, System(l, c, h), Calling(c, h)
  PROVE  /\ Base(l, c, h) /\ KInv(c) /\ Armed(c) /\ c.cur \in Threads /\ c.cur # Idle
         /\ c.stat[c.cur] = "running" /\ (c.lock = 0 => Quiet(c)) /\ NotTarget(l, h, c.cur)
         /\ c.stat[Idle] \in {"ready", "running"} /\ c.sem \in Nat /\ DOMAIN h = Threads
         /\ Own(l, c, h[c.cur], c.cur) /\ (h[c.cur].at = "woken" => c.lock = 0)
<1>1. /\ Base(l, c, h) /\ KInv(c) /\ Armed(c) /\ c.cur \in Threads /\ c.cur # Idle /\ Runs(c, h[c.cur])
      /\ h[c.cur].at \notin {"block", "resched"}
      /\ c.stat[Idle] \in {"ready", "running"} /\ c.sem \in Nat /\ DOMAIN h = Threads
      /\ Own(l, c, h[c.cur], c.cur)
  BY DEF System, Base, Calling
<1>2. c.stat[c.cur] = "running" /\ (c.lock = 0 => Quiet(c)) /\ (h[c.cur].at = "woken" => c.lock = 0)
  BY <1>1 DEF Runs
<1>3. NotTarget(l, h, c.cur)
  BY <1>1, <1>2, Untargeted
<1> QED BY <1>1, <1>2, <1>3

\* The current thread leaves the processor to wait, to sleep or for good.
LEMMA CurLeaves ==
  ASSUME NEW l, NEW c, NEW h, System(l, c, h), Calling(c, h), c.lock = 0, NoGrant(c, h[c.cur], c.cur),
         NEW d, KInv(d), Armed(d), d.cur = c.cur, d.lock = 0, d.init = c.init, d.sem = c.sem,
         Apart(c, d, c.cur), NEW e, Own(l, d, e, c.cur), e.at \in {"block", "resched"},
         e.op # "sem_take", NEW g, Goes(h, g, c.cur, e)
  PROVE  System(l, d, g) /\ Units(d, g) = Units(c, h)
<1>1. PICK t : t = c.cur
  OBVIOUS
<1>2. /\ t \in Threads /\ t # Idle /\ NotTarget(l, h, t) /\ c.stat[Idle] \in {"ready", "running"}
  BY <1>1, CallerFacts
<1>3. d.stat[Idle] \in {"ready", "running"}
  BY <1>1, <1>2, SchedAssumption DEF Apart
<1>4. Runs(d, g[d.cur])
  BY <1>1 DEF Goes, Runs
<1>5. d.cur \in Threads /\ NoGrant(d, e, t) /\ NoGrant(c, h[t], t)
  BY <1>1, <1>2 DEF NoGrant
<1>6. Own(l, d, e, t) /\ Goes(h, g, t, e) /\ Apart(c, d, t)
  BY <1>1
<1> QED BY <1>2, <1>3, <1>4, <1>5, <1>6, Alone

\* _thread_exit of the current thread.
LEMMA Exited ==
  ASSUME NEW c, KInv(c), NEW t \in Threads, t = c.cur, c.stat[t] = "running",
         NEW d, d = _thread_exit(c, t)
  PROVE  /\ KInv(d) /\ SameBut(c, d, {"ready", "group", "timer", "stat", "yld", "wait"})
         /\ d.stat = [c.stat EXCEPT ![t] = "close"] /\ WaitMore(c, d, t, "defunct") /\ SubTimers(c, d)
<1>1. PICK b : b = rt_schedule_remove_thread(c, t)
  OBVIOUS
<1>2. PICK a : a = rt_timer_stop(b, t)
  OBVIOUS
<1>3. d = [a EXCEPT !.stat[t] = "close", !.yld = @ \ {t}, !.wait["defunct"] = Cons(t, @)]
  BY <1>1, <1>2 DEF _thread_exit, defunct
<1>4. Kernel(c) /\ KType(c) /\ ReadyOK(c) /\ WaitOK(c) /\ TimerOK(c) /\ CurOK(c) /\ ~Waits(c, t)
  BY DEF KInv, Kernel, WaitOK, Waits
<1>5. SameBut(c, b, {"ready", "group"}) /\ b.ready = Unlinks(c.ready, Prios, t) /\ BitCleared(c, b, t)
  BY <1>1, <1>4, RemovedFields
<1>6. b.ready = c.ready
  <2>1. \A p \in Prios : IsList(Threads, c.ready[p]) /\ ~InList(t, c.ready[p])
    BY <1>4 DEF ReadyOK
  <2>2. c.ready \in [Prios -> Seq(Threads)]
    BY <1>4 DEF KType
  <2> QED BY <1>5, <2>1, <2>2, NotThere
<1>7. b.group = c.group
  <2>1. c.prio[t] \in Prios /\ c.group \subseteq Prios
    BY <1>4 DEF KType
  <2>2. c.ready[c.prio[t]] = << >> => c.prio[t] \notin c.group
    BY <1>4, <2>1 DEF ReadyOK
  <2> QED BY <1>5, <1>6, <2>2 DEF BitCleared
<1>8. /\ b.stat = c.stat /\ b.prio = c.prio /\ b.wait = c.wait /\ b.timer = c.timer /\ b.cur = c.cur
      /\ b.yld = c.yld /\ b.err = c.err /\ b.slice = c.slice /\ b.lock = c.lock /\ b.fault = c.fault
      /\ DOMAIN b = Fields
  BY <1>5 DEF SameBut, Fields
<1>9. Kernel(b)
  <2>1. KType(b)
    BY <1>4, <1>6, <1>7, <1>8 DEF KType
  <2> QED BY <1>4, <1>6, <1>7, <1>8, <2>1, KernelSame
<1>10. Kernel(a) /\ SameBut(b, a, {"timer"}) /\ ~Timed(a, t) /\ SubTimers(b, a)
  BY <1>2, <1>9, TimerStopped
<1>11. /\ a.stat = c.stat /\ a.prio = c.prio /\ a.wait = c.wait /\ a.cur = c.cur /\ a.ready = c.ready
       /\ a.group = c.group /\ a.yld = c.yld /\ DOMAIN a = Fields
  BY <1>6, <1>7, <1>8, <1>10 DEF SameBut, Fields
<1>12. KType(a) /\ ReadyOK(a) /\ WaitOK(a) /\ TimerOK(a)
  BY <1>10 DEF Kernel
<1>13. PICK s : s = Cons(t, a.wait["defunct"])
  OBVIOUS
<1>14. /\ SameBut(a, d, {"stat", "yld", "wait"}) /\ d.stat = [a.stat EXCEPT ![t] = "close"]
       /\ d.yld = a.yld \ {t} /\ d.wait = [a.wait EXCEPT !["defunct"] = s]
  BY <1>3, <1>11, <1>13 DEF SameBut, Fields
<1>15. "defunct" \in Lists /\ a.stat \in [Threads -> Stats] /\ a.wait \in [Lists -> Seq(Threads)]
  BY <1>12 DEF Lists, WaitLists, KType
<1>16. IsList(Threads, s) /\ \A u : InList(u, s) <=> InList(u, a.wait["defunct"]) \/ u = t
  <2>1. IsList(Threads, a.wait["defunct"]) /\ ~InList(t, a.wait["defunct"])
    BY <1>4, <1>11, <1>12, <1>15 DEF WaitOK, Waits
  <2> QED BY <1>13, <2>1, ConsFacts
<1>17. /\ d.prio = a.prio /\ d.cur = a.cur /\ d.ready = a.ready /\ d.group = a.group /\ d.timer = a.timer
       /\ d.err = a.err /\ d.slice = a.slice /\ d.lock = a.lock /\ d.fault = a.fault /\ DOMAIN d = Fields
  BY <1>14 DEF SameBut, Fields
<1>18. WaitMore(a, d, t, "defunct")
  <2> SUFFICES ASSUME NEW v \in Lists, NEW u \in Threads
               PROVE InList(u, d.wait[v]) <=> InList(u, a.wait[v]) \/ (u = t /\ v = "defunct")
    BY DEF WaitMore
  <2>1. CASE v = "defunct"
    <3>1. d.wait[v] = s
      BY <1>14, <1>15, <2>1
    <3> QED BY <1>16, <2>1, <3>1
  <2>2. CASE v # "defunct"
    <3>1. d.wait[v] = a.wait[v]
      BY <1>14, <1>15, <2>2
    <3> QED BY <2>2, <3>1
  <2> QED BY <2>1, <2>2
<1>19. d.stat[t] = "close" /\ \A u \in Threads : u # t => d.stat[u] = a.stat[u]
  BY <1>14, <1>15
<1>20. KType(d)
  <2>1. d.stat \in [Threads -> Stats]
    BY <1>14, <1>15 DEF Stats
  <2>2. d.wait \in [Lists -> Seq(Threads)]
    <3>1. s \in Seq(Threads)
      BY <1>16 DEF IsList
    <3> QED BY <1>14, <1>15, <3>1
  <2>3. d.yld \subseteq Threads
    BY <1>12, <1>14 DEF KType
  <2> QED BY <1>12, <1>17, <2>1, <2>2, <2>3 DEF KType
<1>21. ReadyOK(d)
  <2>1. \A p \in Prios : ~InList(t, a.ready[p])
    BY <1>4, <1>11 DEF ReadyOK
  <2> QED BY <1>12, <1>17, <1>19, <2>1 DEF ReadyOK
<1>22. WaitOK(d)
  <2>1. \A w \in Lists : IsList(Threads, d.wait[w])
    BY <1>12, <1>14, <1>15, <1>16 DEF WaitOK
  <2>2. \A w \in Lists : ~InList(t, a.wait[w])
    BY <1>4, <1>11 DEF Waits
  <2>3. \A w \in Lists, u \in Threads :
          InList(u, d.wait[w]) => d.stat[u] = IF w = "defunct" THEN "close" ELSE "suspend"
    BY <1>12, <1>18, <1>19, <2>2 DEF WaitOK, WaitMore
  <2>4. \A u \in Threads : d.stat[u] = "close" => InList(u, d.wait["defunct"])
    BY <1>12, <1>15, <1>18, <1>19 DEF WaitOK, WaitMore
  <2>5. \A w, v \in Lists, u \in Threads : InList(u, d.wait[w]) /\ InList(u, d.wait[v]) => w = v
    BY <1>12, <1>18, <2>2 DEF WaitOK, WaitMore
  <2> QED BY <2>1, <2>3, <2>4, <2>5 DEF WaitOK
<1>23. TimerOK(d)
  BY <1>10, <1>12, <1>17, <1>19 DEF TimerOK, Timed
<1>24. CurOK(d)
  BY <1>4, <1>11, <1>17, <1>19 DEF CurOK
<1>25. SameBut(c, d, {"ready", "group", "timer", "stat", "yld", "wait"})
  BY <1>5, <1>10, <1>14 DEF SameBut
<1>26. d.stat = [c.stat EXCEPT ![t] = "close"] /\ WaitMore(c, d, t, "defunct")
  BY <1>11, <1>14, <1>18 DEF WaitMore
<1>27. SubTimers(c, d)
  BY <1>8, <1>10, <1>17 DEF SubTimers
<1> QED BY <1>20, <1>21, <1>22, <1>23, <1>24, <1>25, <1>26, <1>27 DEF KInv, Kernel

-----------------------------------------------------------------------------
(* The calls of thread.c *)

\* The thread is not in a call that takes the semaphore.
NotSem(e) == ~(e.op = "sem_take" /\ e.at \in {"block", "woken"})

\* The error number of the current thread is set in a call that is not about
\* the semaphore.
LEMMA PresetKeeps ==
  ASSUME NEW l, NEW c, NEW h, System(l, c, h), Calling(c, h), NotSem(h[c.cur]), NEW b, Preset(c, b)
  PROVE  /\ System(l, b, h) /\ Calling(b, h) /\ Units(b, h) = Units(c, h) /\ b.cur = c.cur
         /\ b.lock = c.lock /\ NoGrant(b, h[b.cur], b.cur)
<1>1. PICK t : t = c.cur
  OBVIOUS
<1>2. /\ KInv(c) /\ Armed(c) /\ t \in Threads /\ NotTarget(l, h, t) /\ Own(l, c, h[t], t)
      /\ c.stat[Idle] \in {"ready", "running"} /\ DOMAIN h = Threads
  BY <1>1, CallerFacts
<1>3. /\ KInv(b) /\ b.stat = c.stat /\ b.cur = c.cur /\ b.wait = c.wait /\ b.timer = c.timer
      /\ b.lock = c.lock /\ b.prio = c.prio /\ b.sem = c.sem /\ b.init = c.init
      /\ \A u \in Threads : u # t => b.err[u] = c.err[u]
  BY <1>1, <1>2, PresetFacts
<1>4. Apart(c, b, t)
  BY <1>3 DEF Apart, Timed
<1>5. Own(l, b, h[t], t)
  <2>1. \A x : Loose(c, x) => Loose(b, x)
    BY <1>3 DEF Loose, Waits, Timed
  <2>2. Timed(b, t) => Timed(c, t)
    BY <1>3 DEF Timed
  <2> QED BY <1>1, <1>2, <1>3, <2>1, <2>2 DEF Own, NotSem
<1>6. Runs(b, h[b.cur])
  <2>1. Quiet(c) => Quiet(b)
    BY <1>3, QuietSame
  <2>2. Runs(c, h[c.cur])
    BY DEF System, Base
  <2> QED BY <1>3, <2>1, <2>2 DEF Runs
<1>7. NoGrant(c, h[t], t) /\ NoGrant(b, h[t], t)
  BY <1>1 DEF NoGrant, NotSem
<1>8. PICK e : e = h[t]
  OBVIOUS
<1>9. Goes(h, h, t, e) /\ Own(l, b, e, t) /\ NoGrant(b, e, t)
  BY <1>2, <1>5, <1>7, <1>8 DEF Goes
<1>10. Armed(b) /\ b.cur \in Threads /\ b.stat[Idle] \in {"ready", "running"}
  BY <1>1, <1>2, <1>3 DEF Armed
<1>11. System(l, b, h) /\ Units(b, h) = Units(c, h)
  BY <1>2, <1>3, <1>4, <1>6, <1>7, <1>9, <1>10, Alone
<1> QED BY <1>1, <1>3, <1>7, <1>11 DEF Calling

\* A call that sets the error number first.
LEMMA PresetCall ==
  ASSUME NEW l, NEW c, NEW h, System(l, c, h), Calling(c, h), NotSem(h[c.cur]), NEW r, NEW o,
         NEW n \in Int, NEW arg, NEW F, F \subseteq Rest,
         NEW b, Preset(c, b), Section(b, r, o, {}, F), r.at \in {"top", "block"},
         o # "mutex_take", r.at = "block" => c.lock = 0,
         NEW g, g = Moved(h, c.cur, After(r, o, n, arg))
  PROVE  System(l, r.k, g) /\ Units(r.k, g) = Units(c, h)
<1>1. /\ System(l, b, h) /\ Calling(b, h) /\ Units(b, h) = Units(c, h) /\ b.cur = c.cur
      /\ b.lock = c.lock /\ NoGrant(b, h[b.cur], b.cur)
  BY PresetKeeps
<1>2. PICK E : E = {}
  OBVIOUS
<1>3. Section(b, r, o, E, F) /\ Others(h, E)
  BY <1>2 DEF Others
<1>4. g = Moved(h, b.cur, After(r, o, n, arg)) /\ (r.at = "block" => b.lock = 0)
  BY <1>1
<1>5. r.at = "copy" => o \in {"mq_send", "mq_urgent", "mq_recv"}
  OBVIOUS
<1>6. System(l, r.k, g) /\ Units(r.k, g) = Units(b, h)
  BY <1>1, <1>3, <1>4, <1>5, CallKeeps
<1> QED BY <1>1, <1>6

\* After the current thread has gone on.
LEMMA AfterGoes ==
  ASSUME NEW h, DOMAIN h = Threads, NEW t \in Threads, NEW e, NEW g, g = Moved(h, t, e)
  PROVE  Goes(h, g, t, e)
BY DEF Goes, Moved

\* rt_thread_sleep.
LEMMA SleepKeeps ==
  ASSUME NEW l, NEW c, NEW h, System(l, c, h), Calling(c, h), h[c.cur].at = "top", c.lock = 0,
         NEW n \in Int, n > 0, NEW a, Preset(c, a),
         NEW d, d = rt_timer_start(rt_thread_suspend(a, c.cur), c.cur, n), NEW r, r = Block(d),
         NEW g, g = Moved(h, c.cur, After(r, "sleep", n, None))
  PROVE  System(l, r.k, g) /\ Units(r.k, g) = Units(c, h)
<1>1. PICK t, b : t = c.cur /\ b = rt_thread_suspend(a, t)
  OBVIOUS
<1>2. /\ KInv(c) /\ Armed(c) /\ t \in Threads /\ c.stat[t] = "running" /\ t # Idle /\ DOMAIN h = Threads
  BY <1>1, CallerFacts
<1>4. NotSem(h[c.cur])
  BY DEF NotSem
<1>5. /\ System(l, a, h) /\ Calling(a, h) /\ Units(a, h) = Units(c, h) /\ a.cur = t
      /\ a.lock = 0 /\ NoGrant(a, h[a.cur], a.cur)
  BY <1>1, <1>4, PresetKeeps
<1>6. KInv(a) /\ Armed(a) /\ a.stat[t] = "running"
  BY <1>5, CallerFacts
<1>7. /\ KInv(b) /\ SameBut(a, b, {"stat", "ready", "group"})
      /\ b.stat = [a.stat EXCEPT ![t] = "suspend"]
      /\ ~Waits(b, t) /\ ~Timed(b, t)
  <2>1. b = rt_thread_suspend(a, a.cur) /\ a.cur \in Threads /\ a.stat[a.cur] = "running"
    BY <1>1, <1>2, <1>5, <1>6
  <2>2. /\ KInv(b) /\ SameBut(a, b, {"stat", "ready", "group"})
        /\ b.stat = [a.stat EXCEPT ![a.cur] = "suspend"]
        /\ ~Waits(b, a.cur) /\ ~Timed(b, a.cur)
    BY <1>6, <2>1, Suspended
  <2> QED BY <1>5, <2>2
<1>8. b.stat[t] = "suspend" /\ \A u \in Threads : u # t => b.stat[u] = a.stat[u]
  BY <1>2, <1>6, <1>7 DEF KInv, Kernel, KType
<1>9. /\ b.cur = t /\ b.lock = 0 /\ b.wait = a.wait /\ b.timer = a.timer /\ b.err = a.err /\ b.sem = a.sem
      /\ b.init = a.init
  BY <1>5, <1>7 DEF SameBut, Fields
<1>10. d = rt_timer_start(b, t, n) /\ Kernel(b)
  BY <1>1, <1>7 DEF KInv
<1>11. /\ Kernel(d) /\ SameBut(b, d, {"timer"}) /\ NewTimer(b, d, t)
       /\ Armed(b) /\ n > 0 => Armed(d)
  BY <1>2, <1>8, <1>10, TimerStarted
<1>12. Armed(d)
  <2>1. Armed(b)
    BY <1>6, <1>9 DEF Armed
  <2> QED BY <1>11, <2>1
<1>13. /\ d.cur = t /\ d.lock = 0 /\ d.wait = b.wait /\ d.err = b.err /\ d.sem = b.sem /\ d.init = b.init
       /\ d.stat = b.stat
  BY <1>9, <1>11 DEF SameBut, Fields
<1>14. KInv(d)
  <2>1. CurOK(d)
    BY <1>7, <1>9, <1>13, CurSame DEF KInv
  <2> QED BY <1>11, <2>1 DEF KInv
<1>15. Apart(a, d, t)
  <2>1. \A u \in Threads : u # t => (Timed(d, u) => Timed(a, u))
    BY <1>9, <1>11 DEF NewTimer, Timed
  <2> QED BY <1>8, <1>9, <1>13, <2>1 DEF Apart
<1>16. PICK e : e = After(r, "sleep", n, None)
  OBVIOUS
<1>17. /\ DOMAIN e = {"at", "op", "to", "el", "arg", "slot"} /\ e.to \in Int /\ e.el \in Int
       /\ e.at = "block" /\ e.op = "sleep" /\ r.k = d
  BY <1>16 DEF After, Block
<1>18. Own(l, d, e, t)
  <2>1. d.stat[t] = "suspend" /\ ~Waits(d, t)
    BY <1>7, <1>8, <1>9, <1>13 DEF Waits
  <2> QED BY <1>2, <1>17, <2>1 DEF Own, Waits, Aims
<1>19. Goes(h, g, t, e)
  BY <1>1, <1>2, <1>16, AfterGoes
<1>20. /\ d.cur = a.cur /\ d.init = a.init /\ d.sem = a.sem /\ a.lock = 0 /\ Apart(a, d, a.cur)
       /\ Own(l, d, e, a.cur) /\ Goes(h, g, a.cur, e) /\ e.at \in {"block", "resched"} /\ e.op # "sem_take"
  BY <1>5, <1>9, <1>13, <1>15, <1>17, <1>18, <1>19
<1>21. System(l, d, g) /\ Units(d, g) = Units(a, h)
  <2>1. d.cur = a.cur /\ d.lock = 0 /\ d.init = a.init /\ d.sem = a.sem
    BY <1>13, <1>20
  <2>2. Apart(a, d, a.cur) /\ Own(l, d, e, a.cur) /\ Goes(h, g, a.cur, e)
    BY <1>20
  <2>3. e.at \in {"block", "resched"} /\ e.op # "sem_take" /\ a.lock = 0
    BY <1>20
  <2> QED BY <1>5, <1>12, <1>14, <2>1, <2>2, <2>3, CurLeaves
<1> QED BY <1>5, <1>17, <1>21

\* rt_thread_suspend of the caller itself.
LEMMA SuspendKeeps ==
  ASSUME NEW l, NEW c, NEW h, System(l, c, h), Calling(c, h), h[c.cur].at = "top", c.lock = 0,
         NEW r, r = Resched(rt_thread_suspend(c, c.cur), "EOK"),
         NEW g, g = Moved(h, c.cur, After(r, "suspend", 0, None))
  PROVE  System(l, r.k, g) /\ Units(r.k, g) = Units(c, h)
<1>1. PICK t, d : t = c.cur /\ d = rt_thread_suspend(c, t)
  OBVIOUS
<1>2. /\ KInv(c) /\ Armed(c) /\ t \in Threads /\ c.stat[t] = "running" /\ t # Idle /\ DOMAIN h = Threads
  BY <1>1, CallerFacts
<1>3. /\ KInv(d) /\ SameBut(c, d, {"stat", "ready", "group"})
      /\ d.stat = [c.stat EXCEPT ![t] = "suspend"]
      /\ ~Waits(d, t) /\ ~Timed(d, t)
  BY <1>1, <1>2, Suspended
<1>4. d.stat[t] = "suspend" /\ \A u \in Threads : u # t => d.stat[u] = c.stat[u]
  BY <1>2, <1>3 DEF KInv, Kernel, KType
<1>5. /\ d.cur = c.cur /\ d.lock = 0 /\ d.wait = c.wait /\ d.timer = c.timer /\ d.err = c.err /\ d.sem = c.sem
      /\ d.init = c.init
  BY <1>3 DEF SameBut, Fields
<1>6. Apart(c, d, c.cur) /\ Armed(d)
  BY <1>1, <1>2, <1>4, <1>5 DEF Apart, Timed, Armed
<1>7. PICK e : e = After(r, "suspend", 0, None)
  OBVIOUS
<1>8. /\ DOMAIN e = {"at", "op", "to", "el", "arg", "slot"} /\ e.to \in Int /\ e.el \in Int
      /\ e.at = "resched" /\ e.op = "suspend" /\ r.k = d
  BY <1>1, <1>7 DEF After, Resched
<1>9. Own(l, d, e, c.cur)
  BY <1>1, <1>2, <1>3, <1>4, <1>8 DEF Own, Waits, Aims
<1>10. Goes(h, g, c.cur, e)
  BY <1>1, <1>2, <1>7, AfterGoes
<1>11. NoGrant(c, h[c.cur], c.cur) /\ e.at \in {"block", "resched"} /\ e.op # "sem_take"
  BY <1>8 DEF NoGrant
<1>12. System(l, d, g) /\ Units(d, g) = Units(c, h)
  BY <1>3, <1>5, <1>6, <1>9, <1>10, <1>11, CurLeaves
<1> QED BY <1>8, <1>12

\* _thread_exit.
LEMMA ExitKeeps ==
  ASSUME NEW l, NEW c, NEW h, System(l, c, h), Calling(c, h), h[c.cur].at = "top", c.lock = 0,
         NEW r, r = Resched(_thread_exit(c, c.cur), "EOK"),
         NEW g, g = Moved(h, c.cur, After(r, "exit", 0, None))
  PROVE  System(l, r.k, g) /\ Units(r.k, g) = Units(c, h)
<1>1. PICK t, d : t = c.cur /\ d = _thread_exit(c, t)
  OBVIOUS
<1>2. /\ KInv(c) /\ Armed(c) /\ t \in Threads /\ c.stat[t] = "running" /\ t # Idle /\ DOMAIN h = Threads
  BY <1>1, CallerFacts
<1>3. /\ KInv(d) /\ SameBut(c, d, {"ready", "group", "timer", "stat", "yld", "wait"})
      /\ d.stat = [c.stat EXCEPT ![t] = "close"] /\ WaitMore(c, d, t, "defunct") /\ SubTimers(c, d)
  BY <1>1, <1>2, Exited
<1>4. d.stat[t] = "close" /\ \A u \in Threads : u # t => d.stat[u] = c.stat[u]
  BY <1>2, <1>3 DEF KInv, Kernel, KType
<1>5. d.cur = c.cur /\ d.lock = 0 /\ d.err = c.err /\ d.sem = c.sem /\ d.init = c.init
  BY <1>3 DEF SameBut, Fields
<1>6. Apart(c, d, c.cur) /\ Armed(d)
  <2>1. Armed(d) /\ \A u : Timed(d, u) => Timed(c, u)
    BY <1>2, <1>3, SubArmed, SubTimed
  <2> QED BY <1>1, <1>3, <1>4, <1>5, <2>1 DEF Apart, WaitMore
<1>7. PICK e : e = After(r, "exit", 0, None)
  OBVIOUS
<1>8. /\ DOMAIN e = {"at", "op", "to", "el", "arg", "slot"} /\ e.to \in Int /\ e.el \in Int
      /\ e.at = "resched" /\ e.op = "exit" /\ r.k = d
  BY <1>1, <1>7 DEF After, Resched
<1>9. Own(l, d, e, c.cur)
  <2>1. \A w \in Lists \ {"defunct"} : ~InList(t, d.wait[w])
    BY <1>2, <1>3, <1>4 DEF KInv, Kernel, WaitOK
  <2>2. ~Timed(d, t)
    BY <1>2, <1>3, <1>4 DEF KInv, Kernel, TimerOK
  <2> QED BY <1>1, <1>2, <1>4, <1>8, <2>1, <2>2 DEF Own, Aims
<1>10. Goes(h, g, c.cur, e)
  BY <1>1, <1>2, <1>7, AfterGoes
<1>11. NoGrant(c, h[c.cur], c.cur) /\ e.at \in {"block", "resched"} /\ e.op # "sem_take"
  BY <1>8 DEF NoGrant
<1>12. System(l, d, g) /\ Units(d, g) = Units(c, h)
  BY <1>3, <1>5, <1>6, <1>9, <1>10, <1>11, CurLeaves
<1> QED BY <1>8, <1>12

\* The time slice and the YIELD flags alone.
LEMMA SliceWakes ==
  ASSUME NEW c, KInv(c), NEW d, SameBut(c, d, {"slice", "yld"}), d.slice \in [Threads -> 1 .. Slice],
         d.yld \subseteq Threads
  PROVE  Wakes(c, d, {}, {}) /\ d.stat = c.stat /\ d.cur = c.cur /\ d.lock = c.lock /\ d.sem = c.sem
<1>1. DOMAIN c = Fields /\ KType(c)
  BY DEF KInv, Kernel, KType
<1>2. d.err = c.err /\ d.lock = c.lock /\ d.sem = c.sem
  BY DEF SameBut, Fields
<1>3. SameBut(c, d, {"err", "evset", "evinfo", "ev", "slice", "yld", "lock", "sem", "mb", "mq", "mp"})
  BY DEF SameBut
<1>4. d.err \in [Threads -> Errors] /\ d.lock \in Nat
  BY <1>1, <1>2 DEF KType
<1>5. KInv(d) /\ d.stat = c.stat /\ d.wait = c.wait /\ d.timer = c.timer /\ d.cur = c.cur
  BY <1>3, <1>4, Prepared
<1>6. \A u \in Threads : Wake(c, d, {}, u)
  BY <1>2, <1>5 DEF Wake, Loose
<1>7. SubTimers(c, d) /\ SameBut(c, d, WakeFields \cup {})
  BY <1>5 DEF SubTimers, SameBut, WakeFields
<1>8. Wakes(c, d, {}, {})
  BY <1>5, <1>6, <1>7 DEF Wakes
<1> QED BY <1>2, <1>5, <1>8

\* Thread t has used up its time slice or yields.
Yielding(c, t) == [c EXCEPT !.slice[t] = Slice, !.yld = @ \cup {t}]

\* The slice starts again and the thread carries the flag.
LEMMA Yielded ==
  ASSUME NEW c, KInv(c), NEW t \in Threads, NEW d, d = Yielding(c, t)
  PROVE  Wakes(c, d, {}, {}) /\ d.stat = c.stat /\ d.cur = c.cur /\ d.lock = c.lock /\ d.sem = c.sem
<1>1. DOMAIN c = Fields /\ KType(c)
  BY DEF KInv, Kernel, KType
<1>2. SameBut(c, d, {"slice", "yld"}) /\ d.slice = [c.slice EXCEPT ![t] = Slice] /\ d.yld = c.yld \cup {t}
  BY <1>1 DEF SameBut, Fields, Yielding
<1>3. d.slice \in [Threads -> 1 .. Slice] /\ d.yld \subseteq Threads
  BY <1>1, <1>2, SchedAssumption DEF KType
<1> QED BY <1>2, <1>3, SliceWakes

\* rt_thread_yield.
LEMMA YieldSection ==
  ASSUME NEW c, KInv(c), c.cur \in Threads, NEW r, r = Resched(Yielding(c, c.cur), "EOK"), NEW o
  PROVE  Section(c, r, o, {}, {}) /\ r.at = "resched"
<1>1. PICK d, t : d = Yielding(c, t) /\ t = c.cur
  OBVIOUS
<1>2. Wakes(c, d, {}, {}) /\ d.cur = c.cur
  BY <1>1, Yielded
<1>3. r.at = "resched" /\ r.k = d
  BY <1>1 DEF Resched
<1> QED BY <1>2, <1>3 DEF Section

\* rt_thread_resume before its sections, with interrupts enabled.
LEMMA AimKeeps ==
  ASSUME NEW l, NEW c, NEW h, System(l, c, h), Calling(c, h), h[c.cur].at \in {"top", "check"},
         NEW u \in Threads, l.any \/ Loose(c, u), l.ops[c.cur] \cap Starts # {},
         NEW a \in {"check", "unlink"}, NEW r, r = Between(c, a), NEW o \in Starts,
         NEW g, g = Moved(h, c.cur, After(r, o, 0, u))
  PROVE  System(l, r.k, g) /\ Units(r.k, g) = Units(c, h)
<1>1. PICK t, e : t = c.cur /\ e = After(r, o, 0, u)
  OBVIOUS
<1>2. /\ Base(l, c, h) /\ KInv(c) /\ Armed(c) /\ t \in Threads /\ c.stat[t] = "running" /\ t # Idle
      /\ DOMAIN h = Threads /\ (c.lock = 0 => Quiet(c)) /\ NotTarget(l, h, t)
      /\ c.stat[Idle] \in {"ready", "running"}
  BY <1>1, CallerFacts
<1>3. /\ DOMAIN e = {"at", "op", "to", "el", "arg", "slot"} /\ e.to \in Int /\ e.el \in Int
      /\ e.at = a /\ e.op = o /\ e.arg = u /\ r.k = c
  BY <1>1 DEF After, Between
<1>4. Goes(h, g, t, e)
  BY <1>1, <1>2, AfterGoes
<1>5. e.op \notin {"mutex_take", "sem_take"}
  BY <1>3 DEF Starts
<1>6. Own(l, c, e, t)
  <2>1. (\A w \in Lists \ {"defunct"} : ~InList(t, c.wait[w])) /\ ~Timed(c, t)
    BY <1>2 DEF KInv, Kernel, WaitOK, TimerOK
  <2> QED BY <1>1, <1>2, <1>3, <1>5, <2>1 DEF Own, Aims
<1>7. Runs(c, g[c.cur])
  <2>1. g[c.cur] = e
    BY <1>1, <1>4 DEF Goes
  <2> QED BY <1>1, <1>2, <1>3, <2>1 DEF Runs
<1>8. Apart(c, c, t) /\ NoGrant(c, h[t], t) /\ NoGrant(c, e, t) /\ c.cur \in Threads
  BY <1>1, <1>2, <1>5 DEF Apart, NoGrant
<1> QED BY <1>2, <1>3, <1>4, <1>6, <1>7, <1>8, Alone

\* rt_list_remove and rt_timer_stop, the first section of rt_thread_resume.
LEMMA UnlinkWakes ==
  ASSUME NEW c, KInv(c), NEW u \in Threads, c.stat[u] = "suspend", NEW r, r = detach(c, u)
  PROVE  /\ Wakes(c, r.k, {}, {}) /\ r.k.stat = c.stat /\ r.k.cur = c.cur /\ r.k.lock = c.lock
         /\ r.k.sem = c.sem /\ r.k.prio = c.prio /\ Loose(r.k, u) /\ r.at = "insert"
<1>1. PICK b, d : b = rt_list_remove(c, u) /\ d = rt_timer_stop(b, u)
  OBVIOUS
<1>2. r.k = d /\ r.at = "insert"
  BY <1>1 DEF detach, Between
<1>3. Kernel(b) /\ SameBut(c, b, {"wait"}) /\ ~Waits(b, u) /\ WaitLess(c, b, u)
  BY <1>1, Unlinked DEF KInv
<1>4. Kernel(d) /\ SameBut(b, d, {"timer"}) /\ ~Timed(d, u) /\ SubTimers(b, d)
  BY <1>1, <1>3, TimerStopped
<1>5. /\ b.stat = c.stat /\ b.cur = c.cur /\ b.err = c.err /\ b.timer = c.timer /\ b.lock = c.lock
      /\ b.sem = c.sem /\ b.prio = c.prio
  BY <1>3 DEF SameBut, Fields
<1>6. /\ d.stat = b.stat /\ d.cur = b.cur /\ d.err = b.err /\ d.wait = b.wait /\ d.lock = b.lock
      /\ d.sem = b.sem /\ d.prio = b.prio
  BY <1>4 DEF SameBut, Fields
<1>7. KInv(d)
  <2>1. CurOK(d)
    BY <1>5, <1>6, CurSame DEF KInv
  <2> QED BY <1>4, <2>1 DEF KInv
<1>8. SubTimers(c, d)
  BY <1>4, <1>5 DEF SubTimers
<1>9. SameBut(c, d, WakeFields \cup {})
  BY <1>3, <1>4 DEF SameBut, WakeFields
<1>10. \A x \in Threads : Wake(c, d, {}, x)
  BY <1>3, <1>5, <1>6 DEF Wake, Loose, WaitLess
<1>11. Wakes(c, d, {}, {})
  BY <1>7, <1>8, <1>9, <1>10 DEF Wakes
<1>12. Loose(d, u)
  BY <1>3, <1>4, <1>5, <1>6 DEF Loose, Waits
<1> QED BY <1>2, <1>5, <1>6, <1>11, <1>12

\* The caller has unlinked thread u and is about to put it into its list.
LEMMA UnlinkKeeps ==
  ASSUME NEW l, NEW c, NEW h, System(l, c, h), Calling(c, h), h[c.cur].at = "unlink",
         NEW u \in Threads, c.stat[u] = "suspend", l.ops[c.cur] \cap Starts # {},
         NEW r, r = detach(c, u), NEW o, o \notin {"mutex_take", "sem_take"},
         NEW g, g = Moved(h, c.cur, After(r, o, 0, u))
  PROVE  System(l, r.k, g) /\ Units(r.k, g) = Units(c, h)
<1>1. PICK t, d, e : t = c.cur /\ d = r.k /\ e = After(r, o, 0, u)
  OBVIOUS
<1>2. /\ Base(l, c, h) /\ KInv(c) /\ Armed(c) /\ t \in Threads /\ c.stat[t] = "running" /\ t # Idle
      /\ DOMAIN h = Threads /\ c.sem \in Nat /\ (c.lock = 0 => Quiet(c))
  BY <1>1, CallerFacts
<1>3. /\ Wakes(c, d, {}, {}) /\ d.stat = c.stat /\ d.cur = t /\ d.lock = c.lock
      /\ d.sem = c.sem /\ d.prio = c.prio /\ Loose(d, u) /\ r.at = "insert"
  BY <1>1, <1>2, UnlinkWakes
<1>4. /\ DOMAIN e = {"at", "op", "to", "el", "arg", "slot"} /\ e.to \in Int /\ e.el \in Int
      /\ e.at = "insert" /\ e.op = o /\ e.arg = u
  BY <1>1, <1>3 DEF After
<1>5. Goes(h, g, t, e)
  BY <1>1, <1>2, AfterGoes
<1>6. Own(l, d, e, t)
  <2>1. (\A w \in Lists \ {"defunct"} : ~InList(t, d.wait[w])) /\ ~Timed(d, t)
    BY <1>2, <1>3 DEF Wakes, KInv, Kernel, WaitOK, TimerOK
  <2> QED BY <1>1, <1>2, <1>3, <1>4, <2>1 DEF Own, Aims
<1>7. Runs(d, g[d.cur])
  <2>1. g[d.cur] = e
    BY <1>3, <1>5 DEF Goes
  <2>2. Quiet(c) => Quiet(d)
    BY <1>1, <1>3, QuietSame
  <2> QED BY <1>2, <1>3, <1>4, <2>1, <2>2 DEF Runs
<1>8. PICK E : E = {}
  OBVIOUS
<1>9. Wakes(c, d, E, E) /\ E \subseteq Objects /\ d.cur \in Threads /\ d.sem \in Nat /\ Others(h, E)
  BY <1>2, <1>3, <1>8 DEF Others
<1>10. Base(l, d, g)
  BY <1>2, <1>5, <1>6, <1>7, <1>9, BaseMoves
<1>11. Armed(d)
  BY <1>2, <1>9, SubArmed DEF Wakes
<1>12. \A x \in Threads : x \in Grants(d, h) <=> x \in Grants(c, h)
  BY <1>2, <1>9, WakesGrants
<1>13. \A x \in Threads : x \in Grants(d, g) <=> x \in Grants(c, h)
  <2> SUFFICES ASSUME NEW x \in Threads PROVE x \in Grants(d, g) <=> x \in Grants(c, h)
    OBVIOUS
  <2>1. CASE x = t
    BY <1>1, <1>4, <1>5, <2>1 DEF Grants, Goes
  <2>2. CASE x # t
    BY <1>5, <1>12, <2>2 DEF Grants, Goes
  <2> QED BY <2>1, <2>2
<1>14. SameGrants(c, h, d, g)
  BY <1>13, SameThreads
<1> QED BY <1>1, <1>3, <1>10, <1>11, <1>14 DEF System, Units, SameGrants

\* rt_thread_startup: the thread is made SUSPEND first.
Suspending(c, u) == [c EXCEPT !.stat[u] = "suspend"]

\* The thread that is started is as it was but for its state.
LEMMA MadeSuspended ==
  ASSUME NEW l, NEW c, NEW h, System(l, c, h), Calling(c, h), h[c.cur].at = "top",
         NEW u \in Threads, c.stat[u] = "init", NEW d, d = Suspending(c, u)
  PROVE  /\ System(l, d, h) /\ Calling(d, h) /\ Units(d, h) = Units(c, h) /\ d.cur = c.cur
         /\ Loose(d, u)
<1>1. /\ Base(l, c, h) /\ KInv(c) /\ Armed(c) /\ c.cur \in Threads /\ c.stat[c.cur] = "running"
      /\ c.stat[Idle] \in {"ready", "running"} /\ DOMAIN h = Threads
  BY CallerFacts
<1>2. Kernel(c) /\ CurOK(c) /\ ~Waits(c, u) /\ ~Timed(c, u)
  BY <1>1 DEF KInv, Kernel, WaitOK, Waits, TimerOK
<1>3. Kernel(d) /\ SameBut(c, d, {"stat"}) /\ d.stat = [c.stat EXCEPT ![u] = "suspend"]
  <2>1. PICK x : x = "suspend"
    OBVIOUS
  <2>2. d = [c EXCEPT !.stat[u] = x]
    BY <2>1 DEF Suspending
  <2>3. Stated(c, d, u, x) /\ x \in {"running", "suspend", "init"} /\ c.stat[u] \notin {"ready", "close"}
    BY <1>2, <2>1, <2>2, StatSet
  <2>4. Kernel(d)
    BY <1>2, <2>3, Restated
  <2> QED BY <2>1, <2>3, <2>4 DEF Stated
<1>4. /\ d.cur = c.cur /\ d.lock = c.lock /\ d.wait = c.wait /\ d.timer = c.timer /\ d.err = c.err
      /\ d.sem = c.sem /\ d.init = c.init /\ d.prio = c.prio
  BY <1>3 DEF SameBut, Fields
<1>5. d.stat[u] = "suspend" /\ \A x \in Threads : x # u => d.stat[x] = c.stat[x]
  BY <1>2, <1>3 DEF Kernel, KType
<1>6. KInv(d)
  BY <1>2, <1>3, <1>4, <1>5 DEF KInv, CurOK
<1>7. NotTarget(l, h, u)
  BY <1>1, Untargeted
<1>8. Apart(c, d, u) /\ Armed(d)
  BY <1>1, <1>4, <1>5 DEF Apart, Armed, Timed
<1>9. PICK e : e = h[u]
  OBVIOUS
<1>10. Own(l, c, e, u) /\ e.at = "top"
  BY <1>1, <1>9 DEF Base, Own
<1>11. Own(l, d, e, u)
  BY <1>1, <1>2, <1>4, <1>5, <1>10 DEF Own, Waits, Timed, Aims
<1>12. Goes(h, h, u, e) /\ NoGrant(c, h[u], u) /\ NoGrant(d, e, u)
  BY <1>1, <1>9, <1>10 DEF Goes, NoGrant
<1>13. Runs(d, h[d.cur])
  <2>1. Runs(c, h[c.cur]) /\ c.cur # u
    BY <1>1 DEF Base
  <2>2. Quiet(c) => Quiet(d)
    BY <1>4, <1>5, <2>1 DEF Quiet
  <2> QED BY <1>1, <1>4, <1>5, <2>1, <2>2 DEF Runs
<1>14. d.cur \in Threads /\ d.stat[Idle] \in {"ready", "running"}
  BY <1>1, <1>4, <1>5, SchedAssumption
<1>15. System(l, d, h) /\ Units(d, h) = Units(c, h)
  BY <1>4, <1>6, <1>7, <1>8, <1>11, <1>12, <1>13, <1>14, Alone
<1> QED BY <1>2, <1>4, <1>5, <1>15 DEF Calling, Loose, Waits, Timed

\* rt_schedule_insert_thread, the second section of rt_thread_resume: the
\* thread that is put into its list is nobody else's target.
LEMMA InsertKeeps ==
  ASSUME NEW l, IpcLoad(l), NEW c, NEW h, System(l, c, h), Calling(c, h), h[c.cur].at = "insert",
         NEW r, r = Resched(rt_schedule_insert_thread(c, h[c.cur].arg), "EOK"),
         NEW g, g = Moved(h, c.cur, After(r, h[c.cur].op, 0, None))
  PROVE  System(l, r.k, g) /\ Units(r.k, g) = Units(c, h)
<1>1. PICK t, u, d, e : /\ t = c.cur /\ u = h[t].arg /\ d = rt_schedule_insert_thread(c, u)
                        /\ e = After(r, h[t].op, 0, None)
  OBVIOUS
<1>2. /\ Base(l, c, h) /\ KInv(c) /\ Armed(c) /\ t \in Threads /\ c.stat[t] = "running" /\ t # Idle
      /\ DOMAIN h = Threads /\ NotTarget(l, h, t) /\ c.stat[Idle] \in {"ready", "running"}
      /\ Own(l, c, h[t], t)
  BY <1>1, CallerFacts
<1>3. Loose(c, u) /\ l.ops[t] \cap Starts # {} /\ h[t].op # "mutex_take"
  BY <1>1, <1>2 DEF Own, Aims
<1>4. r.k = d /\ r.at = "resched"
  BY <1>1 DEF Resched
<1>5. /\ DOMAIN e = {"at", "op", "to", "el", "arg", "slot"} /\ e.to \in Int /\ e.el \in Int
      /\ e.at = "resched" /\ e.op = h[t].op
  BY <1>1, <1>4 DEF After
<1>6. Goes(h, g, t, e)
  BY <1>1, <1>2, AfterGoes
<1>7. System(l, c, g) /\ Units(c, g) = Units(c, h)
  <2>1. Own(l, c, e, t)
    BY <1>2, <1>3, <1>5, OwnRuns
  <2>2. Apart(c, c, t) /\ NoGrant(c, h[t], t) /\ NoGrant(c, e, t)
    BY <1>1, <1>5 DEF Apart, NoGrant
  <2>3. g[c.cur] = e
    BY <1>1, <1>6 DEF Goes
  <2>4. Runs(c, g[c.cur])
    BY <1>1, <1>2, <1>5, <2>3 DEF Runs
  <2> QED BY <1>1, <1>2, <1>6, <2>1, <2>2, <2>4, Alone
<1>8. u \in Threads /\ c.stat[u] = "suspend" /\ ~Waits(c, u) /\ ~Timed(c, u) /\ u # t
  BY <1>2, <1>3 DEF Loose
<1>9. KInv(d) /\ SameBut(c, d, {"stat", "ready", "group"}) /\ Awake(c, d, u)
  BY <1>1, <1>2, <1>8, Enlisted, SMTT(30)
<1>10. d.stat[u] = "ready" /\ \A x \in Threads : x # u => d.stat[x] = c.stat[x]
  BY <1>1, <1>2, <1>8, <1>9 DEF Awake, KInv, Kernel, KType
<1>11. /\ d.cur = t /\ d.lock = c.lock /\ d.wait = c.wait /\ d.timer = c.timer /\ d.err = c.err
       /\ d.sem = c.sem /\ d.init = c.init
  BY <1>1, <1>9 DEF SameBut, Fields
<1>12. Base(l, c, g)
  BY <1>7 DEF System
<1>13. ASSUME NEW x \in Threads PROVE ~Aims(l, g[x]) /\ g[x].at \notin {"check", "unlink", "insert"}
  <2>1. CASE x = t
    BY <1>5, <1>6, <2>1 DEF Goes, Aims
  <2>2. CASE x # t
    <3>1. Own(l, c, g[x], x)
      BY <1>12, SMTT(30) DEF Base
    <3>2. g[x].at \in {"check", "unlink", "insert"} => l.ops[x] \cap Starts # {}
      BY <3>1 DEF Own
    <3> QED BY <1>2, <1>3, <2>2, <3>2 DEF IpcLoad, Aims
  <2> QED BY <2>1, <2>2
<1>14. NotTarget(l, g, u)
  BY <1>13 DEF NotTarget
<1>15. PICK f : f = g[u]
  BY SMTT(30)
<1>16. Own(l, c, f, u) /\ ~Aims(l, f) /\ f.at \notin {"check", "unlink", "insert"} /\ DOMAIN g = Threads
  BY <1>8, <1>12, <1>13, <1>15 DEF Base
<1>17. Own(l, d, f, u)
  <2>1. Timed(d, u) => Timed(c, u)
    BY <1>11, SMTT(30) DEF Timed
  <2> QED BY <1>10, <1>11, <1>16, <2>1, SMTT(30) DEF Own
<1>18. NoGrant(c, g[u], u) /\ NoGrant(d, f, u)
  BY <1>8, <1>11, <1>15, <1>16 DEF Own, NoGrant
<1>19. Goes(g, g, u, f) /\ Apart(c, d, u) /\ Armed(d)
  BY <1>2, <1>10, <1>11, <1>15, <1>16 DEF Goes, Apart, Timed, Armed
<1>20. Runs(d, g[d.cur])
  <2>1. g[d.cur] = e /\ d.stat[d.cur] = "running"
    BY <1>2, <1>6, <1>8, <1>10, <1>11 DEF Goes
  <2> QED BY <1>5, <2>1 DEF Runs
<1>21. d.cur \in Threads /\ d.stat[Idle] \in {"ready", "running"}
  BY <1>2, <1>10, <1>11, SchedAssumption
<1>22. System(l, d, g) /\ Units(d, g) = Units(c, g)
  BY <1>7, <1>8, <1>9, <1>11, <1>14, <1>17, <1>18, <1>19, <1>20, <1>21, Alone
<1> QED BY <1>4, <1>7, <1>22

\* rt_enter_critical and rt_exit_critical: after the last one rt_schedule is
\* called.
LEMMA LockKeeps ==
  ASSUME NEW l, NEW c, NEW h, System(l, c, h), Calling(c, h), h[c.cur].at = "top",
         NEW n \in Nat, NEW d, SameBut(c, d, {"lock"}), d.lock = n,
         NEW r, r.k = d, r.at = IF n = 0 THEN "resched" ELSE "top", NEW o, o # "mutex_take",
         NEW g, g = Moved(h, c.cur, After(r, o, 0, None))
  PROVE  System(l, r.k, g) /\ Units(r.k, g) = Units(c, h)
<1>1. PICK t, e : t = c.cur /\ e = After(r, o, 0, None)
  OBVIOUS
<1>2. /\ Base(l, c, h) /\ KInv(c) /\ Armed(c) /\ t \in Threads /\ c.stat[t] = "running" /\ t # Idle
      /\ DOMAIN h = Threads /\ NotTarget(l, h, t) /\ c.stat[Idle] \in {"ready", "running"}
  BY <1>1, CallerFacts
<1>3. KType(c) /\ DOMAIN c = Fields
  BY <1>2 DEF KInv, Kernel, KType
<1>5. SameBut(c, d, {"err", "evset", "evinfo", "ev", "slice", "yld", "lock", "sem", "mb", "mq", "mp"})
  BY DEF SameBut
<1>6. d.err = c.err /\ d.slice = c.slice /\ d.yld = c.yld /\ d.sem = c.sem /\ d.init = c.init
  BY DEF SameBut, Fields
<1>7. /\ d.err \in [Threads -> Errors] /\ d.slice \in [Threads -> 1 .. Slice] /\ d.yld \subseteq Threads
      /\ d.lock \in Nat
  BY <1>3, <1>6 DEF KType
<1>8. KInv(d) /\ d.stat = c.stat /\ d.wait = c.wait /\ d.timer = c.timer /\ d.cur = t
  BY <1>1, <1>2, <1>5, <1>7, Prepared
<1>9. /\ DOMAIN e = {"at", "op", "to", "el", "arg", "slot"} /\ e.to \in Int /\ e.el \in Int
      /\ e.at = r.at /\ e.op # "mutex_take"
  <2>1. 0 \in Int
    OBVIOUS
  <2> QED BY <1>1, <2>1, AfterFacts
<1>10. Goes(h, g, t, e)
  BY <1>1, <1>2, AfterGoes
<1>11. e.at \in {"top", "resched"}
  BY <1>9
<1>12. Own(l, d, e, t)
  <2>1. d.stat[t] = "running"
    BY <1>2, <1>8
  <2> QED BY <1>2, <1>8, <1>9, <1>11, <2>1, OwnRuns
<1>13. Apart(c, d, t) /\ Armed(d)
  BY <1>2, <1>6, <1>8 DEF Apart, Armed, Timed
<1>14. NoGrant(c, h[t], t) /\ NoGrant(d, e, t)
  BY <1>1, <1>11 DEF NoGrant
<1>15. Runs(d, g[d.cur])
  <2>1. g[d.cur] = e /\ d.stat[d.cur] = "running"
    BY <1>2, <1>8, <1>10 DEF Goes
  <2> QED BY <1>9, <1>11, <2>1 DEF Runs
<1>16. d.cur \in Threads /\ d.stat[Idle] \in {"ready", "running"}
  BY <1>2, <1>8
<1>17. System(l, d, g) /\ Units(d, g) = Units(c, h)
  BY <1>2, <1>6, <1>8, <1>10, <1>12, <1>13, <1>14, <1>15, <1>16, Alone
<1> QED BY <1>17

\* What the idle thread makes of a defunct thread.
Reaping(c, t) ==
  [rt_list_remove(c, t) EXCEPT !.stat[t] = "init", !.yld = @ \ {t}, !.prio[t] = c.init[t],
                               !.slice[t] = Slice, !.err[t] = "EOK", !.pend[t] = None, !.taken[t] = {}]

\* A defunct thread leaves its list and can be created again.
LEMMA Reaped ==
  ASSUME NEW c, KInv(c), c.init \in [Threads -> Prios], NEW t \in Threads, c.stat[t] = "close",
         NEW d, d = Reaping(c, t)
  PROVE  /\ KInv(d) /\ SameBut(c, d, {"ready", "wait", "stat", "yld", "prio", "slice", "err", "pend", "taken"})
         /\ d.stat = [c.stat EXCEPT ![t] = "init"] /\ WaitLess(c, d, t)
         /\ \A u \in Threads : u # t => d.err[u] = c.err[u] /\ d.prio[u] = c.prio[u]
<1>1. PICK b : b = rt_list_remove(c, t)
  OBVIOUS
<1>2. KType(c) /\ ReadyOK(c) /\ WaitOK(c) /\ TimerOK(c) /\ CurOK(c) /\ DOMAIN c = Fields
  BY DEF KInv, Kernel, KType
<1>3. SameBut(c, b, {"ready", "wait"}) /\ b.ready = Unlinks(c.ready, Prios, t) /\ b.wait = Unlinks(c.wait, Lists, t)
  BY <1>1, <1>2, UnlinkFields
<1>4. b.ready = c.ready
  <2>1. \A p \in Prios : IsList(Threads, c.ready[p]) /\ ~InList(t, c.ready[p])
    BY <1>2 DEF ReadyOK
  <2>2. c.ready \in [Prios -> Seq(Threads)]
    BY <1>2 DEF KType
  <2> QED BY <1>3, <2>1, <2>2, NotThere
<1>5. /\ b.stat = c.stat /\ b.prio = c.prio /\ b.slice = c.slice /\ b.err = c.err /\ b.cur = c.cur
      /\ b.group = c.group /\ b.timer = c.timer /\ b.yld = c.yld /\ b.lock = c.lock /\ b.fault = c.fault
      /\ DOMAIN b = Fields
  BY <1>3 DEF SameBut, Fields
<1>6. d = [b EXCEPT !.stat[t] = "init", !.yld = @ \ {t}, !.prio[t] = c.init[t],
                    !.slice[t] = Slice, !.err[t] = "EOK", !.pend[t] = None, !.taken[t] = {}]
  BY <1>1 DEF Reaping
<1>7. /\ SameBut(b, d, {"stat", "yld", "prio", "slice", "err", "pend", "taken"}) /\ d.yld = b.yld \ {t}
      /\ d.stat = [b.stat EXCEPT ![t] = "init"] /\ d.prio = [b.prio EXCEPT ![t] = c.init[t]]
      /\ d.slice = [b.slice EXCEPT ![t] = Slice] /\ d.err = [b.err EXCEPT ![t] = "EOK"]
  BY <1>5, <1>6, ZenonT(30) DEF SameBut, Fields
<1>8. /\ d.cur = c.cur /\ d.group = c.group /\ d.timer = c.timer /\ d.yld = c.yld \ {t}
      /\ d.lock = c.lock /\ d.fault = c.fault /\ d.ready = c.ready /\ d.wait = b.wait /\ DOMAIN d = Fields
  BY <1>4, <1>5, <1>7 DEF SameBut, Fields
<1>9. /\ c.stat \in [Threads -> Stats] /\ c.prio \in [Threads -> Prios] /\ c.err \in [Threads -> Errors]
      /\ c.slice \in [Threads -> 1 .. Slice] /\ c.wait \in [Lists -> Seq(Threads)]
  BY <1>2 DEF KType
<1>10. /\ d.stat = [c.stat EXCEPT ![t] = "init"]
       /\ \A u \in Threads : d.stat[u] = IF u = t THEN "init" ELSE c.stat[u]
       /\ \A u \in Threads : u # t => d.err[u] = c.err[u] /\ d.prio[u] = c.prio[u]
  BY <1>5, <1>7, <1>9
<1>11. /\ d.stat \in [Threads -> Stats] /\ d.prio \in [Threads -> Prios] /\ d.err \in [Threads -> Errors]
       /\ d.slice \in [Threads -> 1 .. Slice]
  <2>1. "init" \in Stats /\ "EOK" \in Errors /\ Slice \in 1 .. Slice /\ c.init[t] \in Prios
    BY SchedAssumption DEF Stats, Errors
  <2> QED BY <1>5, <1>7, <1>9, <2>1
<1>12. ASSUME NEW w \in Lists
       PROVE  /\ IsList(Threads, d.wait[w])
              /\ \A u : InList(u, d.wait[w]) <=> InList(u, c.wait[w]) /\ u # t
  <2>1. d.wait[w] = RemoveFirst(c.wait[w], t)
    BY <1>3, <1>8 DEF Unlinks
  <2>2. IsList(Threads, c.wait[w])
    BY <1>2 DEF WaitOK
  <2> QED BY <2>1, <2>2, RemoveFacts
<1>13. WaitLess(c, d, t)
  BY <1>12 DEF WaitLess
<1>14. d.wait \in [Lists -> Seq(Threads)]
  <2>1. d.wait = [w \in Lists |-> RemoveFirst(c.wait[w], t)]
    BY <1>3, <1>8 DEF Unlinks
  <2>2. \A w \in Lists : d.wait[w] \in Seq(Threads)
    BY <1>12 DEF IsList
  <2> QED BY <2>1, <2>2
<1>15. KType(d)
  BY <1>2, <1>8, <1>11, <1>14 DEF KType
<1>16. ReadyOK(d)
  <2>1. \A p \in Prios : ~InList(t, c.ready[p])
    BY <1>2 DEF ReadyOK
  <2> QED BY <1>2, <1>8, <1>10, <2>1 DEF ReadyOK
<1>17. WaitOK(d)
  <2>1. "defunct" \in Lists
    BY DEF Lists, WaitLists
  <2>2. \A u \in Threads : d.stat[u] = "close" => InList(u, d.wait["defunct"])
    BY <1>2, <1>10, <1>12, <2>1 DEF WaitOK
  <2>3. \A w \in Lists, u \in Threads :
          InList(u, d.wait[w]) => d.stat[u] = IF w = "defunct" THEN "close" ELSE "suspend"
    <3> SUFFICES ASSUME NEW w \in Lists, NEW u \in Threads, InList(u, d.wait[w])
                 PROVE  d.stat[u] = IF w = "defunct" THEN "close" ELSE "suspend"
      OBVIOUS
    <3>1. InList(u, c.wait[w]) /\ u # t
      BY <1>12
    <3>2. d.stat[u] = c.stat[u]
      BY <1>10, <3>1
    <3> QED BY <1>2, <3>1, <3>2 DEF WaitOK
  <2>4. \A w, v \in Lists, u \in Threads : InList(u, d.wait[w]) /\ InList(u, d.wait[v]) => w = v
    BY <1>2, <1>12 DEF WaitOK
  <2> QED BY <1>12, <2>2, <2>3, <2>4 DEF WaitOK
<1>18. TimerOK(d) /\ CurOK(d)
  BY <1>2, <1>8, <1>10 DEF TimerOK, Timed, CurOK
<1>19. SameBut(c, d, {"ready", "wait", "stat", "yld", "prio", "slice", "err", "pend", "taken"})
  BY <1>3, <1>7, SMTT(30) DEF SameBut
<1> QED BY <1>10, <1>13, <1>15, <1>16, <1>17, <1>18, <1>19 DEF KInv, Kernel

\* The idle thread frees a defunct thread.
LEMMA ReapKeeps ==
  ASSUME NEW l, NEW c, NEW h, System(l, c, h), c.cur = Idle, c.wait["defunct"] # << >>,
         NEW t, t = Head(c.wait["defunct"]), NEW d, d = Reaping(c, t), NEW g, g = Moved(h, t, Top)
  PROVE  System(l, d, g) /\ Units(d, g) = Units(c, h)
<1>1. /\ Base(l, c, h) /\ KInv(c) /\ Armed(c) /\ Runs(c, h[c.cur]) /\ DOMAIN h = Threads
      /\ c.init \in [Threads -> Prios] /\ c.stat[Idle] \in {"ready", "running"} /\ Own(l, c, h[Idle], Idle)
  BY SchedAssumption DEF System, Base
<1>2. t \in Threads /\ c.stat[t] = "close"
  <2>1. "defunct" \in Lists /\ WaitOK(c) /\ c.wait \in [Lists -> Seq(Threads)]
    BY <1>1 DEF KInv, Kernel, KType, Lists, WaitLists
  <2>2. t \in Threads /\ InList(t, c.wait["defunct"])
    BY <2>1, EmptyFacts
  <2> QED BY <2>1, <2>2 DEF WaitOK
<1>3. /\ KInv(d) /\ SameBut(c, d, {"ready", "wait", "stat", "yld", "prio", "slice", "err", "pend", "taken"})
      /\ d.stat = [c.stat EXCEPT ![t] = "init"] /\ WaitLess(c, d, t)
      /\ \A u \in Threads : u # t => d.err[u] = c.err[u] /\ d.prio[u] = c.prio[u]
  BY <1>1, <1>2, Reaped, SMTT(30)
<1>4. d.stat[t] = "init" /\ \A u \in Threads : u # t => d.stat[u] = c.stat[u]
  BY <1>1, <1>2, <1>3 DEF KInv, Kernel, KType
<1>5. d.cur = Idle /\ d.lock = c.lock /\ d.timer = c.timer /\ d.sem = c.sem /\ d.init = c.init
  BY <1>3 DEF SameBut, Fields
<1>6. t # Idle /\ Idle \in Threads
  BY <1>1, <1>2, SchedAssumption
<1>7. NotTarget(l, h, t)
  BY <1>1, <1>2, Untargeted, SMTT(30)
<1>8. Apart(c, d, t) /\ Armed(d)
  BY <1>1, <1>3, <1>4, <1>5 DEF Apart, WaitLess, Timed, Armed
<1>9. PICK e : e = Top
  OBVIOUS
<1>10. /\ DOMAIN e = {"at", "op", "to", "el", "arg", "slot"} /\ e.to = 0 /\ e.el = 0 /\ e.at = "top"
       /\ e.op = "none"
  BY <1>9 DEF Top, None
<1>11. Goes(h, g, t, e)
  BY <1>1, <1>2, <1>9, AfterGoes
<1>12. Own(l, d, e, t)
  <2>1. ~Timed(d, t)
    BY <1>2, <1>3, <1>4, SMTT(30) DEF KInv, Kernel, TimerOK
  <2> QED BY <1>2, <1>3, <1>4, <1>10, <2>1, SMTT(30) DEF Own, WaitLess, Aims
<1>13. NoGrant(c, h[t], t) /\ NoGrant(d, e, t)
  <2>1. Own(l, c, h[t], t)
    BY <1>1, <1>2 DEF Base
  <2> QED BY <1>2, <1>10, <2>1 DEF Own, NoGrant
<1>14. Runs(d, g[d.cur])
  <2>1. g[d.cur] = h[Idle] /\ h[Idle].at = "top" /\ Runs(c, h[Idle])
    BY <1>1, <1>5, <1>6, <1>11, SMTT(30) DEF Goes, Own
  <2>2. Quiet(c) => Quiet(d)
    BY <1>3, <1>4, <1>5, <1>6 DEF Quiet
  <2> QED BY <1>4, <1>5, <1>6, <2>1, <2>2 DEF Runs
<1>15. d.cur \in Threads /\ d.stat[Idle] \in {"ready", "running"}
  BY <1>1, <1>4, <1>5, <1>6
<1> QED BY <1>2, <1>3, <1>5, <1>7, <1>8, <1>11, <1>12, <1>13, <1>14, <1>15, Alone

\* A driver that posts a mail does not wait.
LEMMA MailPosted ==
  ASSUME NEW c, KInv(c), NEW t, NEW v, NEW o, NEW r, r = _rt_mb_send_wait(c, t, v, 0)
  PROVE  Section(c, r, o, InWait(c, "mb_recv"), {"mb"}) /\ r.at \in {"top", "resched"}
<1>1. DOMAIN c = Fields
  BY DEF KInv, Kernel, KType
<1>2. {"mb"} \subseteq Objects
  BY DEF Objects
<1>3. CASE c.mb.entry = MbSize
  <2>1. r = Ret(c, "EFULL")
    BY <1>3 DEF _rt_mb_send_wait
  <2>2. SameBut(c, r.k, {"mb"}) /\ r.at = "top"
    BY <1>1, <2>1 DEF Ret, SameBut
  <2>3. PICK F, G : F = {"mb"} /\ G = InWait(c, "mb_recv")
    OBVIOUS
  <2>4. Section(c, r, o, G, F)
    BY <1>2, <2>2, <2>3, Returned
  <2> QED BY <2>2, <2>3, <2>4
<1>4. CASE c.mb.entry # MbSize
  <2>1. PICK b : b = [c EXCEPT !.mb.pool[c.mb.in] = v, !.mb.in = IF @ + 1 >= MbSize THEN 0 ELSE @ + 1,
                              !.mb.entry = @ + 1]
    OBVIOUS
  <2>2. SameBut(c, b, {"mb"})
    BY <1>1, <2>1 DEF SameBut, Fields
  <2>3. r = finish(b, "mb_recv", None)
    BY <1>4, <2>1 DEF _rt_mb_send_wait
  <2>4. "mb_recv" \in Lists /\ "mb_recv" # "defunct"
    BY DEF Lists, WaitLists
  <2>5. PICK F, w : F = {"mb"} /\ w = "mb_recv"
    OBVIOUS
  <2>6. SameBut(c, b, F) /\ F \subseteq Objects /\ w \in Lists /\ w # "defunct" /\ r = finish(b, w, None)
    BY <1>2, <2>2, <2>3, <2>4, <2>5
  <2>7. Section(c, r, o, InWait(c, w), F) /\ r.at \in {"top", "resched"}
    BY <2>6, Finished
  <2> QED BY <2>5, <2>7
<1> QED BY <1>3, <1>4

-----------------------------------------------------------------------------
(* The tick *)

\* The timer of thread t is gone, those of the others are still there.
OneLess(c, d, t) == ~Timed(d, t) /\ \A u : u # t /\ Timed(c, u) => Timed(d, u)

\* Thread t has left the list it waited in, with an error number.
Late(a, t) ==
  [rt_list_remove(a, t) EXCEPT !.fault = @ \/ a.stat[t] # "suspend", !.err[t] = "ETIMEOUT"]

\* _thread_timeout up to rt_schedule: an armed timer belongs to a suspended
\* thread, so the assertion holds, and the thread goes into the ready list.
LEMMA TimedOut ==
  ASSUME NEW c, KInv(c), NEW t \in Threads, Timed(c, t), NEW a, a = rt_timer_stop(c, t),
         NEW b, b = Late(a, t),
         NEW d, d = rt_schedule_insert_thread(b, t)
  PROVE  /\ Wakes(c, d, {}, {}) /\ OneLess(c, d, t) /\ d.cur = c.cur /\ d.lock = c.lock /\ d.sem = c.sem
<1>1. Kernel(c) /\ KType(c) /\ CurOK(c) /\ c.stat[t] = "suspend"
  BY DEF KInv, Kernel, TimerOK
<1>2. /\ Kernel(a) /\ SameBut(c, a, {"timer"}) /\ SubTimers(c, a) /\ OneLess(c, a, t)
  BY <1>1, TimerStopped DEF OneLess
<1>3. a.stat = c.stat /\ a.cur = c.cur /\ a.err = c.err /\ a.wait = c.wait /\ a.lock = c.lock /\ a.sem = c.sem
  BY <1>2 DEF SameBut, Fields
<1>4. PICK x : x = rt_list_remove(a, t)
  OBVIOUS
<1>5. Kernel(x) /\ SameBut(a, x, {"wait"}) /\ ~Waits(x, t) /\ WaitLess(a, x, t)
  BY <1>1, <1>2, <1>3, <1>4, Unlinked
<1>6. KType(x) /\ DOMAIN x = Fields /\ x.fault = FALSE /\ x.err \in [Threads -> Errors]
  BY <1>5 DEF Kernel, KType
<1>7. /\ x.stat = a.stat /\ x.cur = a.cur /\ x.err = a.err /\ x.timer = a.timer /\ x.lock = a.lock
      /\ x.sem = a.sem
  BY <1>5 DEF SameBut, Fields
<1>8. /\ SameBut(x, b, {"err", "fault"}) /\ b.err = [x.err EXCEPT ![t] = "ETIMEOUT"]
      /\ b.fault = (x.fault \/ a.stat[t] # "suspend")
  BY <1>4, <1>6 DEF SameBut, Fields, Late
<1>9. b.fault = FALSE
  BY <1>1, <1>3, <1>6, <1>8
<1>10. /\ b.stat = x.stat /\ b.cur = x.cur /\ b.timer = x.timer /\ b.lock = x.lock /\ b.wait = x.wait
       /\ b.prio = x.prio /\ b.ready = x.ready /\ b.group = x.group /\ b.yld = x.yld /\ b.slice = x.slice
       /\ b.sem = x.sem /\ DOMAIN b = Fields
  BY <1>8 DEF SameBut, Fields
<1>11. b.err \in [Threads -> Errors]
  BY <1>6, <1>8 DEF Errors
<1>12. KType(b)
  BY <1>6, <1>9, <1>10, <1>11 DEF KType
<1>13. KInv(b)
  <2>1. Kernel(b)
    BY <1>5, <1>10, <1>12, KernelSame
  <2>2. CurOK(b)
    BY <1>1, <1>3, <1>7, <1>10, CurSame
  <2> QED BY <2>1, <2>2 DEF KInv
<1>14. b.stat[t] = "suspend" /\ ~Waits(b, t) /\ ~Timed(b, t)
  BY <1>1, <1>2, <1>3, <1>5, <1>7, <1>10 DEF Waits, Timed, OneLess
<1>15. KInv(d) /\ SameBut(b, d, {"stat", "ready", "group"}) /\ Awake(b, d, t)
  BY <1>13, <1>14, Enlisted
<1>16. d.cur = b.cur /\ d.err = b.err /\ d.timer = b.timer /\ d.wait = b.wait /\ d.lock = b.lock /\ d.sem = b.sem
  BY <1>15 DEF SameBut, Fields
<1>17. d.stat[t] \in {"ready", "running"} /\ \A u \in Threads : u # t => d.stat[u] = b.stat[u]
  BY <1>12, <1>15 DEF Awake, KType
<1>18. d.timer = a.timer
  BY <1>7, <1>10, <1>16
<1>19. OneLess(c, d, t) /\ SubTimers(c, d)
  BY <1>2, <1>18 DEF OneLess, Timed, SubTimers
<1>20. SameBut(c, d, WakeFields \cup {})
  <2>1. d.fault = c.fault
    BY <1>1, <1>9, <1>15 DEF SameBut, Fields, KType
  <2>2. \A f \in Fields \ (WakeFields \cup {"fault"}) : d[f] = c[f]
    BY <1>2, <1>5, <1>8, <1>15 DEF SameBut, WakeFields
  <2>3. DOMAIN d = Fields
    BY <1>15 DEF SameBut
  <2> QED BY <2>1, <2>2, <2>3 DEF SameBut
<1>21. ASSUME NEW u \in Threads PROVE Wake(c, d, {}, u)
  <2>1. CASE u = t
    <3>1. ~Loose(c, u)
      BY <2>1 DEF Loose
    <3>2. d.err[u] = "ETIMEOUT"
      BY <1>6, <1>8, <1>16, <2>1
    <3>3. \A w \in Lists : InList(u, d.wait[w]) => InList(u, c.wait[w])
      BY <1>3, <1>5, <1>10, <1>16 DEF WaitLess
    <3> QED BY <1>1, <1>17, <2>1, <3>1, <3>2, <3>3 DEF Wake
  <2>2. CASE u # t
    <3>1. d.stat[u] = c.stat[u]
      BY <1>3, <1>7, <1>10, <1>17, <2>2
    <3>2. d.err[u] = c.err[u]
      BY <1>3, <1>6, <1>7, <1>8, <1>16, <2>2
    <3>3. \A w \in Lists : InList(u, d.wait[w]) => InList(u, c.wait[w])
      BY <1>3, <1>5, <1>10, <1>16 DEF WaitLess
    <3> QED BY <3>1, <3>2, <3>3 DEF Wake, Loose
  <2> QED BY <2>1, <2>2
<1>22. Wakes(c, d, {}, {})
  BY <1>15, <1>19, <1>20, <1>21 DEF Wakes
<1> QED BY <1>3, <1>7, <1>10, <1>16, <1>19, <1>22

\* A timer expires.
LEMMA Expired ==
  ASSUME NEW c, KInv(c), c.cur \in Threads, c.stat[Idle] \in {"ready", "running"},
         NEW e, NEW t \in Threads, t = e[1], Timed(c, t), NEW d, d = expire(c, e)
  PROVE  /\ Wakes(c, d, {}, {}) /\ OneLess(c, d, t) /\ d.cur \in Threads /\ d.lock = c.lock /\ d.sem = c.sem
         /\ c.lock # 0 => d.cur = c.cur
         /\ c.lock = 0 => Quiet(d)
<1>1. PICK a : a = rt_timer_stop(c, t)
  OBVIOUS
<1>2. PICK b : b = Late(a, t)
  OBVIOUS
<1>3. PICK x : x = rt_schedule_insert_thread(b, t)
  OBVIOUS
<1>4. d = rt_schedule(x)
  BY <1>1, <1>2, <1>3 DEF expire, _thread_timeout, Late
<1>5. Wakes(c, x, {}, {}) /\ OneLess(c, x, t) /\ x.cur = c.cur /\ x.lock = c.lock /\ x.sem = c.sem
  BY <1>1, <1>2, <1>3, TimedOut
<1>6. PICK E : E = {}
  OBVIOUS
<1>7. Wakes(c, x, E, E) /\ x.cur \in Threads
  BY <1>5, <1>6
<1>8. /\ Wakes(c, d, E, E) /\ d.cur \in Threads /\ d.lock = x.lock /\ d.sem = x.sem
      /\ x.lock # 0 => d = x
      /\ x.lock = 0 => Quiet(d)
  BY <1>4, <1>7, WakesSched
<1>9. OneLess(c, d, t)
  <2>1. d.timer = x.timer
    <3>1. KInv(x) /\ x.stat[Idle] \in {"ready", "running"}
      <4>1. Wake(c, x, {}, Idle)
        BY <1>5, SchedAssumption DEF Wakes
      <4> QED BY <1>5, <4>1 DEF Wakes, Wake
    <3>2. x.stat[x.cur] = "running" \/ x.group # {}
      <4>1. Idle \in Threads
        BY SchedAssumption
      <4>2. x.stat[Idle] = "ready" => x.prio[Idle] \in x.group
        BY <3>1, <4>1, Highest DEF KInv
      <4>3. x.stat[Idle] = "running" => Idle = x.cur
        BY <3>1, <4>1 DEF KInv, CurOK
      <4> QED BY <3>1, <4>2, <4>3
    <3>3. SameBut(x, d, {"cur", "yld", "stat", "ready", "group"})
      BY <1>4, <1>7, <3>1, <3>2, Scheduled
    <3> QED BY <3>3 DEF SameBut, Fields
  <2> QED BY <1>5, <2>1 DEF OneLess, Timed
<1> QED BY <1>5, <1>6, <1>8, <1>9

Expire(env, c, e) == expire(c, e)

\* After i timers have expired: those behind are still there, and no other.
Left(base, i, d) ==
  /\ \A j \in 1 .. Len(base.timer) : j > i => Timed(d, base.timer[j][1])
  /\ \A x \in 1 .. Len(d.timer) : \E j \in 1 .. Len(base.timer) : j > i /\ d.timer[x] = base.timer[j]
Ticked(base, i, d) ==
  /\ Wakes(base, d, {}, {}) /\ d.cur \in Threads /\ d.lock = base.lock /\ d.sem = base.sem
  /\ base.lock # 0 => d.cur = base.cur
  /\ base.lock = 0 => Quiet(d) \/ (d.stat = base.stat /\ d.cur = base.cur)
LeftOver(env, base, s, i, d) == Ticked(base, i, d) /\ Left(base, i, d)
Check == INSTANCE FoldFacts WITH Op <- Expire, Rel <- LeftOver

\* A pass of the loop of rt_timer_check.
LEMMA OneExpired ==
  ASSUME NEW base, KInv(base), base.stat[Idle] \in {"ready", "running"}, NEW s, NEW i \in 1 .. Len(base.timer),
         s[i] = base.timer[i], NEW c, LeftOver(None, base, s, i - 1, c), NEW d, d = Expire(None, c, s[i])
  PROVE  LeftOver(None, base, s, i, d)
<1>1. Timers(base.timer) /\ Len(base.timer) \in Nat
  BY LenProperties DEF KInv, Kernel, TimerOK, Timers
<1>2. PICK e, t : e = s[i] /\ t = e[1]
  OBVIOUS
<1>3. e = base.timer[i] /\ t \in Threads
  BY <1>1, <1>2 DEF Timers
<1>4. Ticked(base, i - 1, c) /\ Left(base, i - 1, c)
  BY DEF LeftOver
<1>5. Timed(c, t)
  BY <1>2, <1>3, <1>4, <1>1 DEF Left
<1>6. Wakes(base, c, {}, {}) /\ KInv(c) /\ c.cur \in Threads /\ c.stat[Idle] \in {"ready", "running"}
  <2>1. Wake(base, c, {}, Idle)
    BY <1>4, SchedAssumption DEF Ticked, Wakes
  <2> QED BY <1>4, <2>1 DEF Ticked, Wakes, Wake
<1>7. /\ Wakes(c, d, {}, {}) /\ OneLess(c, d, t) /\ d.cur \in Threads /\ d.lock = c.lock /\ d.sem = c.sem
      /\ c.lock # 0 => d.cur = c.cur
      /\ c.lock = 0 => Quiet(d)
  <2>1. d = expire(c, e)
    BY <1>2 DEF Expire
  <2> QED BY <1>2, <1>3, <1>5, <1>6, <2>1, Expired
<1>8. Wakes(base, d, {}, {})
  BY <1>6, <1>7, WakesTwice
<1>9. Ticked(base, i, d)
  BY <1>4, <1>7, <1>8 DEF Ticked
<1>10. Left(base, i, d)
  <2>1. ASSUME NEW j \in 1 .. Len(base.timer), j > i PROVE Timed(d, base.timer[j][1])
    <3>1. Timed(c, base.timer[j][1])
      BY <1>4, <2>1, <1>1 DEF Left
    <3>2. base.timer[j][1] # t
      BY <1>1, <1>2, <1>3, <2>1 DEF Timers
    <3> QED BY <1>7, <3>1, <3>2 DEF OneLess
  <2>2. ASSUME NEW x \in 1 .. Len(d.timer)
        PROVE  \E j \in 1 .. Len(base.timer) : j > i /\ d.timer[x] = base.timer[j]
    <3>1. PICK y \in 1 .. Len(c.timer) : d.timer[x] = c.timer[y]
      BY <1>7 DEF Wakes, SubTimers
    <3>2. PICK j \in 1 .. Len(base.timer) : j > i - 1 /\ c.timer[y] = base.timer[j]
      BY <1>4 DEF Left
    <3>3. d.timer[x][1] # t
      BY <1>7 DEF OneLess, Timed
    <3>4. j # i
      BY <1>2, <1>3, <3>1, <3>2, <3>3
    <3>5. j > i
      BY <3>2, <3>4, <1>1
    <3> QED BY <3>1, <3>2, <3>5
  <2> QED BY <2>1, <2>2 DEF Left
<1> QED BY <1>9, <1>10 DEF LeftOver

\* The timers that have not expired.
Ahead(tm) == {i \in DOMAIN tm : tm[i][2] > 0}

\* The timers that have expired are the first of the list.
LEMMA AheadFacts ==
  ASSUME NEW tm, Timers(tm), NEW p, p = place(tm, Ahead(tm))
  PROVE  p \in 1 .. Len(tm) + 1 /\ \A j \in 1 .. Len(tm) : j > p - 1 => tm[j][2] > 0
<1>1. tm \in Seq(Threads \X Int) /\ Len(tm) \in Nat /\ DOMAIN tm = 1 .. Len(tm)
  BY LenProperties DEF Timers
<1>2. PICK I : I = Ahead(tm)
  OBVIOUS
<1>3. I \in SUBSET (1 .. Len(tm)) /\ \A i \in I : tm[i][2] > 0
  BY <1>1, <1>2 DEF Ahead
<1>4. p \in 1 .. Len(tm) + 1 /\ (p # Len(tm) + 1 => p \in I)
  BY <1>1, <1>2, <1>3, PlaceFacts
<1>5. ASSUME NEW j \in 1 .. Len(tm), j > p - 1 PROVE tm[j][2] > 0
  <2>1. p \in I /\ p \in 1 .. Len(tm)
    BY <1>1, <1>4, <1>5
  <2>2. tm[p][2] > 0
    BY <1>3, <2>1
  <2>3. CASE j = p
    BY <2>2, <2>3
  <2>4. CASE p < j
    <3>1. tm[p][2] <= tm[j][2] /\ tm[p][2] \in Int /\ tm[j][2] \in Int
      BY <1>1, <2>1, <2>4 DEF Timers
    <3> QED BY <2>2, <3>1
  <2> QED BY <1>1, <1>5, <2>1, <2>3, <2>4
<1> QED BY <1>4, <1>5

\* rt_timer_check.
LEMMA TimersChecked ==
  ASSUME NEW c, KInv(c), c.cur \in Threads, c.stat[Idle] \in {"ready", "running"},
         NEW d, d = rt_timer_check(c)
  PROVE  (\E i : Ticked(c, i, d)) /\ Armed(d)
<1>1. PICK tm : tm = c.timer
  OBVIOUS
<1>2. Timers(tm) /\ Len(tm) \in Nat /\ tm \in Seq(Threads \X Int)
  BY <1>1, LenProperties DEF KInv, Kernel, TimerOK, Timers
<1>3. PICK p : p = place(tm, Ahead(tm))
  OBVIOUS
<1>4. p \in 1 .. Len(tm) + 1 /\ \A j \in 1 .. Len(tm) : j > p - 1 => tm[j][2] > 0
  BY <1>2, <1>3, AheadFacts
<1>5. PICK s : s = SubSeq(tm, 1, p - 1)
  OBVIOUS
<1>6. s \in Seq(Threads \X Int) /\ Len(s) = p - 1 /\ \A i \in 1 .. p - 1 : s[i] = tm[i]
  <2>1. p - 1 \in 0 .. Len(tm) /\ 1 \in 1 .. Len(tm) + 1
    BY <1>2, <1>4
  <2>2. \A i \in 1 .. p - 1 : i \in 1 .. Len(tm)
    BY <1>2, <1>4
  <2> QED BY <1>2, <1>4, <1>5, <2>1, <2>2, SubSeqProperties
<1>7. LeftOver(None, c, s, 0, c)
  <2>1. SameBut(c, c, {})
    BY DEF KInv, Kernel, KType, SameBut
  <2>2. Wakes(c, c, {}, {})
    BY <2>1, ObjectsOnly
  <2>3. Ticked(c, 0, c)
    BY <2>2 DEF Ticked
  <2>4. Left(c, 0, c)
    BY <1>1, <1>2 DEF Left, Timed
  <2> QED BY <2>3, <2>4 DEF LeftOver
<1>8. \A i \in 1 .. Len(s) : \A a : LeftOver(None, c, s, i - 1, a) => LeftOver(None, c, s, i, Expire(None, a, s[i]))
  <2> SUFFICES ASSUME NEW i \in 1 .. Len(s), NEW a, LeftOver(None, c, s, i - 1, a)
               PROVE  LeftOver(None, c, s, i, Expire(None, a, s[i]))
    OBVIOUS
  <2>1. i \in 1 .. Len(c.timer) /\ s[i] = c.timer[i]
    BY <1>1, <1>2, <1>4, <1>6
  <2>2. PICK x : x = Expire(None, a, s[i])
    OBVIOUS
  <2>3. LeftOver(None, c, s, i, x)
    BY <2>1, <2>2, OneExpired
  <2> QED BY <2>2, <2>3
<1>9. LeftOver(None, c, s, Len(s), Check!Fold(None, c, s))
  BY <1>6, <1>7, <1>8, LeastExists, Check!FoldKeeps DEF Check!LeastNumber
<1>10. Check!Fold(None, c, s) = d
  <2>1. d = FoldLeft(expire, c, s)
    BY <1>1, <1>3, <1>5 DEF rt_timer_check, Ahead
  <2> QED BY <2>1 DEF Expire, Check!Fold, FoldLeft, MapThenFoldSet, Check!Greatest, Max
<1>11. Ticked(c, p - 1, d) /\ Left(c, p - 1, d)
  BY <1>6, <1>9, <1>10 DEF LeftOver
<1>12. Armed(d)
  BY <1>1, <1>4, <1>11 DEF Armed, Left
<1> QED BY <1>11, <1>12

\* The timers after a tick.
Sooner(tm) == [i \in DOMAIN tm |-> <<tm[i][1], tm[i][2] - 1>>]

\* A tick brings every timer forward.
LEMMA BroughtForward ==
  ASSUME NEW c, KInv(c), NEW d, SameBut(c, d, {"timer"}), d.timer = Sooner(c.timer)
  PROVE  KInv(d) /\ \A u : Timed(d, u) <=> Timed(c, u)
<1>1. PICK tm, tn : tm = c.timer /\ tn = d.timer
  OBVIOUS
<1>2. Timers(tm) /\ Len(tm) \in Nat /\ tm \in Seq(Threads \X Int) /\ DOMAIN tm = 1 .. Len(tm)
  BY <1>1, LenProperties DEF KInv, Kernel, TimerOK, Timers
<1>3. ASSUME NEW i \in 1 .. Len(tm)
      PROVE  /\ tn[i] = <<tm[i][1], tm[i][2] - 1>> /\ tn[i][1] = tm[i][1] /\ tn[i][2] = tm[i][2] - 1
             /\ tm[i][1] \in Threads /\ tm[i][2] \in Int /\ tn[i] \in Threads \X Int
  <2>1. tm[i] \in Threads \X Int
    BY <1>2
  <2>2. tn[i] = <<tm[i][1], tm[i][2] - 1>>
    BY <1>1, <1>2 DEF Sooner
  <2>3. tm[i][1] \in Threads /\ tm[i][2] \in Int
    BY <2>1
  <2> QED BY <2>2, <2>3
<1>4. tn \in Seq(Threads \X Int) /\ Len(tn) = Len(tm)
  <2>1. tn = [i \in 1 .. Len(tm) |-> <<tm[i][1], tm[i][2] - 1>>]
    BY <1>1, <1>2 DEF Sooner
  <2>2. tn \in [1 .. Len(tm) -> Threads \X Int]
    BY <1>3, <2>1
  <2>3. tn \in Seq(Threads \X Int)
    <3>1. PICK n \in Nat : n = Len(tm)
      BY <1>2
    <3>2. [i \in 1 .. n |-> <<tm[i][1], tm[i][2] - 1>>] \in Seq(Threads \X Int)
      BY <1>3, <2>1, <3>1
    <3> QED BY <2>1, <3>1, <3>2, SMTT(30)
  <2>4. DOMAIN tn = 1 .. Len(tn) /\ Len(tn) \in Nat
    BY <2>3, LenProperties
  <2> QED BY <1>2, <2>1, <2>3, <2>4
<1>5. Timers(tn)
  <2> SUFFICES ASSUME NEW i \in 1 .. Len(tn), NEW j \in 1 .. Len(tn), i < j
               PROVE  tn[i][1] # tn[j][1] /\ tn[i][2] <= tn[j][2]
    BY <1>4 DEF Timers
  <2>1. i \in 1 .. Len(tm) /\ j \in 1 .. Len(tm)
    BY <1>4
  <2>2. tm[i][1] # tm[j][1] /\ tm[i][2] <= tm[j][2]
    BY <1>2, <2>1 DEF Timers
  <2> QED BY <1>3, <2>1, <2>2
<1>6. \A u : Timed(d, u) <=> Timed(c, u)
  BY <1>1, <1>3, <1>4 DEF Timed
<1>7. /\ d.stat = c.stat /\ d.cur = c.cur /\ d.group = c.group /\ d.yld = c.yld /\ d.prio = c.prio
      /\ d.err = c.err /\ d.slice = c.slice /\ d.lock = c.lock /\ d.fault = c.fault
      /\ d.ready = c.ready /\ d.wait = c.wait /\ DOMAIN d = Fields
  BY DEF SameBut, Fields
<1>8. KType(c) /\ ReadyOK(c) /\ WaitOK(c) /\ TimerOK(c) /\ CurOK(c)
  BY DEF KInv, Kernel
<1>9. KType(d) /\ ReadyOK(d) /\ WaitOK(d)
  BY <1>7, <1>8 DEF KType, ReadyOK, WaitOK
<1>10. TimerOK(d)
  BY <1>1, <1>5, <1>6, <1>7, <1>8 DEF TimerOK
<1>11. CurOK(d)
  BY <1>7, <1>8, CurSame
<1> QED BY <1>6, <1>9, <1>10, <1>11 DEF KInv, Kernel

\* The system with the timers brought forward.
LEMMA ForwardBase ==
  ASSUME NEW l, NEW c, NEW h, Base(l, c, h), NEW d, SameBut(c, d, {"timer"}), d.timer = Sooner(c.timer)
  PROVE  Base(l, d, h) /\ SameGrants(c, h, d, h) /\ d.sem = c.sem
<1>1. KInv(d) /\ \A u : Timed(d, u) <=> Timed(c, u)
  BY BroughtForward DEF Base
<1>2. /\ d.stat = c.stat /\ d.cur = c.cur /\ d.prio = c.prio /\ d.err = c.err /\ d.lock = c.lock
      /\ d.wait = c.wait /\ d.sem = c.sem /\ d.init = c.init
  BY DEF SameBut, Fields
<1>3. \A x : Loose(c, x) => Loose(d, x)
  BY <1>1, <1>2 DEF Loose, Waits
<1>4. \A t \in Threads : Own(l, d, h[t], t)
  BY <1>1, <1>2, <1>3 DEF Base, Own
<1>5. Runs(d, h[d.cur])
  <2>1. Quiet(c) => Quiet(d)
    BY <1>2, QuietSame
  <2> QED BY <1>2, <2>1 DEF Base, Runs
<1>6. Base(l, d, h)
  BY <1>1, <1>2, <1>4, <1>5 DEF Base
<1>7. SameGrants(c, h, d, h)
  BY <1>2 DEF SameGrants, Grants
<1> QED BY <1>2, <1>6, <1>7

\* The time slice of the current thread in a tick.
Spent(c, t) == [c EXCEPT !.slice[t] = @ - 1]
Sliced(c, t) == IF c.slice[t] > 1 THEN Spent(c, t) ELSE rt_schedule(Yielding(c, t))

\* The slice of the current thread gets shorter, or the thread yields.
LEMMA SliceTicked ==
  ASSUME NEW l, NEW c, NEW h, Base(l, c, h), NEW d, d = Sliced(c, c.cur)
  PROVE  Base(l, d, h) /\ SameGrants(c, h, d, h) /\ d.sem = c.sem
<1>1. PICK t : t = c.cur
  OBVIOUS
<1>2. /\ KInv(c) /\ KType(c) /\ DOMAIN c = Fields /\ t \in Threads /\ c.stat[Idle] \in {"ready", "running"}
      /\ c.sem \in Nat
  BY <1>1 DEF Base, KInv, Kernel, KType
<1>3. PICK E : E = {}
  OBVIOUS
<1>4. /\ Wakes(c, d, E, E) /\ d.cur \in Threads /\ d.sem = c.sem /\ d.lock = c.lock
      /\ c.lock # 0 => d.cur = c.cur
      /\ c.lock = 0 => Quiet(d) \/ (d.stat = c.stat /\ d.cur = c.cur)
  <2>1. CASE c.slice[t] > 1
    <3>1. d = Spent(c, t)
      BY <1>1, <2>1 DEF Sliced
    <3>2. SameBut(c, d, {"slice", "yld"}) /\ d.slice = [c.slice EXCEPT ![t] = @ - 1] /\ d.yld = c.yld
      BY <1>2, <3>1 DEF SameBut, Fields, Spent
    <3>3. d.slice \in [Threads -> 1 .. Slice] /\ d.yld \subseteq Threads
      <4>1. c.slice \in [Threads -> 1 .. Slice] /\ c.yld \subseteq Threads
        BY <1>2 DEF KType
      <4>2. c.slice[t] - 1 \in 1 .. Slice
        BY <1>2, <2>1, <4>1, SchedAssumption
      <4> QED BY <3>2, <4>1, <4>2
    <3>4. Wakes(c, d, {}, {}) /\ d.stat = c.stat /\ d.cur = c.cur /\ d.lock = c.lock /\ d.sem = c.sem
      BY <1>2, <3>2, <3>3, SliceWakes
    <3> QED BY <1>1, <1>2, <1>3, <3>4
  <2>2. CASE ~(c.slice[t] > 1)
    <3>1. PICK b : b = Yielding(c, t)
      OBVIOUS
    <3>2. d = rt_schedule(b)
      BY <1>1, <2>2, <3>1 DEF Sliced
    <3>3. Wakes(c, b, {}, {}) /\ b.stat = c.stat /\ b.cur = c.cur /\ b.lock = c.lock /\ b.sem = c.sem
      BY <1>2, <3>1, Yielded
    <3>4. Wakes(c, b, E, E) /\ b.cur \in Threads
      BY <1>1, <1>2, <1>3, <3>3
    <3>5. /\ Wakes(c, d, E, E) /\ d.cur \in Threads /\ d.lock = b.lock /\ d.sem = b.sem
          /\ b.lock # 0 => d = b
          /\ b.lock = 0 => Quiet(d)
      BY <1>2, <3>2, <3>4, WakesSched
    <3> QED BY <3>3, <3>5
  <2> QED BY <2>1, <2>2
<1>5. E \subseteq Objects /\ d.sem \in Nat /\ Others(h, E)
  BY <1>2, <1>3, <1>4 DEF Others
<1>6. Base(l, d, h)
  BY <1>4, <1>5, Interrupted
<1>7. \A u \in Threads : u \in Grants(d, h) <=> u \in Grants(c, h)
  BY <1>4, <1>5, WakesGrants
<1>8. SameGrants(c, h, d, h)
  BY <1>7, SameThreads
<1> QED BY <1>4, <1>6, <1>8

\* The calls of the threads after a tick: the time they have waited has gone on.
Aged(h, g) ==
  /\ DOMAIN g = Threads
  /\ \A u \in Threads : /\ DOMAIN g[u] = DOMAIN h[u] /\ g[u].el \in Int
                        /\ \A f \in {"at", "op", "to", "arg"} : g[u][f] = h[u][f]

\* Nothing depends on that time.
LEMMA AgedKeeps ==
  ASSUME NEW l, NEW c, NEW h, System(l, c, h), NEW g, Aged(h, g)
  PROVE  System(l, c, g) /\ Units(c, g) = Units(c, h)
<1>1. ASSUME NEW u \in Threads
      PROVE  /\ DOMAIN g[u] = DOMAIN h[u] /\ g[u].el \in Int /\ g[u].at = h[u].at /\ g[u].op = h[u].op
             /\ g[u].to = h[u].to /\ g[u].arg = h[u].arg
  BY DEF Aged
<1>2. c.cur \in Threads /\ \A u \in Threads : Own(l, c, h[u], u)
  BY DEF System, Base
<1>3. \A u \in Threads : Own(l, c, g[u], u)
  <2> SUFFICES ASSUME NEW u \in Threads PROVE Own(l, c, g[u], u)
    OBVIOUS
  <2>1. Own(l, c, h[u], u)
    BY <1>2
  <2> QED BY <1>1, <2>1 DEF Own, Aims
<1>4. Runs(c, g[c.cur])
  <2>1. Runs(c, h[c.cur])
    BY DEF System, Base
  <2> QED BY <1>1, <1>2, <2>1 DEF Runs
<1>5. System(l, c, g)
  BY <1>3, <1>4 DEF System, Base, Aged
<1>6. SameGrants(c, h, c, g)
  <2>1. \A u \in Threads : u \in Grants(c, g) <=> u \in Grants(c, h)
    BY <1>1 DEF Grants
  <2> QED BY <2>1, SameThreads
<1> QED BY <1>5, <1>6 DEF Units, SameGrants

\* A tick.
LEMMA TickKeeps ==
  ASSUME NEW l, NEW c, NEW h, System(l, c, h), NEW d, d = rt_tick_increase(c), NEW g, Aged(h, g)
  PROVE  System(l, d, g) /\ Units(d, g) = Units(c, h)
<1>1. System(l, c, g) /\ Units(c, g) = Units(c, h)
  BY AgedKeeps
<1>2. Base(l, c, g) /\ DOMAIN c = Fields
  BY <1>1 DEF System, Base, KInv, Kernel, KType
<1>3. PICK a : a = [c EXCEPT !.timer = Sooner(@)]
  OBVIOUS
<1>4. SameBut(c, a, {"timer"}) /\ a.timer = Sooner(c.timer) /\ a.cur = c.cur /\ a.slice = c.slice
  BY <1>2, <1>3 DEF SameBut, Fields
<1>5. Base(l, a, g) /\ SameGrants(c, g, a, g) /\ a.sem = c.sem
  BY <1>2, <1>4, ForwardBase
<1>6. PICK b : b = Sliced(a, a.cur)
  OBVIOUS
<1>7. Base(l, b, g) /\ SameGrants(a, g, b, g) /\ b.sem = a.sem
  BY <1>5, <1>6, SliceTicked
<1>8. d = rt_timer_check(b)
  BY <1>3, <1>4, <1>6 DEF rt_tick_increase, Sliced, Spent, Yielding, Sooner
<1>9. KInv(b) /\ b.cur \in Threads /\ b.stat[Idle] \in {"ready", "running"} /\ b.sem \in Nat
  BY <1>7 DEF Base
<1>10. (\E i : Ticked(b, i, d)) /\ Armed(d)
  BY <1>8, <1>9, TimersChecked
<1>11. /\ Wakes(b, d, {}, {}) /\ d.cur \in Threads /\ d.lock = b.lock /\ d.sem = b.sem
       /\ b.lock # 0 => d.cur = b.cur
       /\ b.lock = 0 => Quiet(d) \/ (d.stat = b.stat /\ d.cur = b.cur)
  BY <1>10 DEF Ticked
<1>12. PICK E : E = {}
  OBVIOUS
<1>13. Wakes(b, d, E, E) /\ E \subseteq Objects /\ d.sem \in Nat /\ Others(g, E)
  BY <1>9, <1>11, <1>12 DEF Others
<1>14. Base(l, d, g)
  BY <1>7, <1>11, <1>13, Interrupted
<1>15. \A u \in Threads : u \in Grants(d, g) <=> u \in Grants(b, g)
  BY <1>7, <1>13, WakesGrants
<1>16. SameGrants(b, g, d, g)
  BY <1>15, SameThreads
<1> QED BY <1>1, <1>5, <1>7, <1>10, <1>11, <1>14, <1>16 DEF System, Units, SameGrants

-----------------------------------------------------------------------------
(* The semaphore *)

\* The threads that have been handed a unit are finitely many.
LEMMA GrantsFinite ==
  ASSUME NEW c, NEW h
  PROVE  IsFiniteSet(Grants(c, h)) /\ Cardinality(Grants(c, h)) \in Nat
<1>1. PICK X : X = Grants(c, h)
  OBVIOUS
<1>2. X \subseteq Threads /\ IsFiniteSet(Threads)
  BY <1>1, SchedAssumption DEF Grants
<1>3. IsFiniteSet(X)
  BY <1>2, FS_Subset
<1>4. Cardinality(X) \in Nat
  BY <1>3, FS_CardinalityType
<1> QED BY <1>1, <1>3, <1>4

\* One more thread has been handed a unit.
LEMMA OneMore ==
  ASSUME NEW c, NEW h, NEW d, NEW g, NEW u \in Threads, u \notin Grants(c, h), u \in Grants(d, g),
         \A x \in Threads : x # u => (x \in Grants(d, g) <=> x \in Grants(c, h))
  PROVE  Cardinality(Grants(d, g)) = Cardinality(Grants(c, h)) + 1
<1>1. PICK X, Y : X = Grants(c, h) /\ Y = Grants(d, g)
  OBVIOUS
<1>2. X \subseteq Threads /\ Y \subseteq Threads
  BY <1>1 DEF Grants
<1>3. Y = X \cup {u} /\ u \notin X
  BY <1>1, <1>2
<1>4. IsFiniteSet(X)
  BY <1>1, GrantsFinite
<1>5. Cardinality(Y) = Cardinality(X) + 1
  BY <1>3, <1>4, FS_AddElement
<1> QED BY <1>1, <1>5

\* A section that makes its caller wait is left with the scheduler unlocked.
Unlocked(c, r) == r.at = "block" => c.lock = 0

\* rt_sem_take, up to where the thread waits.
LEMMA TakeKeeps ==
  ASSUME NEW l, NEW c, NEW h, System(l, c, h), Calling(c, h), h[c.cur].at = "top",
         NEW n \in Int, NEW r, r = _rt_sem_take(c, c.cur, n), Unlocked(c, r),
         NEW g, g = Moved(h, c.cur, After(r, "sem_take", n, None))
  PROVE  /\ System(l, r.k, g)
         /\ r.ret = "EOK" => Units(r.k, g) = Units(c, h) - 1
         /\ r.ret # "EOK" => Units(r.k, g) = Units(c, h)
<1>1. /\ Base(l, c, h) /\ KInv(c) /\ c.cur \in Threads /\ c.stat[c.cur] = "running" /\ c.sem \in Nat
  BY CallerFacts
<1>2. /\ Section(c, r, "sem_take", {}, {"sem"})
      /\ \/ /\ r.at = "top" /\ r.ret = "EOK" /\ c.sem > 0 /\ r.k.sem = c.sem - 1
            /\ r.k.err = c.err
         \/ r.at = "top" /\ r.ret # "EOK" /\ r.k = c
         \/ r.at = "block" /\ r.ret # "EOK" /\ r.k.sem = c.sem
  BY <1>1, SemTaken
<1>3. PICK E, F, o : E = {} /\ F = {"sem"} /\ o = "sem_take"
  OBVIOUS
<1>4. F \subseteq Objects /\ Section(c, r, o, E, F) /\ Others(h, E) /\ o # "mutex_take"
  BY <1>2, <1>3 DEF Objects, Others
<1>5. r.k.sem \in Nat
  BY <1>1, <1>2
<1>6. NoGrant(c, h[c.cur], c.cur)
  BY DEF NoGrant
<1>7. g = Moved(h, c.cur, After(r, o, n, None))
  BY <1>3
<1>8. System(l, r.k, g)
  <2>1. CASE r.at = "block"
    <3>1. c.lock = 0
      BY <2>1 DEF Unlocked
    <3> QED BY <1>4, <1>5, <1>7, <2>1, <3>1, CallBlocks
  <2>2. CASE r.at = "top"
    <3>1. r.at # "block" /\ (r.at = "copy" => o \in {"mq_send", "mq_urgent", "mq_recv"})
      BY <2>2
    <3> QED BY <1>4, <1>5, <1>7, <3>1, CallGoesOn
  <2> QED BY <1>2, <2>1, <2>2
<1>9. SameGrants(c, h, r.k, g)
  BY <1>1, <1>4, <1>6, <1>7, CallGrants DEF Unlocked
<1>10. PICK m, x, y : m = Cardinality(Grants(c, h)) /\ x = c.sem /\ y = r.k.sem
  OBVIOUS
<1>11. Cardinality(Grants(r.k, g)) = m /\ m \in Nat /\ Units(c, h) = x + m /\ Units(r.k, g) = y + m
  BY <1>9, <1>10, GrantsFinite DEF SameGrants, Units
<1>12. (r.ret = "EOK" => y = x - 1) /\ (r.ret # "EOK" => y = x) /\ x \in Nat /\ y \in Nat
  BY <1>1, <1>2, <1>5, <1>10
<1> QED BY <1>8, <1>11, <1>12

\* rt_sem_take, when the thread runs again.
LEMMA TookKeeps ==
  ASSUME NEW l, NEW c, NEW h, System(l, c, h), Calling(c, h), h[c.cur].at = "woken",
         h[c.cur].op = "sem_take", NEW r, r = Ret(c, c.err[c.cur]),
         NEW g, g = Moved(h, c.cur, After(r, None, 0, None))
  PROVE  /\ System(l, r.k, g)
         /\ c.err[c.cur] = "EOK" => Units(r.k, g) = Units(c, h) - 1
         /\ c.err[c.cur] # "EOK" => Units(r.k, g) = Units(c, h)
<1>1. /\ Base(l, c, h) /\ KInv(c) /\ c.cur \in Threads /\ c.stat[c.cur] = "running" /\ c.sem \in Nat
      /\ DOMAIN h = Threads
  BY CallerFacts
<1>2. r.k = c /\ r.at = "top"
  BY DEF Ret
<1>3. PICK E, o : E = {} /\ o = None
  OBVIOUS
<1>4. E \subseteq Objects /\ Others(h, E) /\ o # "mutex_take" /\ SameBut(c, r.k, E) /\ 0 \in Int
  BY <1>1, <1>2, <1>3, Itself DEF Others, None
<1>5. Section(c, r, o, E, E)
  BY <1>1, <1>2, <1>4, Returned
<1>6. g = Moved(h, c.cur, After(r, o, 0, None)) /\ r.k.sem \in Nat
  BY <1>1, <1>2, <1>3
<1>7. System(l, r.k, g)
  <2>1. r.at # "block" /\ (r.at = "copy" => o \in {"mq_send", "mq_urgent", "mq_recv"})
    BY <1>2
  <2> QED BY <1>4, <1>5, <1>6, <2>1, CallGoesOn
<1>8. PICK t : t = c.cur
  OBVIOUS
<1>9. Goes(h, g, t, Top)
  <2>1. After(r, o, 0, None) = Top
    BY <1>2 DEF After
  <2>2. g = Moved(h, t, Top)
    BY <1>6, <1>8, <2>1
  <2> QED BY <1>1, <1>8, <2>2, AfterGoes
<1>10. t \notin Grants(c, g) /\ \A x \in Threads : x # t => (x \in Grants(c, h) <=> x \in Grants(c, g))
  BY <1>9 DEF Grants, Goes, Top
<1>11. Cardinality(Grants(c, g)) \in Nat /\ c.sem \in Nat
  BY <1>1, GrantsFinite
<1>12. CASE c.err[t] = "EOK"
  <2>1. t \in Grants(c, h)
    BY <1>1, <1>8, <1>12 DEF Grants
  <2>2. Cardinality(Grants(c, h)) = Cardinality(Grants(c, g)) + 1
    BY <1>1, <1>8, <1>10, <2>1, OneMore
  <2>3. PICK m : m = Cardinality(Grants(c, g))
    OBVIOUS
  <2>4. Units(c, g) = c.sem + m /\ Units(c, h) = c.sem + (m + 1) /\ m \in Nat
    BY <1>11, <2>2, <2>3 DEF Units
  <2> QED BY <1>2, <1>7, <1>8, <1>11, <1>12, <2>4
<1>13. CASE c.err[t] # "EOK"
  <2>1. t \notin Grants(c, h)
    BY <1>13 DEF Grants
  <2>2. \A x \in Threads : x \in Grants(c, g) <=> x \in Grants(c, h)
    BY <1>10, <2>1
  <2>3. SameGrants(c, h, c, g)
    BY <2>2, SameThreads
  <2> QED BY <1>2, <1>7, <1>8, <1>13, <2>3 DEF Units, SameGrants
<1> QED BY <1>12, <1>13

\* A unit is handed to a waiter, whose call is as it was.
LEMMA HandsUnit ==
  ASSUME NEW l, NEW c, NEW h, Base(l, c, h), NEW d, Hands(c, d, "sem"), NEW g,
         \A x \in Threads : g[x] = h[x] \/ (x = c.cur /\ NotSem(g[x]) /\ NotSem(h[x]) /\ c.stat[x] # "suspend")
  PROVE  Cardinality(Grants(d, g)) = Cardinality(Grants(c, h)) + 1
<1>1. PICK u \in InWait(c, "sem") : d.err = [c.err EXCEPT ![u] = "EOK"]
  BY DEF Hands
<1>2. /\ u \in Threads /\ InList(u, c.wait["sem"]) /\ "sem" \in Lists \ {"defunct"} /\ Own(l, c, h[u], u)
      /\ KInv(c)
  BY <1>1 DEF InWait, Lists, WaitLists, Base
<1>3. c.stat[u] = "suspend"
  BY <1>2 DEF KInv, Kernel, WaitOK
<1>4. h[u].op = "sem_take" /\ h[u].at \in {"block", "woken"} /\ c.err[u] # "EOK"
  <2>1. h[u].op = OpOf("sem") /\ h[u].at \in {"block", "woken"}
    BY <1>2 DEF Own
  <2> QED BY <1>2, <1>3, <2>1 DEF Own, OpOf
<1>5. c.err \in [Threads -> Errors]
  BY <1>2 DEF KInv, Kernel, KType
<1>6. d.err[u] = "EOK" /\ \A x \in Threads : x # u => d.err[x] = c.err[x]
  BY <1>1, <1>2, <1>5
<1>7. u \notin Grants(c, h) /\ u \in Grants(d, g)
  <2>1. g[u] = h[u]
    BY <1>2, <1>3
  <2> QED BY <1>2, <1>4, <1>6, <2>1 DEF Grants
<1>8. ASSUME NEW x \in Threads, x # u PROVE x \in Grants(d, g) <=> x \in Grants(c, h)
  <2>1. CASE g[x] = h[x]
    BY <1>6, <1>8, <2>1 DEF Grants
  <2>2. CASE NotSem(g[x]) /\ NotSem(h[x])
    BY <2>2 DEF Grants, NotSem
  <2> QED BY <2>1, <2>2
<1> QED BY <1>2, <1>7, <1>8, OneMore

\* rt_sem_release by a thread.
LEMMA ReleaseKeeps ==
  ASSUME NEW l, NEW c, NEW h, System(l, c, h), Calling(c, h), h[c.cur].at = "top",
         NEW r, r = rt_sem_release(c), NEW g, g = Moved(h, c.cur, After(r, "sem_release", 0, None))
  PROVE  /\ System(l, r.k, g)
         /\ r.ret = "EOK" => Units(r.k, g) = Units(c, h) + 1
         /\ r.ret # "EOK" => Units(r.k, g) = Units(c, h)
<1>1. /\ Base(l, c, h) /\ KInv(c) /\ c.cur \in Threads /\ c.stat[c.cur] = "running" /\ c.sem \in Nat
      /\ DOMAIN h = Threads
  BY CallerFacts
<1>2. PICK G, F, o : G = InWait(c, "sem") /\ F = {"sem"} /\ o = "sem_release"
  OBVIOUS
<1>3. /\ Section(c, r, o, G, F)
      /\ \/ r.at = "top" /\ r.ret = "EOK" /\ r.k.sem = c.sem + 1 /\ r.k.err = c.err
         \/ r.at = "top" /\ r.ret = "EFULL" /\ r.k = c
         \/ r.at = "resched" /\ r.ret = "EOK" /\ r.k.sem = c.sem /\ Hands(c, r.k, "sem")
  BY <1>1, <1>2, SemReleased
<1>4. F \subseteq Objects /\ o # "mutex_take" /\ r.k.sem \in Nat /\ r.at # "block" /\ 0 \in Int
  BY <1>1, <1>2, <1>3 DEF Objects
<1>5. r.at = "copy" => o \in {"mq_send", "mq_urgent", "mq_recv"}
  BY <1>3
<1>6. PICK t, e : t = c.cur /\ e = After(r, o, 0, None)
  OBVIOUS
<1>7. g = Moved(h, c.cur, After(r, o, 0, None)) /\ g = Moved(h, t, e)
  BY <1>2, <1>6
<1>8. System(l, r.k, g)
  BY <1>3, <1>4, <1>5, <1>7, CallGoesOn
<1>9. Goes(h, g, t, e) /\ e.at \notin {"block", "woken"}
  <2>1. e.at = r.at
    BY <1>4, <1>6, AfterFacts
  <2>2. Goes(h, g, t, e)
    BY <1>1, <1>6, <1>7, AfterGoes
  <2> QED BY <1>3, <2>1, <2>2
<1>10. NotSem(g[t]) /\ NotSem(h[t]) /\ \A x \in Threads : x # t => g[x] = h[x]
  BY <1>6, <1>9 DEF NotSem, Goes
<1>11. Cardinality(Grants(c, h)) \in Nat
  BY GrantsFinite
<1>12. PICK m, x, y : m = Cardinality(Grants(c, h)) /\ x = c.sem /\ y = Cardinality(Grants(r.k, g))
  OBVIOUS
<1>13. CASE r.at = "top"
  <2>1. r.k.err = c.err
    BY <1>3, <1>13
  <2>2. \A z \in Threads : z \in Grants(r.k, g) <=> z \in Grants(c, h)
    BY <1>10, <2>1 DEF Grants, NotSem
  <2>3. y = m
    BY <1>12, <2>2, SameThreads DEF SameGrants
  <2>4. Units(c, h) = x + m /\ Units(r.k, g) = r.k.sem + m
    BY <1>12, <2>3 DEF Units
  <2> QED BY <1>1, <1>3, <1>8, <1>11, <1>12, <1>13, <2>4
<1>14. CASE r.at = "resched"
  <2>1. Hands(c, r.k, "sem") /\ r.ret = "EOK" /\ r.k.sem = c.sem
    BY <1>3, <1>14
  <2>2. \A z \in Threads : g[z] = h[z] \/ (z = c.cur /\ NotSem(g[z]) /\ NotSem(h[z]) /\ c.stat[z] # "suspend")
    BY <1>1, <1>6, <1>10
  <2>3. y = m + 1
    BY <1>1, <1>12, <2>1, <2>2, HandsUnit
  <2>4. Units(c, h) = x + m /\ Units(r.k, g) = x + (m + 1)
    BY <1>12, <2>1, <2>3 DEF Units
  <2> QED BY <1>1, <1>8, <1>11, <1>12, <2>1, <2>4
<1> QED BY <1>3, <1>13, <1>14

\* rt_sem_release by an interrupt handler.
LEMMA IsrReleaseKeeps ==
  ASSUME NEW l, NEW c, NEW h, System(l, c, h), NEW r, r = rt_sem_release(c),
         NEW d, d = IF r.at = "resched" THEN rt_schedule(r.k) ELSE r.k
  PROVE  /\ System(l, d, h)
         /\ r.ret = "EOK" => Units(d, h) = Units(c, h) + 1
         /\ r.ret # "EOK" => Units(d, h) = Units(c, h)
<1>1. Base(l, c, h) /\ KInv(c) /\ c.sem \in Nat
  BY DEF System, Base
<1>2. PICK G, F, o : G = InWait(c, "sem") /\ F = {"sem"} /\ o = "sem_release"
  OBVIOUS
<1>3. /\ Section(c, r, o, G, F)
      /\ \/ r.at = "top" /\ r.ret = "EOK" /\ r.k.sem = c.sem + 1 /\ r.k.err = c.err
         \/ r.at = "top" /\ r.ret = "EFULL" /\ r.k = c
         \/ r.at = "resched" /\ r.ret = "EOK" /\ r.k.sem = c.sem /\ Hands(c, r.k, "sem")
  BY <1>1, <1>2, SemReleased
<1>4. F \subseteq Objects /\ r.k.sem \in Nat /\ r.at \in {"top", "resched"}
  BY <1>1, <1>2, <1>3 DEF Objects
<1>5. System(l, d, h) /\ d.sem = r.k.sem /\ (r.at = "resched" => d.err = r.k.err)
  BY <1>3, <1>4, HandlerKeeps
<1>6. Cardinality(Grants(c, h)) \in Nat
  BY GrantsFinite
<1>7. PICK m, x, y : m = Cardinality(Grants(c, h)) /\ x = c.sem /\ y = Cardinality(Grants(d, h))
  OBVIOUS
<1>8. CASE r.at = "top"
  <2>1. d.err = c.err
    BY <1>3, <1>8
  <2>2. \A z \in Threads : z \in Grants(d, h) <=> z \in Grants(c, h)
    BY <2>1 DEF Grants
  <2>3. y = m
    BY <1>7, <2>2, SameThreads DEF SameGrants
  <2>4. Units(c, h) = x + m /\ Units(d, h) = r.k.sem + m
    BY <1>5, <1>7, <2>3 DEF Units
  <2> QED BY <1>1, <1>3, <1>5, <1>6, <1>7, <1>8, <2>4
<1>9. CASE r.at = "resched"
  <2>1. Hands(c, r.k, "sem") /\ r.ret = "EOK" /\ r.k.sem = c.sem /\ d.err = r.k.err
    BY <1>3, <1>5, <1>9
  <2>2. Hands(c, d, "sem")
    BY <2>1 DEF Hands
  <2>3. \A z \in Threads : h[z] = h[z] \/ (z = c.cur /\ NotSem(h[z]) /\ NotSem(h[z]) /\ c.stat[z] # "suspend")
    OBVIOUS
  <2>4. y = m + 1
    BY <1>1, <1>7, <2>2, <2>3, HandsUnit
  <2>5. Units(c, h) = x + m /\ Units(d, h) = x + (m + 1)
    BY <1>5, <1>7, <2>1, <2>4 DEF Units
  <2> QED BY <1>1, <1>5, <1>6, <1>7, <2>1, <2>5
<1> QED BY <1>4, <1>8, <1>9

\* rt_sem_control: the units that have been handed out are still taken.
LEMMA ResetKeeps ==
  ASSUME NEW l, NEW c, NEW h, System(l, c, h), Calling(c, h), h[c.cur].at = "top",
         NEW r, r = rt_sem_control(c, 0), NEW g, g = Moved(h, c.cur, After(r, "sem_control", 0, None))
  PROVE  System(l, r.k, g) /\ Units(r.k, g) = Cardinality(Grants(c, h))
<1>1. Base(l, c, h) /\ KInv(c)
  BY CallerFacts
<1>2. PICK E, F, o : E = {} /\ F = {"sem"} /\ o = "sem_control"
  OBVIOUS
<1>3. Section(c, r, o, {}, {"sem"}) /\ r.k.sem = 0 /\ r.at = "resched"
  BY <1>1, SemEventReset
<1>4. /\ F \subseteq Objects /\ Section(c, r, o, E, F) /\ Others(h, E) /\ o # "mutex_take" /\ r.k.sem \in Nat
      /\ r.at # "block" /\ (r.at = "copy" => o \in {"mq_send", "mq_urgent", "mq_recv"}) /\ 0 \in Int
  BY <1>2, <1>3 DEF Objects, Others
<1>5. NoGrant(c, h[c.cur], c.cur) /\ g = Moved(h, c.cur, After(r, o, 0, None))
  BY <1>2 DEF NoGrant
<1>6. System(l, r.k, g)
  BY <1>4, <1>5, CallGoesOn
<1>7. SameGrants(c, h, r.k, g)
  BY <1>1, <1>4, <1>5, CallGrants
<1>8. Cardinality(Grants(c, h)) \in Nat
  BY GrantsFinite
<1> QED BY <1>3, <1>6, <1>7, <1>8 DEF Units, SameGrants

-----------------------------------------------------------------------------
(* Boot *)

StartUp(env, c, t) == rt_thread_startup(c, t)

\* Before the scheduler is started no thread waits and none has a timer.
NoneWaits(c) == \A t \in Threads : ~Waits(c, t) /\ ~Timed(c, t)
Booting(l, c) ==
  /\ KInv(c) /\ c.cur = None /\ NoneWaits(c) /\ c.sem = 0 /\ c.init = l.prio /\ c.lock = 0
Booted(l, base, s, i, c) ==
  /\ Booting(l, c)
  /\ \A j \in 1 .. Len(s) : c.stat[s[j]] = IF j <= i THEN "ready" ELSE "init"
  /\ \A t \in Threads : c.stat[t] \in {"ready", "init"}
Boot == INSTANCE FoldFacts WITH Op <- StartUp, Rel <- Booted

\* The kernel before any thread is started.
LEMMA FreshKernel ==
  ASSUME NEW l, l.prio \in [Threads -> Prios], NEW c, c = Fresh(l)
  PROVE  Booting(l, c) /\ \A t \in Threads : c.stat[t] = "init"
<1>1. DOMAIN c = Fields
  BY DEF Fresh, Fields
<1>2. /\ c.cur = None /\ c.group = {} /\ c.yld = {} /\ c.lock = 0 /\ c.fault = FALSE /\ c.sem = 0
      /\ c.stat = [t \in Threads |-> "init"] /\ c.prio = l.prio /\ c.init = l.prio /\ c.timer = << >>
      /\ c.ready = [p \in Prios |-> << >>] /\ c.wait = [w \in Lists |-> << >>]
      /\ c.slice = [t \in Threads |-> Slice] /\ c.err = [t \in Threads |-> "EOK"]
  BY DEF Fresh, Lists
<1>3. KType(c)
  <2>1. Slice \in 1 .. Slice
    BY SchedAssumption
  <2>2. c.slice \in [Threads -> 1 .. Slice] /\ c.stat \in [Threads -> Stats] /\ c.err \in [Threads -> Errors]
    BY <1>2, <2>1 DEF Stats, Errors
  <2>3. c.ready \in [Prios -> Seq(Threads)] /\ c.wait \in [Lists -> Seq(Threads)]
    BY <1>2
  <2> QED BY <1>1, <1>2, <2>2, <2>3 DEF KType
<1>4. IsList(Threads, << >>) /\ \A t : ~InList(t, << >>)
  BY DEF IsList, Distinct, InList
<1>5. \A p \in Prios : c.ready[p] = << >>
  BY <1>2
<1>6. \A w \in Lists : c.wait[w] = << >>
  BY <1>2
<1>7. \A t \in Threads : c.stat[t] = "init"
  BY <1>2
<1>8. ReadyOK(c)
  BY <1>2, <1>4, <1>5, <1>7 DEF ReadyOK
<1>9. WaitOK(c)
  BY <1>4, <1>6, <1>7 DEF WaitOK
<1>10. \A t : ~Timed(c, t)
  BY <1>2 DEF Timed
<1>11. TimerOK(c)
  <2>1. Timers(c.timer)
    BY <1>2 DEF Timers
  <2> QED BY <1>10, <2>1 DEF TimerOK
<1>12. CurOK(c)
  BY <1>2, <1>7, IpcAssumption DEF CurOK
<1>13. NoneWaits(c)
  BY <1>4, <1>6, <1>10 DEF NoneWaits, Waits
<1> QED BY <1>2, <1>3, <1>7, <1>8, <1>9, <1>11, <1>12, <1>13 DEF Booting, KInv, Kernel

\* rt_thread_startup before the scheduler is started.
LEMMA OneBooted ==
  ASSUME NEW l, NEW base, NEW s \in Seq(Threads), IsInjective(s), NEW i \in 1 .. Len(s), NEW c,
         Booted(l, base, s, i - 1, c), NEW d, d = StartUp(l, c, s[i])
  PROVE  Booted(l, base, s, i, d)
<1>1. PICK t : t = s[i]
  OBVIOUS
<1>2. t \in Threads /\ Len(s) \in Nat /\ DOMAIN s = 1 .. Len(s)
  BY <1>1, LenProperties
<1>3. /\ KInv(c) /\ c.cur = None /\ NoneWaits(c) /\ c.sem = 0 /\ c.init = l.prio /\ c.lock = 0
      /\ c.stat[t] = "init" /\ \A u \in Threads : c.stat[u] \in {"ready", "init"}
  <2>1. ~(i <= i - 1)
    BY <1>2
  <2> QED BY <1>1, <2>1 DEF Booted, Booting
<1>4. Kernel(c) /\ CurOK(c) /\ ~Waits(c, t) /\ ~Timed(c, t)
  BY <1>2, <1>3 DEF KInv, NoneWaits
<1>5. PICK b : b = Suspending(c, t)
  OBVIOUS
<1>6. Kernel(b) /\ SameBut(c, b, {"stat"}) /\ b.stat = [c.stat EXCEPT ![t] = "suspend"]
  <2>1. PICK x : x = "suspend"
    OBVIOUS
  <2>2. b = [c EXCEPT !.stat[t] = x]
    BY <1>5, <2>1 DEF Suspending
  <2>3. Stated(c, b, t, x) /\ x \in {"running", "suspend", "init"} /\ c.stat[t] \notin {"ready", "close"}
    BY <1>3, <1>4, <2>1, <2>2, StatSet
  <2>4. Kernel(b)
    BY <1>2, <1>4, <2>3, Restated
  <2> QED BY <2>1, <2>3, <2>4 DEF Stated
<1>7. b.cur = None /\ b.wait = c.wait /\ b.timer = c.timer /\ b.sem = c.sem /\ b.init = c.init /\ b.lock = c.lock
  BY <1>3, <1>6 DEF SameBut, Fields
<1>8. b.stat[t] = "suspend" /\ \A u \in Threads : u # t => b.stat[u] = c.stat[u]
  BY <1>2, <1>4, <1>6 DEF Kernel, KType
<1>9. KInv(b)
  BY <1>3, <1>6, <1>7, <1>8, IpcAssumption DEF KInv, CurOK
<1>10. d = rt_thread_resume(b, t)
  BY <1>1, <1>5 DEF StartUp, rt_thread_startup, Suspending
<1>11. /\ KInv(d) /\ SameBut(b, d, {"stat", "ready", "group", "wait", "timer"})
       /\ Awake(b, d, t) /\ WaitLess(b, d, t) /\ SubTimers(b, d)
  BY <1>2, <1>8, <1>9, <1>10, ThreadResumed
<1>12. d.cur = None /\ d.sem = 0 /\ d.init = l.prio /\ d.lock = 0
  BY <1>3, <1>7, <1>11 DEF SameBut, Fields
<1>13. d.stat[t] = "ready" /\ \A u \in Threads : u # t => d.stat[u] = c.stat[u]
  <2>1. d.stat = [b.stat EXCEPT ![t] = "ready"]
    BY <1>2, <1>7, <1>11, IpcAssumption DEF Awake
  <2>2. b.stat \in [Threads -> Stats]
    BY <1>9 DEF KInv, Kernel, KType
  <2> QED BY <1>2, <1>8, <2>1, <2>2
<1>14. NoneWaits(d)
  <2> SUFFICES ASSUME NEW u \in Threads PROVE ~Waits(d, u) /\ ~Timed(d, u)
    BY DEF NoneWaits
  <2>1. ~Waits(c, u) /\ ~Timed(c, u)
    BY <1>3 DEF NoneWaits
  <2>2. ~Timed(b, u) /\ ~Waits(b, u)
    BY <1>7, <2>1 DEF Timed, Waits
  <2>3. ~Timed(d, u)
    BY <1>11, <2>2, SubTimed
  <2>4. ~Waits(d, u)
    BY <1>11, <2>2 DEF Waits, WaitLess
  <2> QED BY <2>3, <2>4
<1>15. ASSUME NEW j \in 1 .. Len(s) PROVE d.stat[s[j]] = IF j <= i THEN "ready" ELSE "init"
  <2>1. CASE j = i
    BY <1>1, <1>2, <1>13, <2>1
  <2>2. CASE j # i
    <3>1. s[j] # t /\ s[j] \in Threads
      BY <1>1, <1>2, <2>2 DEF IsInjective
    <3>2. c.stat[s[j]] = IF j <= i - 1 THEN "ready" ELSE "init"
      BY DEF Booted
    <3>3. j <= i - 1 <=> j <= i
      BY <1>2, <2>2
    <3> QED BY <1>13, <3>1, <3>2, <3>3
  <2> QED BY <2>1, <2>2
<1>16. \A u \in Threads : d.stat[u] \in {"ready", "init"}
  BY <1>3, <1>13
<1> QED BY <1>11, <1>12, <1>14, <1>15, <1>16 DEF Booted, Booting

\* The threads of the load have been started.
LEMMA AllBooted ==
  ASSUME NEW l \in Loads, NEW c, c = FoldLeft(rt_thread_startup, Fresh(l), l.order)
  PROVE  Booting(l, c) /\ c.stat[Idle] = "ready" /\ \A t \in Threads : c.stat[t] \in {"ready", "init"}
<1>1. PICK s, b : s = l.order /\ b = Fresh(l)
  OBVIOUS
<1>2. /\ l.prio \in [Threads -> Prios] /\ s \in Seq(Threads) /\ IsInjective(s) /\ \E i \in DOMAIN s : s[i] = Idle
      /\ Len(s) \in Nat /\ DOMAIN s = 1 .. Len(s)
  BY <1>1, LoadsAssumption, LenProperties
<1>3. Booted(l, b, s, 0, b)
  <2>1. Booting(l, b) /\ \A t \in Threads : b.stat[t] = "init"
    BY <1>1, <1>2, FreshKernel
  <2>2. \A j \in 1 .. Len(s) : s[j] \in Threads /\ ~(j <= 0)
    BY <1>2
  <2> QED BY <2>1, <2>2 DEF Booted
<1>4. \A i \in 1 .. Len(s) : \A a : Booted(l, b, s, i - 1, a) => Booted(l, b, s, i, StartUp(l, a, s[i]))
  <2> SUFFICES ASSUME NEW i \in 1 .. Len(s), NEW a, Booted(l, b, s, i - 1, a)
               PROVE  Booted(l, b, s, i, StartUp(l, a, s[i]))
    OBVIOUS
  <2>1. PICK x : x = StartUp(l, a, s[i])
    OBVIOUS
  <2>2. Booted(l, b, s, i, x)
    BY <1>2, <2>1, OneBooted
  <2> QED BY <2>1, <2>2
<1>5. Booted(l, b, s, Len(s), Boot!Fold(l, b, s))
  BY <1>2, <1>3, <1>4, LeastExists, Boot!FoldKeeps DEF Boot!LeastNumber
<1>6. Boot!Fold(l, b, s) = c
  <2>1. c = FoldLeft(rt_thread_startup, b, s)
    BY <1>1
  <2> QED BY <2>1 DEF StartUp, Boot!Fold, FoldLeft, MapThenFoldSet, Boot!Greatest, Max
<1>7. c.stat[Idle] = "ready"
  <2>1. PICK i \in 1 .. Len(s) : s[i] = Idle
    BY <1>2
  <2>2. i <= Len(s)
    BY <1>2, <2>1
  <2> QED BY <1>5, <1>6, <2>1, <2>2 DEF Booted
<1> QED BY <1>5, <1>6, <1>7 DEF Booted

\* A ready thread that starts to run leaves the ready list.
LEMMA FirstRuns ==
  ASSUME NEW b, Kernel(b), NEW t \in Threads, b.stat[t] = "ready",
         NEW d, d = [rt_schedule_remove_thread(b, t) EXCEPT !.stat[t] = "running"]
  PROVE  Kernel(d) /\ SameBut(b, d, {"stat", "ready", "group"}) /\ d.stat = [b.stat EXCEPT ![t] = "running"]
<1>1. b.stat[t] \in {"ready", "running"}
  OBVIOUS
<1>2. "running" \in {"running", "suspend"}
  OBVIOUS
<1> QED BY <1>1, <1>2, TakenOff

\* rt_system_scheduler_start: the first thread runs.
LEMMA StartKeeps ==
  ASSUME NEW l \in Loads, NEW c, c = FoldLeft(rt_thread_startup, Fresh(l), l.order),
         NEW d, d = rt_system_scheduler_start(c), NEW h, h = [t \in Threads |-> Top]
  PROVE  System(l, d, h) /\ Units(d, h) = 0
<1>1. Booting(l, c) /\ c.stat[Idle] = "ready" /\ \A t \in Threads : c.stat[t] \in {"ready", "init"}
  BY AllBooted
<1>2. /\ KInv(c) /\ Kernel(c) /\ KType(c) /\ DOMAIN c = Fields /\ NoneWaits(c) /\ c.sem = 0
      /\ c.init = l.prio /\ c.lock = 0 /\ c.cur = None
  BY <1>1 DEF Booting, KInv, Kernel, KType
<1>3. PICK p, t : p = Min(c.group) /\ t = Head(c.ready[p])
  OBVIOUS
<1>4. Idle \in Threads /\ l.prio \in [Threads -> Prios]
  BY SchedAssumption, LoadsAssumption, SMTT(30)
<1>5. /\ t \in Threads /\ c.stat[t] = "ready" /\ c.prio[t] = p /\ \A q \in c.group : p <= q
      /\ \A u \in Threads : c.stat[u] = "ready" => c.prio[u] \in c.group
  <2>1. c.prio[Idle] \in c.group
    BY <1>1, <1>2, <1>4, Highest
  <2> QED BY <1>2, <1>3, <2>1, Highest
<1>6. PICK b : b = [c EXCEPT !.cur = t]
  OBVIOUS
<1>7. SameBut(c, b, {"cur"}) /\ b.cur = t
  BY <1>2, <1>6 DEF SameBut, Fields
<1>8. /\ b.stat = c.stat /\ b.prio = c.prio /\ b.ready = c.ready /\ b.group = c.group /\ b.wait = c.wait
      /\ b.timer = c.timer /\ b.yld = c.yld /\ b.err = c.err /\ b.slice = c.slice /\ b.lock = c.lock
      /\ b.fault = c.fault /\ b.sem = c.sem /\ b.init = c.init /\ DOMAIN b = Fields
  BY <1>7 DEF SameBut, Fields
<1>9. Kernel(b)
  <2>1. KType(b)
    BY <1>2, <1>5, <1>7, <1>8 DEF KType
  <2> QED BY <1>2, <1>8, <2>1, KernelSame
<1>10. d = [rt_schedule_remove_thread(b, t) EXCEPT !.stat[t] = "running"]
  BY <1>3, <1>6, ZenonT(30) DEF rt_system_scheduler_start
<1>11. Kernel(d) /\ SameBut(b, d, {"stat", "ready", "group"}) /\ d.stat = [b.stat EXCEPT ![t] = "running"]
  <2>1. b.stat[t] = "ready"
    BY <1>5, <1>8
  <2>2. t \in Threads
    BY <1>5
  <2> QED BY ONLY <1>9, <1>10, <2>1, <2>2, FirstRuns
<1>12. /\ d.cur = t /\ d.prio = c.prio /\ d.wait = c.wait /\ d.timer = c.timer /\ d.lock = 0 /\ d.sem = 0
       /\ d.init = l.prio
  BY <1>2, <1>7, <1>8, <1>11 DEF SameBut, Fields
<1>13. d.stat[t] = "running" /\ \A u \in Threads : u # t => d.stat[u] = c.stat[u]
  <2>1. c.stat \in [Threads -> Stats]
    BY <1>2 DEF KType
  <2> QED BY <1>5, <1>8, <1>11, <2>1
<1>14. KInv(d)
  BY <1>1, <1>11, <1>12, <1>13 DEF KInv, CurOK
<1>15. d.stat[Idle] \in {"ready", "running"}
  BY <1>1, <1>4, <1>13
<1>16. Quiet(d)
  BY <1>5, <1>12, <1>13 DEF Quiet
<1>17. \A u \in Threads : ~Waits(d, u) /\ ~Timed(d, u)
  BY <1>2, <1>12 DEF NoneWaits, Waits, Timed
<1>18. PICK e : e = Top
  OBVIOUS
<1>19. /\ DOMAIN e = {"at", "op", "to", "el", "arg", "slot"} /\ e.to = 0 /\ e.el = 0 /\ e.at = "top"
       /\ e.op = "none" /\ \A u \in Threads : h[u] = e
  BY <1>18 DEF Top, None
<1>20. \A u \in Threads : Own(l, d, h[u], u)
  BY <1>17, <1>19 DEF Own, Waits, Aims
<1>21. Runs(d, h[d.cur])
  BY <1>5, <1>12, <1>13, <1>16, <1>19 DEF Runs
<1>22. Armed(d)
  <2>1. Timers(d.timer)
    BY <1>14 DEF KInv, Kernel, TimerOK
  <2>2. \A i \in 1 .. Len(d.timer) : d.timer[i][1] \in Threads
    BY <2>1 DEF Timers
  <2> QED BY <1>17, <2>2 DEF Armed, Timed
<1>23. System(l, d, h)
  <2>1. DOMAIN h = Threads /\ d.sem \in Nat /\ d.init \in [Threads -> Prios] /\ d.cur \in Threads
    BY <1>4, <1>5, <1>12
  <2> QED BY <1>14, <1>15, <1>20, <1>21, <1>22, <2>1 DEF System, Base
<1>24. Units(d, h) = 0
  <2>1. Grants(d, h) = {}
    BY <1>19 DEF Grants
  <2>2. Cardinality({}) = 0
    BY FS_EmptySet
  <2> QED BY <1>12, <2>1, <2>2 DEF Units
<1> QED BY <1>23, <1>24

-----------------------------------------------------------------------------
(* The steps of the specification *)

\* The step from c and h to d and g keeps the invariant and the units.
Steady(l, c, h, d, g) == System(l, d, g) /\ Units(d, g) = Units(c, h)

\* A thread that is in no section is in a call of its own.
LEMMA InCall ==
  ASSUME NEW l \in Loads, NEW c, NEW h, System(l, c, h), NEW t, t = c.cur,
         \/ h[t].at = "top" /\ l.ops[t] # {}
         \/ h[t].at \in {"woken", "check", "unlink", "insert", "copy"}
  PROVE  /\ Calling(c, h) /\ Base(l, c, h) /\ KInv(c) /\ c.cur \in Threads /\ c.stat[c.cur] = "running"
         /\ DOMAIN h = Threads /\ Own(l, c, h[c.cur], c.cur) /\ (h[c.cur].at = "woken" => c.lock = 0)
         /\ c.lock \in Nat
<1>1. c.cur \in Threads /\ Own(l, c, h[c.cur], c.cur) /\ KInv(c)
  BY DEF System, Base
<1>2. c.cur # Idle
  BY <1>1, LoadsAssumption DEF Own
<1>3. Calling(c, h)
  BY <1>2 DEF Calling
<1>4. c.lock \in Nat
  BY <1>1 DEF KInv, Kernel, KType
<1> QED BY <1>1, <1>3, <1>4, CallerFacts

\* A section of a call on a list other than the semaphore's.
LEMMA SectionCall ==
  ASSUME NEW l, NEW c, NEW h, System(l, c, h), Calling(c, h), NEW r, NEW o, NEW n \in Int, NEW arg,
         NEW w \in IpcLists, w # "sem", NEW F, F \subseteq Rest,
         Section(c, r, o, InWait(c, w), F) \/ Section(c, r, o, {}, F),
         o # "mutex_take", r.at = "copy" => o \in {"mq_send", "mq_urgent", "mq_recv"},
         r.at = "block" => c.lock = 0, NotSem(h[c.cur]),
         NEW g, g = Moved(h, c.cur, After(r, o, n, arg))
  PROVE  Steady(l, c, h, r.k, g)
<1>1. Base(l, c, h) /\ NoGrant(c, h[c.cur], c.cur)
  BY DEF System, NoGrant, NotSem
<1>2. Others(h, InWait(c, w)) /\ Others(h, {})
  BY <1>1, OtherLists
<1>3. PICK G : Section(c, r, o, G, F) /\ Others(h, G)
  BY <1>2
<1>4. System(l, r.k, g) /\ Units(r.k, g) = Units(c, h)
  BY <1>1, <1>3, CallKeeps
<1> QED BY <1>4 DEF Steady

\* A call that returns at once.
LEMMA Returns ==
  ASSUME NEW c, KInv(c), NEW x, NEW r, r = Ret(c, x), NEW o, NEW G, NEW F, F \subseteq Objects
  PROVE  Section(c, r, o, G, F) /\ r.at = "top"
<1>1. r.at = "top" /\ r.k = c
  BY DEF Ret
<1>2. SameBut(c, r.k, F)
  BY <1>1, Itself
<1>3. r.at \in {"top", "copy"}
  BY <1>1
<1> QED BY <1>1, <1>2, <1>3, Returned

\* thread->error of the current thread is set.
LEMMA PresetMade ==
  ASSUME NEW c, KInv(c), NEW t, t = c.cur, NEW x \in Errors, NEW b, b = [c EXCEPT !.err[t] = x]
  PROVE  Preset(c, b)
<1>1. DOMAIN c = Fields
  BY DEF KInv, Kernel, KType
<1>2. SameBut(c, b, {"err"}) /\ b.err = [c.err EXCEPT ![c.cur] = x]
  BY <1>1 DEF SameBut, Fields
<1> QED BY <1>2 DEF Preset

\* Where any suspended thread is resumed, no interrupt comes after the check.
Held(l, c, h) ==
  l.any => \A t \in Threads : h[t].at \in {"check", "unlink"} => c.cur = t /\ c.stat[h[t].arg] = "suspend"

\* What the theorems assume of the state before a step, and what a step keeps
\* that does not touch the units of the semaphore.
Safe == load \in Loads /\ IpcLoad(load) /\ System(load, k, th) /\ Held(load, k, th)
Stays == Steady(load, k, th, k', th') /\ load' = load

\* What Go does.
LEMMA Going ==
  ASSUME NEW t, NEW r, NEW o, NEW n, NEW arg, Go(t, r, o, n, arg)
  PROVE  k' = r.k /\ th' = Moved(th, t, After(r, o, n, arg)) /\ load' = load
BY DEF Go, Moved, After

\* A call is entered.
LEMMA Entering ==
  ASSUME Safe, NEW t, NEW o, Enter(t, o)
  PROVE  /\ t = k.cur /\ th[k.cur].at = "top" /\ Calling(k, th) /\ Base(load, k, th) /\ KInv(k)
         /\ k.cur \in Threads /\ k.stat[k.cur] = "running" /\ NotSem(th[k.cur]) /\ k.lock \in Nat
         /\ o \in load.ops[k.cur] /\ load.to \subseteq Int /\ DOMAIN th = Threads
<1>1. t = k.cur /\ th[t].at = "top" /\ load.ops[t] # {} /\ o \in load.ops[t]
  BY DEF Enter
<1>2. load.to \subseteq Int
  BY LoadsAssumption DEF Safe
<1>3. NotSem(th[k.cur])
  BY <1>1 DEF NotSem
<1>4. load \in Loads /\ System(load, k, th)
  BY DEF Safe
<1>5. /\ Calling(k, th) /\ Base(load, k, th) /\ KInv(k) /\ k.cur \in Threads /\ k.stat[k.cur] = "running"
      /\ k.lock \in Nat /\ DOMAIN th = Threads
  BY <1>1, <1>4, InCall
<1> QED BY <1>1, <1>2, <1>3, <1>5

\* The larger of two integers, and the smaller.
LEMMA TwoInts ==
  ASSUME NEW a \in Int, NEW b \in Int
  PROVE  Max({a, b}) \in Int /\ Min({a, b}) \in Int
<1>1. \E x \in {a, b} : \A y \in {a, b} : x >= y
  OBVIOUS
<1>2. \E x \in {a, b} : \A y \in {a, b} : x <= y
  OBVIOUS
<1>3. Max({a, b}) \in {a, b}
  BY <1>1 DEF Max
<1>4. Min({a, b}) \in {a, b}
  BY <1>2 DEF Min
<1> QED BY <1>3, <1>4

\* A call goes on after its thread was woken.
LEMMA Waking ==
  ASSUME Safe, NEW t, NEW o, Woken(t, o)
  PROVE  /\ t = k.cur /\ th[k.cur].at = "woken" /\ th[k.cur].op = o
         /\ Calling(k, th) /\ Base(load, k, th) /\ KInv(k) /\ k.cur \in Threads /\ k.stat[k.cur] = "running"
         /\ k.lock = 0 /\ TimeLeft(k.cur) \in Int /\ o # "mutex_take"
         /\ (o # "sem_take" => NotSem(th[k.cur]))
<1>1. t = k.cur /\ th[t].at = "woken" /\ th[t].op = o
  BY DEF Woken
<1>2. load \in Loads /\ System(load, k, th)
  BY DEF Safe
<1>3. /\ Calling(k, th) /\ Base(load, k, th) /\ KInv(k) /\ k.cur \in Threads /\ k.stat[k.cur] = "running"
      /\ Own(load, k, th[k.cur], k.cur) /\ k.lock = 0
  BY <1>1, <1>2, InCall
<1>4. TimeLeft(k.cur) \in Int
  <2>1. th[k.cur].to \in Int /\ th[k.cur].el \in Int
    BY <1>3 DEF Own
  <2>2. Max({0, th[k.cur].to - th[k.cur].el}) \in Int
    BY <2>1, TwoInts
  <2> QED BY <2>1, <2>2 DEF TimeLeft
<1> QED BY <1>1, <1>3, <1>4 DEF Own, NotSem

\* The calls on the mailbox do not copy.
LEMMA MailAt ==
  ASSUME NEW c, NEW t, NEW v, NEW n
  PROVE  _rt_mb_send_wait(c, t, v, n).at # "copy" /\ _rt_mb_recv(c, t, n).at # "copy"
<1>1. Ret(c, "EFULL").at # "copy" /\ Ret(c, "ETIMEOUT").at # "copy"
  BY DEF Ret
<1>2. ASSUME NEW w PROVE suspend_on(c, t, w, n).at # "copy"
  BY DEF suspend_on, Block
<1>3. ASSUME NEW d, NEW w, NEW x PROVE finish(d, w, x).at # "copy"
  BY DEF finish, Ret, Resched
<1>4. _rt_mb_send_wait(c, t, v, n).at # "copy"
  BY <1>1, <1>2, <1>3 DEF _rt_mb_send_wait
<1>5. _rt_mb_recv(c, t, n).at # "copy"
  BY <1>1, <1>2, <1>3 DEF _rt_mb_recv
<1> QED BY <1>4, <1>5

\* A call with the timeout 0 does not wait.
LEMMA AtOnce ==
  ASSUME NEW c, NEW t, NEW v
  PROVE  /\ _rt_mb_send_wait(c, t, v, 0).at # "block" /\ _rt_mb_recv(c, t, 0).at # "block"
         /\ mq_reserve(c, t, 0).at # "block" /\ mq_unlink(c, t, 0).at # "block"
         /\ rt_mp_alloc(c, t, 0).at # "block"
<1>1. \A d, x : Ret(d, x).at # "block" /\ Copy(d, x).at # "block"
  BY DEF Ret, Copy
<1>2. \A d, w, x : finish(d, w, x).at # "block"
  BY DEF finish, Ret, Resched
<1>3. _rt_mb_send_wait(c, t, v, 0).at # "block"
  BY <1>1, <1>2 DEF _rt_mb_send_wait
<1>4. _rt_mb_recv(c, t, 0).at # "block"
  BY <1>1, <1>2 DEF _rt_mb_recv
<1>5. mq_reserve(c, t, 0).at # "block"
  BY <1>1 DEF mq_reserve
<1>6. mq_unlink(c, t, 0).at # "block"
  BY <1>1 DEF mq_unlink
<1>7. rt_mp_alloc(c, t, 0).at # "block"
  <2>1. CASE c.mp.free = 0
    BY <1>1, <2>1 DEF rt_mp_alloc
  <2>2. CASE c.mp.free # 0
    <3>1. PICK d : d = [c EXCEPT !.mp.free = @ - 1, !.mp.list = Tail(@)]
      OBVIOUS
    <3>2. rt_mp_alloc(c, t, 0) = [Ret(d, "EOK") EXCEPT !.val = Head(c.mp.list)]
      BY <2>2, <3>1 DEF rt_mp_alloc
    <3> QED BY <3>2 DEF Ret
  <2> QED BY <2>1, <2>2
<1> QED BY <1>3, <1>4, <1>5, <1>6, <1>7

\* A section of a call on a list other than the semaphore's, as a step.
LEMMA CallStep ==
  ASSUME Safe, NEW t, t = k.cur, Calling(k, th), NotSem(th[k.cur]), NEW r, NEW o, NEW n \in Int, NEW arg,
         NEW w \in IpcLists, w # "sem", NEW F, F \subseteq Rest,
         Section(k, r, o, InWait(k, w), F) \/ Section(k, r, o, {}, F),
         o # "mutex_take", r.at = "copy" => o \in {"mq_send", "mq_urgent", "mq_recv"},
         r.at = "block" => k.lock = 0, Go(t, r, o, n, arg)
  PROVE  Stays
<1>1. k' = r.k /\ th' = Moved(th, k.cur, After(r, o, n, arg)) /\ load' = load
  BY Going
<1>2. System(load, k, th)
  BY DEF Safe
<1>3. Steady(load, k, th, r.k, th')
  BY <1>1, <1>2, SectionCall
<1> QED BY <1>1, <1>3 DEF Stays

\* A mail is sent or received, or the mailbox is reset.
LEMMA MailSteps ==
  ASSUME Safe, NEW t, \/ MbSend(t) \/ MbSendWoken(t) \/ MbUrgent(t) \/ MbRecv(t) \/ MbRecvWoken(t)
                      \/ MbControl(t)
  PROVE  Stays
<1>1. "mb_send" \in IpcLists /\ "mb_recv" \in IpcLists /\ {"mb"} \subseteq Rest /\ {"mb"} \subseteq Objects
  BY DEF IpcLists, WaitLists, Rest, Objects
<1>2. CASE MbSend(t)
  <2>1. PICK v, n : n \in load.to /\ MayWait(n) /\ Go(t, _rt_mb_send_wait(k, t, v, n), "mb_send", n, v)
    BY <1>2 DEF MbSend
  <2>2. Enter(t, "mb_send")
    BY <1>2 DEF MbSend
  <2>3. PICK r : r = _rt_mb_send_wait(k, t, v, n)
    OBVIOUS
  <2>4. /\ t = k.cur /\ Calling(k, th) /\ KInv(k) /\ k.cur \in Threads /\ k.stat[k.cur] = "running"
        /\ NotSem(th[k.cur]) /\ n \in Int
    BY <2>1, <2>2, Entering
  <2>5. Section(k, r, "mb_send", InWait(k, "mb_recv"), {"mb"}) /\ r.at # "copy"
    BY <2>3, <2>4, MailSections, MailAt
  <2>6. Go(t, r, "mb_send", n, v) /\ (r.at = "block" => k.lock = 0)
    BY <2>1, <2>3, AtOnce DEF MayWait, MayBlock
  <2> QED BY <1>1, <2>4, <2>5, <2>6, CallStep
<1>3. CASE MbRecv(t)
  <2>1. PICK n \in load.to : MayWait(n) /\ Go(t, _rt_mb_recv(k, t, n), "mb_recv", n, None)
    BY <1>3 DEF MbRecv
  <2>2. Enter(t, "mb_recv")
    BY <1>3 DEF MbRecv
  <2>3. PICK r : r = _rt_mb_recv(k, t, n)
    OBVIOUS
  <2>4. /\ t = k.cur /\ Calling(k, th) /\ KInv(k) /\ k.cur \in Threads /\ k.stat[k.cur] = "running"
        /\ NotSem(th[k.cur]) /\ n \in Int
    BY <2>1, <2>2, Entering
  <2>5. Section(k, r, "mb_recv", InWait(k, "mb_send"), {"mb"}) /\ r.at # "copy"
    BY <2>3, <2>4, MailSections, MailAt
  <2>6. Go(t, r, "mb_recv", n, None) /\ (r.at = "block" => k.lock = 0)
    BY <2>1, <2>3, AtOnce DEF MayWait, MayBlock
  <2> QED BY <1>1, <2>4, <2>5, <2>6, CallStep
<1>4. CASE MbSendWoken(t)
  <2>1. PICK n, v, r : /\ n = TimeLeft(t) /\ v = th[t].arg
                       /\ r = IF k.err[t] # "EOK" THEN Ret(k, k.err[t]) ELSE _rt_mb_send_wait(k, t, v, n)
    OBVIOUS
  <2>2. Woken(t, "mb_send") /\ Go(t, r, "mb_send", n, v)
    BY <1>4, <2>1 DEF MbSendWoken
  <2>3. /\ t = k.cur /\ Calling(k, th) /\ KInv(k) /\ k.cur \in Threads /\ k.stat[k.cur] = "running"
        /\ NotSem(th[k.cur]) /\ n \in Int /\ k.lock = 0
    BY <2>1, <2>2, Waking
  <2>4. Section(k, r, "mb_send", InWait(k, "mb_recv"), {"mb"}) /\ r.at # "copy"
    <3>1. CASE r = Ret(k, k.err[t])
      BY <1>1, <2>3, <3>1, Returns
    <3>2. CASE r = _rt_mb_send_wait(k, t, v, n)
      BY <2>3, <3>2, MailSections, MailAt
    <3> QED BY <2>1, <3>1, <3>2
  <2> QED BY <1>1, <2>2, <2>3, <2>4, CallStep
<1>5. CASE MbRecvWoken(t)
  <2>1. PICK n, r : /\ n = TimeLeft(t)
                    /\ r = IF k.err[t] # "EOK" THEN Ret(k, k.err[t]) ELSE _rt_mb_recv(k, t, n)
    OBVIOUS
  <2>2. Woken(t, "mb_recv") /\ Go(t, r, "mb_recv", n, None)
    BY <1>5, <2>1 DEF MbRecvWoken
  <2>3. /\ t = k.cur /\ Calling(k, th) /\ KInv(k) /\ k.cur \in Threads /\ k.stat[k.cur] = "running"
        /\ NotSem(th[k.cur]) /\ n \in Int /\ k.lock = 0
    BY <2>1, <2>2, Waking
  <2>4. Section(k, r, "mb_recv", InWait(k, "mb_send"), {"mb"}) /\ r.at # "copy"
    <3>1. CASE r = Ret(k, k.err[t])
      BY <1>1, <2>3, <3>1, Returns
    <3>2. CASE r = _rt_mb_recv(k, t, n)
      BY <2>3, <3>2, MailSections, MailAt
    <3> QED BY <2>1, <3>1, <3>2
  <2> QED BY <1>1, <2>2, <2>3, <2>4, CallStep
<1>6. CASE MbUrgent(t)
  <2>1. PICK v, r : r = rt_mb_urgent(k, v) /\ Go(t, r, "mb_urgent", 0, None)
    BY <1>6 DEF MbUrgent
  <2>2. t = k.cur /\ Calling(k, th) /\ KInv(k) /\ NotSem(th[k.cur])
    BY <1>6, Entering DEF MbUrgent
  <2>3. Section(k, r, "mb_urgent", InWait(k, "mb_recv"), {"mb"}) /\ r.at \in {"top", "resched"}
    BY <2>1, <2>2, MailOthers
  <2> QED BY <1>1, <2>1, <2>2, <2>3, CallStep
<1>7. CASE MbControl(t)
  <2>1. PICK r : r = rt_mb_control(k) /\ Go(t, r, "mb_control", 0, None)
    BY <1>7 DEF MbControl
  <2>2. t = k.cur /\ Calling(k, th) /\ KInv(k) /\ NotSem(th[k.cur])
    BY <1>7, Entering DEF MbControl
  <2>3. Section(k, r, "mb_control", {}, {"mb"}) /\ r.at = "resched"
    BY <2>1, <2>2, MailOthers
  <2> QED BY <1>1, <2>1, <2>2, <2>3, CallStep
<1> QED BY <1>2, <1>3, <1>4, <1>5, <1>6, <1>7

\* A message is sent or received, or the message queue is reset.
LEMMA MsgSteps ==
  ASSUME Safe, NEW t, \/ MqSend(t) \/ MqSendWoken(t) \/ MqUrgent(t) \/ MqRecv(t) \/ MqRecvWoken(t)
                      \/ MqCopied(t) \/ MqControl(t)
  PROVE  Stays
<1>1. "mq_send" \in IpcLists /\ "mq_recv" \in IpcLists /\ {"mq"} \subseteq Rest /\ {"mq"} \subseteq Objects
  BY DEF IpcLists, WaitLists, Rest, Objects
<1>2. CASE MqSend(t)
  <2>1. PICK v, n : n \in load.to /\ MayWait(n) /\ Go(t, mq_reserve(k, t, n), "mq_send", n, v)
    BY <1>2 DEF MqSend
  <2>2. Enter(t, "mq_send")
    BY <1>2 DEF MqSend
  <2>3. PICK r : r = mq_reserve(k, t, n)
    OBVIOUS
  <2>4. /\ t = k.cur /\ Calling(k, th) /\ KInv(k) /\ k.cur \in Threads /\ k.stat[k.cur] = "running"
        /\ NotSem(th[k.cur]) /\ n \in Int
    BY <2>1, <2>2, Entering
  <2>5. Section(k, r, "mq_send", {}, {"mq"})
    BY <2>3, <2>4, MsgSections
  <2>6. Go(t, r, "mq_send", n, v) /\ (r.at = "block" => k.lock = 0)
    BY <2>1, <2>3, AtOnce DEF MayWait, MayBlock
  <2> QED BY <1>1, <2>4, <2>5, <2>6, CallStep
<1>3. CASE MqRecv(t)
  <2>1. PICK n \in load.to : MayWait(n) /\ Go(t, mq_unlink(k, t, n), "mq_recv", n, None)
    BY <1>3 DEF MqRecv
  <2>2. Enter(t, "mq_recv")
    BY <1>3 DEF MqRecv
  <2>3. PICK r : r = mq_unlink(k, t, n)
    OBVIOUS
  <2>4. /\ t = k.cur /\ Calling(k, th) /\ KInv(k) /\ k.cur \in Threads /\ k.stat[k.cur] = "running"
        /\ NotSem(th[k.cur]) /\ n \in Int
    BY <2>1, <2>2, Entering
  <2>5. Section(k, r, "mq_recv", {}, {"mq"})
    BY <2>3, <2>4, MsgSections
  <2>6. Go(t, r, "mq_recv", n, None) /\ (r.at = "block" => k.lock = 0)
    BY <2>1, <2>3, AtOnce DEF MayWait, MayBlock
  <2> QED BY <1>1, <2>4, <2>5, <2>6, CallStep
<1>4. CASE MqSendWoken(t)
  <2>1. PICK n, v, r : /\ n = TimeLeft(t) /\ v = th[t].arg
                       /\ r = IF k.err[t] # "EOK" THEN Ret(k, k.err[t]) ELSE mq_reserve(k, t, n)
    OBVIOUS
  <2>2. Woken(t, "mq_send") /\ Go(t, r, "mq_send", n, v)
    BY <1>4, <2>1 DEF MqSendWoken
  <2>3. /\ t = k.cur /\ Calling(k, th) /\ KInv(k) /\ k.cur \in Threads /\ k.stat[k.cur] = "running"
        /\ NotSem(th[k.cur]) /\ n \in Int /\ k.lock = 0
    BY <2>1, <2>2, Waking
  <2>4. Section(k, r, "mq_send", {}, {"mq"})
    <3>1. CASE r = Ret(k, k.err[t])
      BY <1>1, <2>3, <3>1, Returns
    <3>2. CASE r = mq_reserve(k, t, n)
      BY <2>3, <3>2, MsgSections
    <3> QED BY <2>1, <3>1, <3>2
  <2> QED BY <1>1, <2>2, <2>3, <2>4, CallStep
<1>5. CASE MqRecvWoken(t)
  <2>1. PICK n, r : /\ n = TimeLeft(t)
                    /\ r = IF k.err[t] # "EOK" THEN Ret(k, k.err[t]) ELSE mq_unlink(k, t, n)
    OBVIOUS
  <2>2. Woken(t, "mq_recv") /\ Go(t, r, "mq_recv", n, None)
    BY <1>5, <2>1 DEF MqRecvWoken
  <2>3. /\ t = k.cur /\ Calling(k, th) /\ KInv(k) /\ k.cur \in Threads /\ k.stat[k.cur] = "running"
        /\ NotSem(th[k.cur]) /\ n \in Int /\ k.lock = 0
    BY <2>1, <2>2, Waking
  <2>4. Section(k, r, "mq_recv", {}, {"mq"})
    <3>1. CASE r = Ret(k, k.err[t])
      BY <1>1, <2>3, <3>1, Returns
    <3>2. CASE r = mq_unlink(k, t, n)
      BY <2>3, <3>2, MsgSections
    <3> QED BY <2>1, <3>1, <3>2
  <2> QED BY <1>1, <2>2, <2>3, <2>4, CallStep
<1>6. CASE MqUrgent(t)
  <2>1. PICK v, n : n = 0 /\ Go(t, mq_reserve(k, t, n), "mq_urgent", n, v)
    BY <1>6 DEF MqUrgent
  <2>2. PICK r : r = mq_reserve(k, t, n)
    OBVIOUS
  <2>3. /\ t = k.cur /\ Calling(k, th) /\ KInv(k) /\ k.cur \in Threads /\ k.stat[k.cur] = "running"
        /\ NotSem(th[k.cur])
    BY <1>6, Entering DEF MqUrgent
  <2>4. n \in Int
    BY <2>1
  <2>5. Section(k, r, "mq_send", {}, {"mq"}) /\ r.at # "resched" /\ r.at # "block"
    BY <2>1, <2>2, <2>3, <2>4, MsgSections
  <2>6. Section(k, r, "mq_urgent", {}, {"mq"})
    BY <2>5 DEF Section
  <2>7. Go(t, r, "mq_urgent", n, v)
    BY <2>1, <2>2
  <2> QED BY <1>1, <2>3, <2>4, <2>5, <2>6, <2>7, CallStep
<1>7. CASE MqCopied(t)
  <2>1. k.cur = t /\ th[t].at = "copy"
    BY <1>7 DEF MqCopied
  <2>2. PICK o, s, v : o = th[t].op /\ s = th[t].slot /\ v = th[t].arg
    OBVIOUS
  <2>3. /\ Calling(k, th) /\ KInv(k) /\ Own(load, k, th[k.cur], k.cur)
    BY <2>1, InCall DEF Safe
  <2>4. o \in {"mq_send", "mq_urgent", "mq_recv"}
    BY <2>1, <2>2, <2>3 DEF Own
  <2>5. PICK r : /\ Go(t, r, o, 0, None)
                 /\ \/ o = "mq_send" /\ r = mq_link(k, s, v)
                    \/ o = "mq_urgent" /\ r = mq_link_urgent(k, s, v)
                    \/ o = "mq_recv" /\ r = mq_free(k, s)
    <3>1. CASE o = "mq_send"
      BY <1>7, <2>2, <3>1 DEF MqCopied
    <3>2. CASE o = "mq_urgent"
      BY <1>7, <2>2, <3>2 DEF MqCopied
    <3>3. CASE o = "mq_recv"
      BY <1>7, <2>2, <3>3 DEF MqCopied
    <3> QED BY <2>4, <3>1, <3>2, <3>3
  <2>6. PICK w : /\ w \in {"mq_recv", "mq_send"}
                 /\ Section(k, r, o, InWait(k, w), {"mq"}) /\ r.at \in {"top", "resched"}
    BY <2>3, <2>5, MsgCopied
  <2>7. NotSem(th[k.cur])
    BY <2>1 DEF NotSem
  <2>8. o # "mutex_take" /\ w \in IpcLists /\ w # "sem"
    BY <1>1, <2>4, <2>6
  <2> QED BY <1>1, <2>1, <2>3, <2>5, <2>6, <2>7, <2>8, CallStep
<1>8. CASE MqControl(t)
  <2>1. PICK r : r = rt_mq_control(k) /\ Go(t, r, "mq_control", 0, None)
    BY <1>8 DEF MqControl
  <2>2. t = k.cur /\ Calling(k, th) /\ KInv(k) /\ NotSem(th[k.cur])
    BY <1>8, Entering DEF MqControl
  <2>3. Section(k, r, "mq_control", {}, {"mq"}) /\ r.at = "resched"
    BY <2>1, <2>2, MsgReset
  <2> QED BY <1>1, <2>1, <2>2, <2>3, CallStep
<1> QED BY <1>2, <1>3, <1>4, <1>5, <1>6, <1>7, <1>8

\* A section that sets thread->error first, as a step.
LEMMA PresetStep ==
  ASSUME Safe, NEW t, t = k.cur, Calling(k, th), NotSem(th[k.cur]), NEW r, NEW o, NEW n \in Int, NEW arg,
         NEW F, F \subseteq Rest, NEW b, Preset(k, b), Section(b, r, o, {}, F), r.at \in {"top", "block"},
         o # "mutex_take", r.at = "block" => k.lock = 0, Go(t, r, o, n, arg)
  PROVE  Stays
<1>1. k' = r.k /\ th' = Moved(th, k.cur, After(r, o, n, arg)) /\ load' = load
  BY Going
<1>2. System(load, k, th)
  BY DEF Safe
<1>3. System(load, r.k, th') /\ Units(r.k, th') = Units(k, th)
  BY <1>1, <1>2, PresetCall
<1> QED BY <1>1, <1>3 DEF Stays, Steady

\* A block is taken from the memory pool or given back.
LEMMA PoolSteps ==
  ASSUME Safe, NEW t, MpAlloc(t) \/ MpWoken(t) \/ MpFree(t)
  PROVE  Stays
<1>1. "mp" \in IpcLists /\ {"mp"} \subseteq Rest /\ {"mp"} \subseteq Objects
  BY DEF IpcLists, WaitLists, Rest, Objects
<1>2. ASSUME NEW n, NEW r, r = rt_mp_alloc(k, t, n), Go(t, r, "mp_alloc", n, None),
             t = k.cur, Calling(k, th), KInv(k), k.cur \in Threads, k.stat[k.cur] = "running",
             NotSem(th[k.cur]), n \in Int, r.at = "block" => k.lock = 0
      PROVE  Stays
  <2>1. PICK b : Preset(k, b) /\ Section(b, r, "mp_alloc", {}, {"mp"}) /\ r.at \in {"top", "block"}
    BY <1>2, PoolTaken
  <2> QED BY <1>1, <1>2, <2>1, PresetStep
<1>3. CASE MpAlloc(t)
  <2>1. PICK n \in load.to : MayWait(n) /\ Go(t, rt_mp_alloc(k, t, n), "mp_alloc", n, None)
    BY <1>3 DEF MpAlloc
  <2>2. Enter(t, "mp_alloc")
    BY <1>3 DEF MpAlloc
  <2>3. /\ t = k.cur /\ Calling(k, th) /\ KInv(k) /\ k.cur \in Threads /\ k.stat[k.cur] = "running"
        /\ NotSem(th[k.cur]) /\ n \in Int
    BY <2>1, <2>2, Entering
  <2>4. PICK r : r = rt_mp_alloc(k, t, n)
    OBVIOUS
  <2>5. Go(t, r, "mp_alloc", n, None) /\ (r.at = "block" => k.lock = 0)
    BY <2>1, <2>4, AtOnce DEF MayWait, MayBlock
  <2> QED BY <1>2, <2>3, <2>4, <2>5
<1>4. CASE MpWoken(t)
  <2>1. PICK n, r : /\ n = TimeLeft(t)
                    /\ r = IF k.err[t] # "EOK" THEN Ret(k, k.err[t]) ELSE rt_mp_alloc(k, t, n)
    OBVIOUS
  <2>2. Woken(t, "mp_alloc") /\ Go(t, r, "mp_alloc", n, None)
    BY <1>4, <2>1 DEF MpWoken
  <2>3. /\ t = k.cur /\ Calling(k, th) /\ KInv(k) /\ k.cur \in Threads /\ k.stat[k.cur] = "running"
        /\ NotSem(th[k.cur]) /\ n \in Int /\ k.lock = 0
    BY <2>1, <2>2, Waking
  <2>4. CASE r = Ret(k, k.err[t])
    <3>1. Section(k, r, "mp_alloc", {}, {"mp"}) /\ r.at = "top"
      BY <1>1, <2>3, <2>4, Returns
    <3> QED BY <1>1, <2>2, <2>3, <3>1, CallStep
  <2>5. CASE r = rt_mp_alloc(k, t, n)
    BY <1>2, <2>2, <2>3, <2>5
  <2> QED BY <2>1, <2>4, <2>5
<1>5. CASE MpFree(t)
  <2>1. PICK b, r : r = rt_mp_free(k, b) /\ Go(t, r, "mp_free", 0, None)
    BY <1>5 DEF MpFree
  <2>2. t = k.cur /\ Calling(k, th) /\ KInv(k) /\ NotSem(th[k.cur])
    BY <1>5, Entering DEF MpFree
  <2>3. Section(k, r, "mp_free", InWait(k, "mp"), {"mp"}) /\ r.at \in {"top", "resched"}
    BY <2>1, <2>2, PoolFreed
  <2> QED BY <1>1, <2>1, <2>2, <2>3, CallStep
<1> QED BY <1>3, <1>4, <1>5

\* The event object.
LEMMA EventSteps ==
  ASSUME Safe, NEW t, EventSend(t) \/ EventRecv(t) \/ EventWoken(t) \/ EventControl(t)
  PROVE  Stays
<1>1. /\ "ev" \in IpcLists /\ {"ev"} \subseteq Rest /\ EvFields \subseteq Rest /\ EvWait \subseteq Rest
      /\ EvWait \subseteq Objects
  BY DEF IpcLists, WaitLists, Rest, Objects, EvFields, EvWait
<1>2. CASE EventSend(t)
  <2>1. PICK set, r : r = rt_event_send(k, set) /\ Go(t, r, "event_send", 0, None)
    BY <1>2 DEF EventSend
  <2>2. t = k.cur /\ Calling(k, th) /\ KInv(k) /\ NotSem(th[k.cur])
    BY <1>2, Entering DEF EventSend
  <2>3. Section(k, r, "event_send", InWait(k, "ev"), EvFields) /\ r.at \in {"top", "resched"}
    BY <2>1, <2>2, EventSent
  <2> QED BY <1>1, <2>1, <2>2, <2>3, CallStep
<1>3. CASE EventRecv(t)
  <2>1. PICK set, opt, n : /\ n \in load.to
                           /\ Go(t, _rt_event_recv([k EXCEPT !.err[t] = "EINTR"], t, set, opt, n),
                                 "event_recv", n, None)
    BY <1>3 DEF EventRecv
  <2>2. Enter(t, "event_recv") /\ k.lock = 0
    BY <1>3 DEF EventRecv, MayBlock
  <2>3. PICK a : a = [k EXCEPT !.err[t] = "EINTR"]
    OBVIOUS
  <2>4. PICK r : r = _rt_event_recv(a, t, set, opt, n)
    OBVIOUS
  <2>5. /\ t = k.cur /\ Calling(k, th) /\ KInv(k) /\ k.cur \in Threads /\ k.stat[k.cur] = "running"
        /\ NotSem(th[k.cur]) /\ n \in Int
    BY <2>1, <2>2, Entering
  <2>6. Preset(k, a)
    <3>1. "EINTR" \in Errors
      BY DEF Errors
    <3> QED BY <2>3, <2>5, <3>1, PresetMade
  <2>7. Go(t, r, "event_recv", n, None)
    BY <2>1, <2>3, <2>4
  <2>8. k' = r.k /\ th' = Moved(th, k.cur, After(r, "event_recv", n, None)) /\ load' = load
    BY <2>5, <2>7, Going
  <2>9. System(load, k, th)
    BY DEF Safe
  <2>10. /\ System(load, a, th) /\ Calling(a, th) /\ Units(a, th) = Units(k, th) /\ a.cur = k.cur
         /\ a.lock = k.lock /\ KInv(a) /\ a.stat = k.stat
    <3>1. KInv(a) /\ a.stat = k.stat
      BY <2>5, <2>6, PresetFacts
    <3> QED BY <2>5, <2>6, <2>9, <3>1, PresetKeeps
  <2>11. PICK b : Preset(a, b) /\ Section(b, r, "event_recv", {}, EvWait) /\ r.at \in {"top", "block"}
    BY <2>4, <2>5, <2>10, EventReceived
  <2>12. System(load, r.k, th') /\ Units(r.k, th') = Units(a, th)
    <3>1. th' = Moved(th, a.cur, After(r, "event_recv", n, None)) /\ a.lock = 0 /\ NotSem(th[a.cur])
      BY <2>2, <2>5, <2>8, <2>10
    <3> QED BY <1>1, <2>5, <2>10, <2>11, <3>1, PresetCall
  <2> QED BY <2>8, <2>10, <2>12 DEF Stays, Steady
<1>4. CASE EventWoken(t)
  <2>1. PICK r : /\ r = [Ret([k EXCEPT !.evset[t] = {}, !.evinfo[t] = NoOption], k.err[t])
                           EXCEPT !.val = k.evset[t]]
                 /\ Go(t, r, None, 0, None)
    BY <1>4 DEF EventWoken
  <2>2. Woken(t, "event_recv")
    BY <1>4 DEF EventWoken
  <2>3. t = k.cur /\ Calling(k, th) /\ KInv(k) /\ NotSem(th[k.cur])
    BY <2>2, Waking
  <2>4. r.at = "top" /\ r.k = [k EXCEPT !.evset[t] = {}, !.evinfo[t] = NoOption] /\ Go(t, r, None, 0, None)
    BY <2>1 DEF Ret
  <2>5. SameBut(k, r.k, EvWait)
    <3>1. DOMAIN k = Fields
      BY <2>3 DEF KInv, Kernel, KType
    <3> QED BY <2>4, <3>1 DEF SameBut, Fields, EvWait
  <2>6. r.at = "top" /\ Go(t, r, None, 0, None)
    BY <2>4
  <2>7. Section(k, r, None, {}, EvWait)
    <3>1. r.at \in {"top", "copy"}
      BY <2>6
    <3> QED BY <1>1, <2>3, <2>5, <3>1, Returned
  <2>8. PICK o, n : o = None /\ n = 0
    OBVIOUS
  <2>9. /\ o # "mutex_take" /\ n \in Int /\ Section(k, r, o, {}, EvWait) /\ Go(t, r, o, n, o)
        /\ r.at # "copy" /\ r.at # "block"
    BY <2>6, <2>7, <2>8 DEF None
  <2> QED BY <1>1, <2>3, <2>9, CallStep
<1>5. CASE EventControl(t)
  <2>1. PICK r : r = rt_event_control(k) /\ Go(t, r, "event_control", 0, None)
    BY <1>5 DEF EventControl
  <2>2. t = k.cur /\ Calling(k, th) /\ KInv(k) /\ NotSem(th[k.cur])
    BY <1>5, Entering DEF EventControl
  <2>3. Section(k, r, "event_control", {}, {"ev"}) /\ r.at = "resched"
    BY <2>1, <2>2, SemEventReset
  <2> QED BY <1>1, <2>1, <2>2, <2>3, CallStep
<1> QED BY <1>2, <1>3, <1>4, <1>5

\* rt_schedule ends a call or gives up the processor.
LEMMA SchedStep ==
  ASSUME Safe, NEW t, Sched(t)
  PROVE  Stays
<1>1. k.cur = t /\ th[t].at \in {"block", "resched"} /\ load' = load
  BY DEF Sched
<1>2. System(load, k, th) /\ KInv(k) /\ DOMAIN th = Threads /\ k.cur \in Threads
  BY DEF Safe, System, Base
<1>3. PICK b : b = IF th[t].op = "sleep" THEN [k EXCEPT !.err[t] = "EINTR"] ELSE k
  OBVIOUS
<1>4. k' = rt_schedule(b)
  BY <1>3 DEF Sched
<1>5. b = k \/ (th[t].op = "sleep" /\ Preset(k, b))
  <2>1. CASE th[t].op = "sleep"
    <3>1. "EINTR" \in Errors
      BY DEF Errors
    <3>2. b = [k EXCEPT !.err[t] = "EINTR"]
      BY <1>3, <2>1
    <3> QED BY <1>1, <1>2, <2>1, <3>1, <3>2, PresetMade
  <2>2. CASE th[t].op # "sleep"
    BY <1>3, <2>2
  <2> QED BY <2>1, <2>2
<1>6. Goes(th, th', t, IF th[t].at = "block" THEN [th[t] EXCEPT !.at = "woken"] ELSE Top)
  BY <1>1, <1>2 DEF Sched, Goes
<1>7. System(load, k', th') /\ Units(k', th') = Units(k, th)
  BY <1>1, <1>2, <1>4, <1>5, <1>6, SchedKeeps
<1> QED BY <1>1, <1>7 DEF Stays, Steady

\* A thread gives up the processor or suspends itself.
LEMMA WaitSteps ==
  ASSUME Safe, NEW t, Yield(t) \/ Sleep(t) \/ SleepWoken(t) \/ SuspendSelf(t) \/ Exit(t)
  PROVE  Stays
<1>1. System(load, k, th)
  BY DEF Safe
<1>2. "ev" \in IpcLists /\ "ev" # "sem"
  BY DEF IpcLists, WaitLists
<1>3. CASE Yield(t)
  <2>1. PICK r : r = Resched(Yielding(k, t), "EOK") /\ Go(t, r, "yield", 0, None)
    BY <1>3 DEF Yield, Yielding
  <2>2. t = k.cur /\ Calling(k, th) /\ KInv(k) /\ NotSem(th[k.cur]) /\ k.cur \in Threads
    BY <1>3, Entering DEF Yield
  <2>3. Section(k, r, "yield", {}, {}) /\ r.at = "resched"
    BY <2>1, <2>2, YieldSection
  <2>4. PICK F : F = {} /\ F \subseteq Rest /\ Section(k, r, "yield", {}, F)
    BY <2>3
  <2> QED BY <1>2, <2>1, <2>2, <2>3, <2>4, CallStep
<1>4. CASE Sleep(t)
  <2>1. Enter(t, "sleep") /\ k.lock = 0
    BY <1>4 DEF Sleep, MayBlock
  <2>2. PICK a : a = [k EXCEPT !.err[t] = "EOK"]
    OBVIOUS
  <2>3. PICK n \in load.to : /\ n > 0
                             /\ Go(t, Block(rt_timer_start(rt_thread_suspend(a, t), t, n)), "sleep", n, None)
    BY <1>4, <2>2 DEF Sleep
  <2>4. t = k.cur /\ Calling(k, th) /\ KInv(k) /\ n \in Int /\ th[k.cur].at = "top"
    BY <2>1, <2>3, Entering
  <2>5. Preset(k, a)
    <3>1. "EOK" \in Errors
      BY DEF Errors
    <3> QED BY <2>2, <2>4, <3>1, PresetMade
  <2>6. PICK d : d = rt_timer_start(rt_thread_suspend(a, t), t, n)
    OBVIOUS
  <2>7. PICK r : r = Block(d)
    OBVIOUS
  <2>8. k' = r.k /\ th' = Moved(th, k.cur, After(r, "sleep", n, None)) /\ load' = load
    BY <2>3, <2>4, <2>6, <2>7, Going
  <2>9. n > 0 /\ d = rt_timer_start(rt_thread_suspend(a, k.cur), k.cur, n)
    BY <2>3, <2>4, <2>6
  <2>10. System(load, r.k, th') /\ Units(r.k, th') = Units(k, th)
    BY ONLY <1>1, <2>1, <2>4, <2>5, <2>7, <2>8, <2>9, SleepKeeps
  <2> QED BY <2>8, <2>10 DEF Stays, Steady
<1>5. CASE SleepWoken(t)
  <2>1. Woken(t, "sleep")
    BY <1>5 DEF SleepWoken
  <2>2. t = k.cur /\ Calling(k, th) /\ KInv(k) /\ NotSem(th[k.cur]) /\ k.cur \in Threads
    BY <2>1, Waking
  <2>3. PICK x : x = IF k.err[t] = "ETIMEOUT" THEN "EOK" ELSE k.err[t]
    OBVIOUS
  <2>4. x \in Errors
    BY <2>2, <2>3 DEF KInv, Kernel, KType, Errors
  <2>5. PICK b : b = [k EXCEPT !.err[t] = x]
    OBVIOUS
  <2>6. Preset(k, b)
    BY <2>2, <2>4, <2>5, PresetMade
  <2>7. PICK r : r = Ret(b, "EOK")
    OBVIOUS
  <2>8. Go(t, r, None, 0, None)
    BY <1>5, <2>3, <2>5, <2>7 DEF SleepWoken
  <2>9. KInv(b)
    BY <2>2, <2>6, PresetFacts
  <2>10. PICK o, n, F : o = None /\ n = 0 /\ F = {}
    OBVIOUS
  <2>11. o # "mutex_take" /\ n \in Int /\ F \subseteq Rest /\ F \subseteq Objects /\ Go(t, r, o, n, o)
    BY <2>8, <2>10 DEF None
  <2>12. Section(b, r, o, {}, F) /\ r.at = "top"
    BY <2>7, <2>9, <2>11, Returns
  <2>13. r.at \in {"top", "block"} /\ r.at # "block"
    BY <2>12
  <2> QED BY ONLY Safe, <2>2, <2>6, <2>11, <2>12, <2>13, PresetStep
<1>6. CASE SuspendSelf(t)
  <2>1. Enter(t, "suspend") /\ k.lock = 0
    BY <1>6 DEF SuspendSelf, MayBlock
  <2>2. t = k.cur /\ Calling(k, th) /\ th[k.cur].at = "top"
    BY <2>1, Entering
  <2>3. PICK r : r = Resched(rt_thread_suspend(k, k.cur), "EOK") /\ Go(t, r, "suspend", 0, None)
    BY <1>6, <2>2 DEF SuspendSelf
  <2>4. k' = r.k /\ th' = Moved(th, k.cur, After(r, "suspend", 0, None)) /\ load' = load
    BY <2>2, <2>3, Going
  <2>5. System(load, r.k, th') /\ Units(r.k, th') = Units(k, th)
    BY <1>1, <2>1, <2>2, <2>3, <2>4, SuspendKeeps
  <2> QED BY <2>4, <2>5 DEF Stays, Steady
<1>7. CASE Exit(t)
  <2>1. Enter(t, "exit") /\ k.lock = 0
    BY <1>7 DEF Exit, MayBlock
  <2>2. t = k.cur /\ Calling(k, th) /\ th[k.cur].at = "top"
    BY <2>1, Entering
  <2>3. PICK r : r = Resched(_thread_exit(k, k.cur), "EOK") /\ Go(t, r, "exit", 0, None)
    BY <1>7, <2>2 DEF Exit
  <2>4. k' = r.k /\ th' = Moved(th, k.cur, After(r, "exit", 0, None)) /\ load' = load
    BY <2>2, <2>3, Going
  <2>5. System(load, r.k, th') /\ Units(r.k, th') = Units(k, th)
    BY <1>1, <2>1, <2>2, <2>3, <2>4, ExitKeeps
  <2> QED BY <2>4, <2>5 DEF Stays, Steady
<1> QED BY <1>3, <1>4, <1>5, <1>6, <1>7

\* The thread that is about to be unlinked is suspended.
LEMMA StillSuspended ==
  ASSUME Safe, NEW t \in Threads, th[t].at \in {"check", "unlink"}
  PROVE  /\ th[t].arg \in Threads /\ k.stat[th[t].arg] = "suspend" /\ load.ops[t] \cap Starts # {}
         /\ th[t].op \in Starts /\ (load.any \/ Loose(k, th[t].arg))
<1>1. Own(load, k, th[t], t)
  BY DEF Safe, System, Base
<1>2. CASE load.any
  BY <1>1, <1>2 DEF Own, Safe, Held
<1>3. CASE ~load.any
  BY <1>1, <1>3 DEF Own, Aims, Loose
<1> QED BY <1>2, <1>3

\* A thread resumes or starts another one.
LEMMA StartSteps ==
  ASSUME Safe, NEW t, Resume(t) \/ Startup(t) \/ StartupCheck(t) \/ Unlink(t) \/ Insert(t)
  PROVE  Stays
<1>1. System(load, k, th) /\ IpcLoad(load) /\ load \in Loads
  BY DEF Safe
<1>2. ASSUME NEW c, NEW u \in Threads, NEW a \in {"check", "unlink"}, NEW o \in Starts,
             System(load, c, th), Calling(c, th), c.cur = t, th[c.cur].at \in {"top", "check"},
             load.any \/ Loose(c, u), load.ops[c.cur] \cap Starts # {},
             Go(t, Between(c, a), o, 0, u), Units(c, th) = Units(k, th)
      PROVE  Stays
  <2>1. PICK r : r = Between(c, a)
    OBVIOUS
  <2>2. k' = r.k /\ th' = Moved(th, c.cur, After(r, o, 0, u)) /\ load' = load
    BY <1>2, <2>1, Going
  <2>3. System(load, r.k, th') /\ Units(r.k, th') = Units(c, th)
    BY ONLY <1>2, <2>1, <2>2, AimKeeps
  <2> QED BY <1>2, <2>2, <2>3 DEF Stays, Steady
<1>3. CASE Resume(t)
  <2>1. PICK u \in Threads : /\ k.stat[u] = "suspend" /\ (th[u].at = "top" \/ load.any)
                             /\ Go(t, check_suspended(k, u), "resume", 0, u)
    BY <1>3 DEF Resume
  <2>2. /\ t = k.cur /\ Calling(k, th) /\ th[k.cur].at = "top" /\ "resume" \in load.ops[k.cur]
    BY <1>3, Entering DEF Resume
  <2>3. load.ops[k.cur] \cap Starts # {} /\ "resume" \in Starts
    BY <2>2 DEF Starts
  <2>4. Go(t, Between(k, "unlink"), "resume", 0, u)
    BY <2>1 DEF check_suspended
  <2>5. load.any \/ Loose(k, u)
    <3>1. Own(load, k, th[u], u) /\ WaitOK(k)
      BY <1>1 DEF System, Base, KInv, Kernel
    <3> QED BY <2>1, <3>1 DEF Own, WaitOK, Loose, Waits
  <2> QED BY <1>1, <1>2, <2>2, <2>3, <2>4, <2>5
<1>4. CASE Startup(t)
  <2>1. PICK u \in Threads : k.stat[u] = "init" /\ Go(t, Between(Suspending(k, u), "check"), "startup", 0, u)
    BY <1>4 DEF Startup, Suspending
  <2>2. /\ t = k.cur /\ Calling(k, th) /\ th[k.cur].at = "top" /\ "startup" \in load.ops[k.cur]
    BY <1>4, Entering DEF Startup
  <2>3. load.ops[k.cur] \cap Starts # {} /\ "startup" \in Starts
    BY <2>2 DEF Starts
  <2>4. PICK c : c = Suspending(k, u)
    OBVIOUS
  <2>5. System(load, c, th) /\ Calling(c, th) /\ Units(c, th) = Units(k, th) /\ c.cur = k.cur /\ Loose(c, u)
    BY <1>1, <2>1, <2>2, <2>4, MadeSuspended
  <2> QED BY <1>2, <2>1, <2>2, <2>3, <2>4, <2>5
<1>5. CASE StartupCheck(t) \/ Unlink(t)
  <2>1. k.cur = t /\ th[t].at \in {"check", "unlink"}
    BY <1>5 DEF StartupCheck, Unlink
  <2>2. Calling(k, th) /\ t \in Threads
    BY <1>1, <2>1, InCall
  <2>3. PICK u, o : u = th[t].arg /\ o = th[t].op
    OBVIOUS
  <2>4. /\ u \in Threads /\ k.stat[u] = "suspend" /\ load.ops[k.cur] \cap Starts # {} /\ o \in Starts
        /\ (load.any \/ Loose(k, u))
    BY <2>1, <2>2, <2>3, StillSuspended
  <2>5. CASE StartupCheck(t)
    <3>1. th[k.cur].at = "check" /\ Go(t, Between(k, "unlink"), o, 0, u)
      BY <2>1, <2>3, <2>4, <2>5 DEF StartupCheck, check_suspended
    <3> QED BY <1>1, <1>2, <2>1, <2>2, <2>4, <3>1
  <2>6. CASE Unlink(t)
    <3>1. PICK r : r = detach(k, u)
      OBVIOUS
    <3>2. th[k.cur].at = "unlink" /\ Go(t, r, o, 0, u)
      BY <2>1, <2>3, <2>6, <3>1 DEF Unlink
    <3>3. k' = r.k /\ th' = Moved(th, k.cur, After(r, o, 0, u)) /\ load' = load
      BY <2>1, <3>2, Going
    <3>4. o \notin {"mutex_take", "sem_take"}
      BY <2>4 DEF Starts
    <3>5. System(load, r.k, th') /\ Units(r.k, th') = Units(k, th)
      BY ONLY <1>1, <2>2, <2>4, <3>1, <3>2, <3>3, <3>4, UnlinkKeeps
    <3> QED BY <3>3, <3>5 DEF Stays, Steady
  <2> QED BY <1>5, <2>5, <2>6
<1>6. CASE Insert(t)
  <2>1. k.cur = t /\ th[t].at = "insert"
    BY <1>6 DEF Insert
  <2>2. Calling(k, th) /\ th[k.cur].at = "insert"
    BY <1>1, <2>1, InCall
  <2>3. PICK r : /\ r = Resched(rt_schedule_insert_thread(k, th[k.cur].arg), "EOK")
                 /\ Go(t, r, th[k.cur].op, 0, None)
    BY <1>6, <2>1 DEF Insert
  <2>4. k' = r.k /\ th' = Moved(th, k.cur, After(r, th[k.cur].op, 0, None)) /\ load' = load
    BY <2>1, <2>3, Going
  <2>5. System(load, r.k, th') /\ Units(r.k, th') = Units(k, th)
    BY <1>1, <2>2, <2>3, <2>4, InsertKeeps
  <2> QED BY <2>4, <2>5 DEF Stays, Steady
<1> QED BY <1>3, <1>4, <1>5, <1>6

\* rt_enter_critical and rt_exit_critical.
LEMMA LockSteps ==
  ASSUME Safe, NEW t, EnterCritical(t) \/ rt_exit_critical(t)
  PROVE  Stays
<1>1. System(load, k, th)
  BY DEF Safe
<1>2. Enter(t, "critical")
  BY DEF EnterCritical, rt_exit_critical
<1>3. t = k.cur /\ Calling(k, th) /\ th[k.cur].at = "top" /\ k.lock \in Nat /\ KInv(k)
  BY <1>2, Entering
<1>4. DOMAIN k = Fields
  BY <1>3 DEF KInv, Kernel, KType
<1>5. PICK n, d, r, o : /\ n \in Nat /\ d = [k EXCEPT !.lock = n] /\ r.k = d
                        /\ r.at = (IF n = 0 THEN "resched" ELSE "top")
                        /\ o \in {None, "critical"} /\ Go(t, r, o, 0, None)
  <2>1. CASE EnterCritical(t)
    <3>1. PICK r : r = Ret(rt_enter_critical(k), "EOK") /\ Go(t, r, None, 0, None)
      BY <2>1 DEF EnterCritical
    <3>2. r.k = [k EXCEPT !.lock = k.lock + 1] /\ r.at = "top"
      BY <3>1 DEF Ret, rt_enter_critical
    <3>3. k.lock + 1 \in Nat /\ k.lock + 1 # 0
      BY <1>3
    <3> QED BY <3>1, <3>2, <3>3
  <2>2. CASE rt_exit_critical(t)
    <3>1. k.lock > 0
      BY <2>2 DEF rt_exit_critical
    <3>2. PICK n, c : n = k.lock - 1 /\ c = [k EXCEPT !.lock = n]
      OBVIOUS
    <3>3. n \in Nat /\ c.lock = n
      BY <1>3, <1>4, <3>1, <3>2 DEF Fields
    <3>4. PICK r : r = (IF c.lock = 0 THEN Resched(c, "EOK") ELSE Ret(c, "EOK")) /\ Go(t, r, "critical", 0, None)
      BY <2>2, <3>2 DEF rt_exit_critical
    <3>5. r.k = c /\ r.at = (IF n = 0 THEN "resched" ELSE "top")
      BY <3>3, <3>4 DEF Resched, Ret
    <3> QED BY <3>2, <3>3, <3>4, <3>5
  <2> QED BY <2>1, <2>2
<1>6. SameBut(k, d, {"lock"}) /\ d.lock = n
  BY <1>4, <1>5 DEF SameBut, Fields
<1>7. k' = r.k /\ th' = Moved(th, k.cur, After(r, o, 0, None)) /\ load' = load
  BY <1>3, <1>5, Going
<1>8. n \in Nat /\ r.k = d /\ r.at = (IF n = 0 THEN "resched" ELSE "top") /\ o # "mutex_take"
  BY <1>5 DEF None
<1>9. System(load, r.k, th') /\ Units(r.k, th') = Units(k, th)
  BY ONLY <1>1, <1>3, <1>6, <1>7, <1>8, LockKeeps
<1> QED BY <1>7, <1>9 DEF Stays, Steady

\* The calls the loads leave out.
LEMMA LeftOut ==
  ASSUME Safe, NEW t \in Threads
  PROVE  /\ ~Close(t) /\ ~CloseRemove(t) /\ ~Closed(t)
         /\ ~MutexTake(t) /\ ~MutexWoken(t) /\ ~MutexRelease(t) /\ ~SetCeiling(t)
<1>1. load.ops[t] \cap {"close", "mutex_take", "mutex_release", "set_ceiling"} = {}
  BY DEF Safe, IpcLoad
<1>2. Own(load, k, th[t], t)
  BY DEF Safe, System, Base
<1>3. ~Close(t)
  BY <1>1 DEF Close, Enter
<1>4. ~MutexTake(t)
  BY <1>1 DEF MutexTake, Enter
<1>5. ~MutexRelease(t)
  BY <1>1 DEF MutexRelease, Enter
<1>6. ~SetCeiling(t)
  BY <1>1 DEF SetCeiling, Enter
<1>7. ~Closed(t) /\ ~CloseRemove(t)
  BY <1>2 DEF Closed, CloseRemove, Own
<1>8. ~MutexWoken(t)
  BY <1>2 DEF MutexWoken, Woken, Own
<1> QED BY <1>3, <1>4, <1>5, <1>6, <1>7, <1>8

\* The idle thread frees a thread, and the tick.
LEMMA OtherSteps ==
  ASSUME Safe, Reap \/ Tick
  PROVE  Stays
<1>1. System(load, k, th) /\ DOMAIN th = Threads
  BY DEF Safe, System, Base
<1>2. CASE Reap
  <2>1. PICK t : t = Head(k.wait["defunct"])
    OBVIOUS
  <2>2. k.cur = Idle /\ k.wait["defunct"] # << >> /\ load' = load
    BY <1>2 DEF Reap
  <2>3. k' = Reaping(k, t) /\ th' = Moved(th, t, Top)
    BY <1>2, <2>1 DEF Reap, Reaping, Moved
  <2>4. System(load, k', th') /\ Units(k', th') = Units(k, th)
    BY <1>1, <2>1, <2>2, <2>3, ReapKeeps
  <2> QED BY <2>2, <2>4 DEF Stays, Steady
<1>3. CASE Tick
  <2>1. k' = rt_tick_increase(k) /\ load' = load
    BY <1>3 DEF Tick
  <2>2. DOMAIN th' = Threads
    BY <1>3 DEF Tick
  <2>3. ASSUME NEW u \in Threads
        PROVE  /\ DOMAIN th'[u] = DOMAIN th[u] /\ th'[u].el \in Int
               /\ \A f \in {"at", "op", "to", "arg"} : th'[u][f] = th[u][f]
    <3>1. /\ DOMAIN th[u] = {"at", "op", "to", "el", "arg", "slot"} /\ th[u].to \in Int /\ th[u].el \in Int
      BY DEF Safe, System, Base, Own
    <3>2. Min({th[u].el + 1, th[u].to}) \in Int
      <4>1. PICK a, b : a = th[u].el + 1 /\ b = th[u].to
        OBVIOUS
      <4>2. a \in Int /\ b \in Int
        BY <3>1, <4>1
      <4>3. Min({a, b}) \in Int
        BY <4>2, TwoInts
      <4> QED BY <4>1, <4>3
    <3>3. \/ th'[u] = th[u]
          \/ th'[u] = [th[u] EXCEPT !.el = Min({th[u].el + 1, th[u].to})]
      BY <1>3 DEF Tick
    <3>4. PICK x : x = Min({th[u].el + 1, th[u].to}) /\ x \in Int
      BY <3>2
    <3>5. CASE th'[u] = th[u]
      BY <3>1, <3>5
    <3>6. CASE th'[u] = [th[u] EXCEPT !.el = x]
      BY <3>1, <3>4, <3>6
    <3> QED BY <3>3, <3>4, <3>5, <3>6
  <2>4. Aged(th, th')
    BY <2>2, <2>3 DEF Aged
  <2>5. System(load, k', th') /\ Units(k', th') = Units(k, th)
    BY <1>1, <2>1, <2>4, TickKeeps
  <2> QED BY <2>1, <2>5 DEF Stays, Steady
<1> QED BY <1>2, <1>3

\* The units of the semaphore are accounted for, before and after a step.
Balanced == "bal" \in DOMAIN got /\ got.bal = Units(k, th)
BalSame == "bal" \in DOMAIN got' /\ got'.bal = got.bal
Carried == System(load, k', th') /\ load' = load /\ "bal" \in DOMAIN got' /\ got'.bal = Units(k', th')

\* A step that leaves the units alone.
LEMMA Carries ==
  ASSUME Balanced, Stays, BalSame
  PROVE  Carried
BY DEF Balanced, Stays, Steady, BalSame, Carried

\* The units counted by rt_sem_take, rt_sem_release and rt_sem_control.
LEMMA SemSteps ==
  ASSUME Safe, Balanced, NEW t, SemTake(t) \/ SemWoken(t) \/ SemRelease(t) \/ SemControl(t)
  PROVE  Carried
<1>1. System(load, k, th)
  BY DEF Safe
<1>2. "bal" \in DOMAIN got /\ got.bal = Units(k, th)
  BY DEF Balanced
<1>3. CASE SemTake(t)
  <2>1. PICK n \in load.to : /\ _rt_sem_take(k, t, n).at = "block" => MayBlock
                             /\ Go(t, _rt_sem_take(k, t, n), "sem_take", n, None)
                             /\ got' = [got EXCEPT !.bal = IF _rt_sem_take(k, t, n).ret = "EOK" THEN @ - 1 ELSE @]
    BY <1>3 DEF SemTake
  <2>2. Enter(t, "sem_take")
    BY <1>3 DEF SemTake
  <2>3. t = k.cur /\ Calling(k, th) /\ th[k.cur].at = "top" /\ n \in Int
    BY <2>1, <2>2, Entering
  <2>4. PICK r : r = _rt_sem_take(k, k.cur, n) /\ Unlocked(k, r)
    BY <2>1, <2>3 DEF MayBlock, Unlocked
  <2>5. k' = r.k /\ th' = Moved(th, k.cur, After(r, "sem_take", n, None)) /\ load' = load
    BY <2>1, <2>3, <2>4, Going
  <2>6. "bal" \in DOMAIN got' /\ got'.bal = IF r.ret = "EOK" THEN got.bal - 1 ELSE got.bal
    BY <1>2, <2>1, <2>3, <2>4
  <2>7. /\ System(load, r.k, th')
        /\ r.ret = "EOK" => Units(r.k, th') = Units(k, th) - 1
        /\ r.ret # "EOK" => Units(r.k, th') = Units(k, th)
    BY ONLY <1>1, <2>2, <2>3, <2>4, <2>5, TakeKeeps
  <2> QED BY <1>2, <2>5, <2>6, <2>7 DEF Carried
<1>4. CASE SemWoken(t)
  <2>1. Woken(t, "sem_take")
    BY <1>4 DEF SemWoken
  <2>2. t = k.cur /\ Calling(k, th) /\ th[k.cur].at = "woken" /\ th[k.cur].op = "sem_take"
    BY <2>1, Waking
  <2>3. PICK r : r = Ret(k, k.err[k.cur])
    OBVIOUS
  <2>4. Go(t, r, None, 0, None) /\ got' = [got EXCEPT !.bal = IF k.err[k.cur] = "EOK" THEN @ - 1 ELSE @]
    BY <1>4, <2>2, <2>3 DEF SemWoken
  <2>5. k' = r.k /\ th' = Moved(th, k.cur, After(r, None, 0, None)) /\ load' = load
    BY <2>2, <2>4, Going
  <2>6. "bal" \in DOMAIN got' /\ got'.bal = IF k.err[k.cur] = "EOK" THEN got.bal - 1 ELSE got.bal
    BY <1>2, <2>4
  <2>7. /\ System(load, r.k, th')
        /\ k.err[k.cur] = "EOK" => Units(r.k, th') = Units(k, th) - 1
        /\ k.err[k.cur] # "EOK" => Units(r.k, th') = Units(k, th)
    BY ONLY <1>1, <2>2, <2>3, <2>5, TookKeeps
  <2> QED BY <1>2, <2>5, <2>6, <2>7 DEF Carried
<1>5. CASE SemRelease(t)
  <2>1. PICK r : r = rt_sem_release(k)
    OBVIOUS
  <2>2. /\ Enter(t, "sem_release") /\ Go(t, r, "sem_release", 0, None)
        /\ got' = [got EXCEPT !.bal = IF r.ret = "EOK" THEN @ + 1 ELSE @]
    BY <1>5, <2>1 DEF SemRelease
  <2>3. t = k.cur /\ Calling(k, th) /\ th[k.cur].at = "top"
    BY <2>2, Entering
  <2>4. k' = r.k /\ th' = Moved(th, k.cur, After(r, "sem_release", 0, None)) /\ load' = load
    BY <2>2, <2>3, Going
  <2>5. "bal" \in DOMAIN got' /\ got'.bal = IF r.ret = "EOK" THEN got.bal + 1 ELSE got.bal
    BY <1>2, <2>2
  <2>6. /\ System(load, r.k, th')
        /\ r.ret = "EOK" => Units(r.k, th') = Units(k, th) + 1
        /\ r.ret # "EOK" => Units(r.k, th') = Units(k, th)
    BY ONLY <1>1, <2>1, <2>3, <2>4, ReleaseKeeps
  <2> QED BY <1>2, <2>4, <2>5, <2>6 DEF Carried
<1>6. CASE SemControl(t)
  <2>1. PICK r : r = rt_sem_control(k, 0)
    OBVIOUS
  <2>2. /\ Enter(t, "sem_control") /\ Go(t, r, "sem_control", 0, None)
        /\ got' = [got EXCEPT !.bal = Cardinality(Granted)]
    BY <1>6, <2>1 DEF SemControl
  <2>3. t = k.cur /\ Calling(k, th) /\ th[k.cur].at = "top"
    BY <2>2, Entering
  <2>4. k' = r.k /\ th' = Moved(th, k.cur, After(r, "sem_control", 0, None)) /\ load' = load
    BY <2>2, <2>3, Going
  <2>5. Granted = Grants(k, th)
    BY DEF Granted, Grants
  <2>6. "bal" \in DOMAIN got' /\ got'.bal = Cardinality(Grants(k, th))
    BY <1>2, <2>2, <2>5
  <2>7. System(load, r.k, th') /\ Units(r.k, th') = Cardinality(Grants(k, th))
    BY ONLY <1>1, <2>1, <2>3, <2>4, ResetKeeps
  <2> QED BY <2>4, <2>6, <2>7 DEF Carried
<1> QED BY <1>3, <1>4, <1>5, <1>6

\* The interrupts of drivers.
LEMMA IsrStep ==
  ASSUME Safe, Balanced, Isr
  PROVE  Carried
<1>1. System(load, k, th) /\ Base(load, k, th) /\ KInv(k)
  BY DEF Safe, System, Base
<1>2. "bal" \in DOMAIN got /\ got.bal = Units(k, th)
  BY DEF Balanced
<1>3. /\ "ev" \in IpcLists /\ EvFields \subseteq Rest /\ "mb_recv" \in IpcLists /\ {"mb"} \subseteq Rest
  BY DEF IpcLists, WaitLists, Rest, Objects, EvFields
<1>4. ASSUME NEW r, NEW w \in IpcLists, w # "sem", NEW F, F \subseteq Rest, got' = got,
             Section(k, r, "none", InWait(k, w), F), r.at \in {"top", "resched"},
             k' = IF r.at = "resched" THEN rt_schedule(r.k) ELSE r.k, load' = load, th' = th
      PROVE  Carried
  <2>1. Others(th, InWait(k, w))
    BY <1>1, <1>4, OtherLists
  <2>2. PICK d : d = IF r.at = "resched" THEN rt_schedule(r.k) ELSE r.k
    OBVIOUS
  <2>3. System(load, d, th) /\ Units(d, th) = Units(k, th)
    BY <1>1, <1>4, <2>1, <2>2, HandlerUnits
  <2> QED BY <1>2, <1>4, <2>2, <2>3 DEF Carried
<1>5. CASE LET r == rt_sem_release(k)
           IN  /\ Handler("sem_release", r)
               /\ got' = [got EXCEPT !.bal = IF r.ret = "EOK" THEN @ + 1 ELSE @]
  <2>1. PICK r : r = rt_sem_release(k)
    OBVIOUS
  <2>2. PICK d : d = IF r.at = "resched" THEN rt_schedule(r.k) ELSE r.k
    OBVIOUS
  <2>3. k' = d /\ load' = load /\ th' = th /\ got' = [got EXCEPT !.bal = IF r.ret = "EOK" THEN @ + 1 ELSE @]
    BY <1>5, <2>1, <2>2 DEF Handler
  <2>4. "bal" \in DOMAIN got' /\ got'.bal = IF r.ret = "EOK" THEN got.bal + 1 ELSE got.bal
    BY <1>2, <2>3
  <2>5. /\ System(load, d, th)
        /\ r.ret = "EOK" => Units(d, th) = Units(k, th) + 1
        /\ r.ret # "EOK" => Units(d, th) = Units(k, th)
    BY <1>1, <2>1, <2>2, IsrReleaseKeeps
  <2> QED BY <1>2, <2>3, <2>4, <2>5 DEF Carried
<1>6. CASE \E set \in SUBSET Bits \ {{}} : Handler("event_send", rt_event_send(k, set)) /\ Same
  <2>1. PICK set, r : r = rt_event_send(k, set) /\ Handler("event_send", r) /\ Same
    BY <1>6
  <2>2. Section(k, r, "none", InWait(k, "ev"), EvFields) /\ r.at \in {"top", "resched"}
    BY <1>1, <2>1, EventSent
  <2>3. /\ k' = IF r.at = "resched" THEN rt_schedule(r.k) ELSE r.k
        /\ load' = load /\ th' = th /\ got' = got
    BY <2>1 DEF Handler, Same
  <2> QED BY <1>3, <1>4, <2>2, <2>3
<1>7. CASE \E v \in Vals : Handler("mb_send", _rt_mb_send_wait(k, k.cur, v, 0)) /\ Same
  <2>1. PICK v, r : r = _rt_mb_send_wait(k, k.cur, v, 0) /\ Handler("mb_send", r) /\ Same
    BY <1>7
  <2>2. Section(k, r, "none", InWait(k, "mb_recv"), {"mb"}) /\ r.at \in {"top", "resched"}
    BY <1>1, <2>1, MailPosted
  <2>3. /\ k' = IF r.at = "resched" THEN rt_schedule(r.k) ELSE r.k
        /\ load' = load /\ th' = th /\ got' = got
    BY <2>1 DEF Handler, Same
  <2> QED BY <1>3, <1>4, <2>2, <2>3
<1> QED BY <1>5, <1>6, <1>7 DEF Isr

\* The calls that are not about the semaphore do not count its units.
LEMMA BalKept ==
  ASSUME Balanced, NEW t,
         \/ Sched(t) \/ Yield(t) \/ Sleep(t) \/ SleepWoken(t) \/ SuspendSelf(t) \/ Resume(t)
         \/ Startup(t) \/ StartupCheck(t) \/ Unlink(t) \/ Insert(t) \/ Exit(t)
         \/ EnterCritical(t) \/ rt_exit_critical(t)
         \/ EventSend(t) \/ EventRecv(t) \/ EventWoken(t) \/ EventControl(t)
         \/ MbSend(t) \/ MbSendWoken(t) \/ MbUrgent(t) \/ MbRecv(t) \/ MbRecvWoken(t)
         \/ MbControl(t)
         \/ MqSend(t) \/ MqSendWoken(t) \/ MqUrgent(t) \/ MqRecv(t) \/ MqRecvWoken(t)
         \/ MqCopied(t) \/ MqControl(t)
         \/ MpAlloc(t) \/ MpWoken(t) \/ MpFree(t)
  PROVE  BalSame
<1>1. "bal" \in DOMAIN got
  BY DEF Balanced
<1>2. ASSUME \/ got' = got \/ \E x : got' = [got EXCEPT !.mail = x] \/ got' = [got EXCEPT !.msg = x]
             \/ \E x : got' = [got EXCEPT !.blk[t] = x]
      PROVE  BalSame
  <2>1. CASE got' = got
    BY <1>1, <2>1 DEF BalSame
  <2>2. CASE \E x : got' = [got EXCEPT !.mail = x]
    BY <1>1, <2>2 DEF BalSame
  <2>3. CASE \E x : got' = [got EXCEPT !.msg = x]
    BY <1>1, <2>3 DEF BalSame
  <2>4. CASE \E x : got' = [got EXCEPT !.blk[t] = x]
    BY <1>1, <2>4 DEF BalSame
  <2> QED BY <1>2, <2>1, <2>2, <2>3, <2>4
<1>3. CASE \/ Sched(t) \/ Yield(t) \/ Sleep(t) \/ SleepWoken(t) \/ SuspendSelf(t) \/ Resume(t)
           \/ Startup(t) \/ StartupCheck(t) \/ Unlink(t) \/ Insert(t) \/ Exit(t)
           \/ EnterCritical(t) \/ rt_exit_critical(t)
  <2>1. got' = got
    BY <1>3 DEF Sched, Yield, Sleep, SleepWoken, SuspendSelf, Resume, Startup, StartupCheck, Unlink, Insert,
                Exit, EnterCritical, rt_exit_critical, Same
  <2> QED BY <1>2, <2>1
<1>4. CASE \/ EventSend(t) \/ EventRecv(t) \/ EventWoken(t) \/ EventControl(t)
           \/ MbSend(t) \/ MbSendWoken(t) \/ MbUrgent(t) \/ MbControl(t)
           \/ MqSend(t) \/ MqSendWoken(t) \/ MqUrgent(t) \/ MqCopied(t) \/ MqControl(t)
  <2>1. got' = got
    BY <1>4 DEF EventSend, EventRecv, EventWoken, EventControl, MbSend, MbSendWoken, MbUrgent, MbControl,
                MqSend, MqSendWoken, MqUrgent, MqCopied, MqControl, Same
  <2> QED BY <1>2, <2>1
<1>5. CASE MbRecv(t) \/ MbRecvWoken(t)
  <2>1. PICK r : Mail(r)
    BY <1>5 DEF MbRecv, MbRecvWoken
  <2> QED BY <1>2, <2>1 DEF Mail
<1>6. CASE MqRecv(t) \/ MqRecvWoken(t)
  <2>1. PICK r : Msg(r)
    BY <1>6 DEF MqRecv, MqRecvWoken
  <2> QED BY <1>2, <2>1 DEF Msg
<1>7. CASE MpAlloc(t) \/ MpWoken(t)
  <2>1. PICK r : Blk(t, r)
    BY <1>7 DEF MpAlloc, MpWoken
  <2> QED BY <1>2, <2>1 DEF Blk
<1>8. CASE MpFree(t)
  <2>1. PICK b : got' = [got EXCEPT !.blk[t] = @ \ {b}]
    BY <1>8 DEF MpFree
  <2> QED BY <1>2, <2>1
<1> QED BY <1>3, <1>4, <1>5, <1>6, <1>7, <1>8

\* The inductive invariant: in the loads the theorems are about, the kernel is
\* in order and the units of the semaphore are accounted for.
RtInv == IpcLoad(load) => Safe /\ Balanced

\* It holds when the scheduler has been started.
LEMMA InitInv ==
  ASSUME Init
  PROVE  RtInv
<1>1. load \in Loads /\ "bal" \in DOMAIN got /\ got.bal = 0
  BY DEF Init
<1>2. PICK c : c = FoldLeft(rt_thread_startup, Fresh(load), load.order)
  OBVIOUS
<1>3. k = rt_system_scheduler_start(c) /\ th = [t \in Threads |-> Top]
  BY <1>2 DEF Init
<1>4. System(load, k, th) /\ Units(k, th) = 0
  BY <1>1, <1>2, <1>3, StartKeeps
<1>5. Held(load, k, th)
  BY <1>3 DEF Held, Top
<1> QED BY <1>1, <1>4, <1>5 DEF RtInv, Safe, Balanced

\* Every step of a thread keeps it.
LEMMA ThreadKeeps ==
  ASSUME Safe, Balanced, NEW t \in Threads, ThreadStep(t)
  PROVE  Carried
<1>1. CASE Sched(t)
  BY <1>1, SchedStep, BalKept, Carries
<1>2. CASE Yield(t) \/ Sleep(t) \/ SleepWoken(t) \/ SuspendSelf(t) \/ Exit(t)
  BY <1>2, WaitSteps, BalKept, Carries
<1>3. CASE Resume(t) \/ Startup(t) \/ StartupCheck(t) \/ Unlink(t) \/ Insert(t)
  BY <1>3, StartSteps, BalKept, Carries
<1>4. CASE EnterCritical(t) \/ rt_exit_critical(t)
  BY <1>4, LockSteps, BalKept, Carries
<1>5. CASE SemTake(t) \/ SemWoken(t) \/ SemRelease(t) \/ SemControl(t)
  BY <1>5, SemSteps
<1>6. CASE EventSend(t) \/ EventRecv(t) \/ EventWoken(t) \/ EventControl(t)
  BY <1>6, EventSteps, BalKept, Carries
<1>7. CASE \/ MbSend(t) \/ MbSendWoken(t) \/ MbUrgent(t) \/ MbRecv(t) \/ MbRecvWoken(t) \/ MbControl(t)
  BY <1>7, MailSteps, BalKept, Carries
<1>8. CASE \/ MqSend(t) \/ MqSendWoken(t) \/ MqUrgent(t) \/ MqRecv(t) \/ MqRecvWoken(t) \/ MqCopied(t)
           \/ MqControl(t)
  BY <1>8, MsgSteps, BalKept, Carries
<1>9. CASE MpAlloc(t) \/ MpWoken(t) \/ MpFree(t)
  BY <1>9, PoolSteps, BalKept, Carries
<1> QED BY <1>1, <1>2, <1>3, <1>4, <1>5, <1>6, <1>7, <1>8, <1>9, LeftOut DEF ThreadStep

\* The load is chosen once.
LEMMA LoadKept ==
  ASSUME [Next]_vars
  PROVE  load' = load
<1> SUFFICES ASSUME NEW t \in Threads, ThreadStep(t) PROVE load' = load
  <2>1. CASE UNCHANGED vars
    BY <2>1 DEF vars
  <2>2. CASE Reap \/ IdleLoop \/ Tick
    BY <2>2 DEF Reap, IdleLoop, Tick, vars
  <2>3. CASE Isr
    <3>1. PICK o, r : Handler(o, r)
      BY <2>3 DEF Isr
    <3> QED BY <3>1 DEF Handler
  <2> QED BY <2>1, <2>2, <2>3 DEF Next
<1>1. \A r, o, n, arg : Go(t, r, o, n, arg) => load' = load
  BY Going
<1>2. CASE Sched(t)
  BY <1>2 DEF Sched
<1>3. CASE \/ Yield(t) \/ Sleep(t) \/ SleepWoken(t) \/ SuspendSelf(t) \/ Resume(t) \/ Startup(t)
           \/ StartupCheck(t) \/ Unlink(t) \/ Insert(t) \/ Exit(t) \/ Close(t) \/ CloseRemove(t) \/ Closed(t)
           \/ EnterCritical(t) \/ rt_exit_critical(t)
  BY <1>1, <1>3 DEF Yield, Sleep, SleepWoken, SuspendSelf, Resume, Startup, StartupCheck, Unlink, Insert, Exit,
                    Close, CloseRemove, Closed, EnterCritical, rt_exit_critical
<1>4. CASE \/ SemTake(t) \/ SemWoken(t) \/ SemRelease(t) \/ SemControl(t)
           \/ EventSend(t) \/ EventRecv(t) \/ EventWoken(t) \/ EventControl(t)
  BY <1>1, <1>4 DEF SemTake, SemWoken, SemRelease, SemControl, EventSend, EventRecv, EventWoken, EventControl
<1>5. CASE \/ MbSend(t) \/ MbSendWoken(t) \/ MbUrgent(t) \/ MbRecv(t) \/ MbRecvWoken(t) \/ MbControl(t)
           \/ MqSend(t) \/ MqSendWoken(t) \/ MqUrgent(t) \/ MqRecv(t) \/ MqRecvWoken(t) \/ MqCopied(t)
           \/ MqControl(t)
  BY <1>1, <1>5 DEF MbSend, MbSendWoken, MbUrgent, MbRecv, MbRecvWoken, MbControl, MqSend, MqSendWoken, MqUrgent,
                    MqRecv, MqRecvWoken, MqCopied, MqControl
<1>6. CASE \/ MpAlloc(t) \/ MpWoken(t) \/ MpFree(t)
           \/ MutexTake(t) \/ MutexWoken(t) \/ MutexRelease(t) \/ SetCeiling(t)
  BY <1>1, <1>6 DEF MpAlloc, MpWoken, MpFree, MutexTake, MutexWoken, MutexRelease, SetCeiling
<1> QED BY <1>2, <1>3, <1>4, <1>5, <1>6 DEF ThreadStep

\* Where any suspended thread is resumed, only the thread that does it takes
\* steps between the check and the unlink section.
LEMMA HeldKept ==
  ASSUME Safe, Next, load' = load, System(load, k', th')
  PROVE  Held(load, k', th')
<1>1. /\ DOMAIN th = Threads /\ DOMAIN th' = Threads /\ System(load, k, th) /\ Held(load, k, th)
      /\ \A t \in Threads : Own(load, k, th[t], t) /\ Own(load, k', th'[t], t)
      /\ (load.any => load.isr = {}) /\ load \in Loads
  BY DEF Safe, System, Base, IpcLoad
<1> SUFFICES ASSUME load.any PROVE Held(load, k', th')
  BY DEF Held
<1>2. ~Tick /\ ~Isr
  <2>1. load.isr = {}
    BY <1>1
  <2>2. ~Tick
    BY <2>1 DEF Tick
  <2>3. \A o, r : ~Handler(o, r)
    BY <2>1 DEF Handler
  <2> QED BY <2>2, <2>3 DEF Isr
<1>3. ASSUME NEW t \in Threads, k.cur = t, NEW e, th' = [th EXCEPT ![t] = e],
             e.at \in {"check", "unlink"} => k'.cur = t /\ k'.stat[e.arg] = "suspend"
      PROVE  Held(load, k', th')
  <2> SUFFICES ASSUME NEW u \in Threads, th'[u].at \in {"check", "unlink"}
               PROVE  k'.cur = u /\ k'.stat[th'[u].arg] = "suspend"
    BY DEF Held
  <2>1. CASE u = t
    BY <1>1, <1>3, <2>1
  <2>2. CASE u # t
    BY <1>1, <1>3, <2>2 DEF Held
  <2> QED BY <2>1, <2>2
<1>4. CASE IdleLoop
  BY <1>1, <1>4 DEF IdleLoop, vars
<1>5. CASE Reap
  <2>1. k.cur = Idle /\ Idle \in Threads
    BY <1>5, SchedAssumption DEF Reap
  <2>2. \A u \in Threads : th[u].at \notin {"check", "unlink"}
    BY <1>1, <2>1, SMTT(30) DEF Held, Own
  <2>3. PICK t : th' = [th EXCEPT ![t] = Top]
    BY <1>5 DEF Reap
  <2>4. \A u \in Threads : th'[u].at \notin {"check", "unlink"}
    BY <1>1, <2>2, <2>3 DEF Top
  <2> QED BY <2>4, SMTT(30) DEF Held
<1>6. ASSUME NEW t \in Threads, ThreadStep(t) PROVE Held(load, k', th')
  <2>1. ASSUME NEW r, NEW o, NEW n, NEW arg, Go(t, r, o, n, arg), k.cur = t,
               r.at \in {"check", "unlink"} /\ o \in Starts => r.k.cur = t /\ r.k.stat[arg] = "suspend"
        PROVE  Held(load, k', th')
    <3>1. PICK e : e = After(r, o, n, arg)
      OBVIOUS
    <3>2. k' = r.k /\ th' = [th EXCEPT ![t] = e]
      BY <2>1, <3>1, Going DEF Moved
    <3>3. th'[t] = e /\ Own(load, k', th'[t], t)
      BY <1>1, <3>2
    <3>4. e.at \in {"check", "unlink"} => r.at = e.at /\ e.op = o /\ e.arg = arg
      BY <3>1 DEF After, Top
    <3>5. e.at \in {"check", "unlink"} => e.op \in Starts
      BY <3>3 DEF Own
    <3> QED BY <1>3, <2>1, <3>2, <3>4, <3>5
  <2>2. ASSUME NEW r, NEW o, NEW n, NEW arg, Go(t, r, o, n, arg), k.cur = t, o \notin Starts
        PROVE  Held(load, k', th')
    BY <2>1, <2>2
  <2>3. CASE Sched(t)
    <3>1. PICK e : e = IF th[t].at = "block" THEN [th[t] EXCEPT !.at = "woken"] ELSE Top
      OBVIOUS
    <3>2. k.cur = t /\ th' = [th EXCEPT ![t] = e]
      BY <2>3, <3>1 DEF Sched
    <3>3. e.at \notin {"check", "unlink"}
      BY <1>1, <3>1 DEF Own, Top
    <3> QED BY <1>3, <3>2, <3>3
  <2>4. CASE \/ Yield(t) \/ Sleep(t) \/ SleepWoken(t) \/ SuspendSelf(t) \/ Exit(t)
             \/ EnterCritical(t) \/ rt_exit_critical(t)
    BY <2>2, <2>4 DEF Yield, Sleep, SleepWoken, SuspendSelf, Exit, EnterCritical, rt_exit_critical, Enter, Woken,
                      Starts, None
  <2>5. CASE Resume(t)
    <3>1. PICK u \in Threads : k.stat[u] = "suspend" /\ Go(t, check_suspended(k, u), "resume", 0, u)
      BY <2>5 DEF Resume
    <3>2. check_suspended(k, u).k = k /\ k.cur = t
      BY <2>5, <3>1 DEF check_suspended, Between, Resume, Enter
    <3> QED BY <2>1, <3>1, <3>2
  <2>6. CASE Startup(t)
    <3>1. PICK u, c : /\ u \in Threads /\ c = Suspending(k, u) /\ k.stat[u] = "init"
                      /\ Go(t, Between(c, "check"), "startup", 0, u)
      BY <2>6 DEF Startup, Suspending
    <3>2. k.cur = t /\ KType(k)
      BY <1>1, <2>6 DEF Startup, Enter, System, Base, KInv, Kernel
    <3>3. c.cur = k.cur /\ c.stat[u] = "suspend"
      BY <3>1, <3>2 DEF Suspending, KType, Fields
    <3>4. Between(c, "check").k = c
      BY DEF Between
    <3> QED BY <2>1, <3>1, <3>2, <3>3, <3>4
  <2>7. CASE StartupCheck(t)
    <3>1. PICK u, o : u = th[t].arg /\ o = th[t].op
      OBVIOUS
    <3>2. k.cur = t /\ th[t].at = "check" /\ Go(t, check_suspended(k, u), o, 0, u)
      BY <2>7, <3>1 DEF StartupCheck
    <3>3. k.stat[u] = "suspend" /\ check_suspended(k, u).k = k
      BY <1>1, <3>1, <3>2 DEF Held, check_suspended, Between
    <3> QED BY <2>1, <3>2, <3>3
  <2>8. CASE Unlink(t) \/ Insert(t)
    <3>1. PICK r, o, arg : Go(t, r, o, 0, arg) /\ r.at \in {"insert", "resched"} /\ k.cur = t
      <4>1. CASE Unlink(t)
        <5>1. Go(t, detach(k, th[t].arg), th[t].op, 0, th[t].arg) /\ k.cur = t
          BY <4>1 DEF Unlink
        <5>2. detach(k, th[t].arg).at = "insert"
          BY DEF detach, Between
        <5> QED BY <5>1, <5>2
      <4>2. CASE Insert(t)
        <5>1. PICK c : Go(t, Resched(c, "EOK"), th[t].op, 0, None) /\ k.cur = t
          BY <4>2 DEF Insert
        <5>2. Resched(c, "EOK").at = "resched"
          BY DEF Resched
        <5> QED BY <5>1, <5>2
      <4> QED BY <2>8, <4>1, <4>2
    <3> QED BY <2>1, <3>1
  <2>9. CASE \/ SemTake(t) \/ SemWoken(t) \/ SemRelease(t) \/ SemControl(t)
             \/ EventSend(t) \/ EventRecv(t) \/ EventWoken(t) \/ EventControl(t)
    BY <2>2, <2>9 DEF SemTake, SemWoken, SemRelease, SemControl, EventSend, EventRecv, EventWoken, EventControl,
                      Enter, Woken, Starts, None
  <2>10. CASE \/ MbSend(t) \/ MbSendWoken(t) \/ MbUrgent(t) \/ MbRecv(t) \/ MbRecvWoken(t) \/ MbControl(t)
    BY <2>2, <2>10 DEF MbSend, MbSendWoken, MbUrgent, MbRecv, MbRecvWoken, MbControl, Enter, Woken, Starts, None
  <2>11. CASE \/ MqSend(t) \/ MqSendWoken(t) \/ MqUrgent(t) \/ MqRecv(t) \/ MqRecvWoken(t) \/ MqControl(t)
    BY <2>2, <2>11 DEF MqSend, MqSendWoken, MqUrgent, MqRecv, MqRecvWoken, MqControl, Enter, Woken, Starts, None
  <2>12. CASE MqCopied(t)
    <3>1. PICK r : Go(t, r, th[t].op, 0, None)
      BY <2>12 DEF MqCopied
    <3>2. k.cur = t /\ th[t].at = "copy"
      BY <2>12 DEF MqCopied
    <3>3. th[t].op \notin Starts
      BY <1>1, <3>2 DEF Own, Starts
    <3> QED BY <2>2, <3>1, <3>2, <3>3
  <2>13. CASE \/ MpAlloc(t) \/ MpWoken(t) \/ MpFree(t)
    BY <2>2, <2>13 DEF MpAlloc, MpWoken, MpFree, Enter, Woken, Starts, None
  <2> QED BY <1>6, <2>3, <2>4, <2>5, <2>6, <2>7, <2>8, <2>9, <2>10, <2>11, <2>12, <2>13, LeftOut DEF ThreadStep
<1> QED BY <1>2, <1>4, <1>5, <1>6 DEF Next

\* Every step of the system keeps the invariant.
LEMMA NextInv ==
  ASSUME RtInv, [Next]_vars
  PROVE  RtInv'
<1>1. load' = load
  BY LoadKept
<1> SUFFICES ASSUME IpcLoad(load) PROVE Safe' /\ Balanced'
  BY <1>1 DEF RtInv, IpcLoad
<1>2. Safe /\ Balanced
  BY DEF RtInv
<1>3. CASE UNCHANGED vars
  BY <1>2, <1>3 DEF Safe, Balanced, vars, System, Base, Armed, Units, Grants, IpcLoad, Held
<1>4. CASE Next
  <2>1. Carried
    <3>1. CASE \E t \in Threads : ThreadStep(t)
      BY <1>2, <3>1, ThreadKeeps
    <3>2. CASE Reap \/ Tick
      <4>1. BalSame
        BY <1>2, <3>2 DEF Balanced, BalSame, Reap, Tick
      <4> QED BY <1>2, <3>2, <4>1, OtherSteps, Carries
    <3>3. CASE IdleLoop
      BY <1>2, <3>3 DEF IdleLoop, vars, Safe, Balanced, Carried
    <3>4. CASE Isr
      BY <1>2, <3>4, IsrStep
    <3> QED BY <1>4, <3>1, <3>2, <3>3, <3>4 DEF Next
  <2>2. Held(load, k', th')
    BY <1>2, <1>4, <2>1, HeldKept DEF Carried
  <2>3. load' \in Loads /\ IpcLoad(load') /\ System(load', k', th') /\ Held(load', k', th')
    BY <1>1, <1>2, <2>1, <2>2 DEF Carried, Safe
  <2>4. Safe'
    BY <2>3 DEF Safe
  <2> QED BY <2>1, <2>4 DEF Carried, Balanced
<1> QED BY <1>3, <1>4

\* The kernel state stays in order in every load the theorems are about, also
\* between the check, the unlink and the link of rt_thread_resume (thread.c).
THEOREM RtInvariant == Spec => []RtInv
<1>1. Init => RtInv
  BY InitInv
<1>2. RtInv /\ [Next]_vars => RtInv'
  BY NextInv
<1> QED BY <1>1, <1>2, PTL DEF Spec

\* What the invariant says of the lists.
LEMMA ListsFollow ==
  ASSUME Safe
  PROVE  ListsMatchStates
<1>1. /\ KInv(k) /\ KType(k) /\ ReadyOK(k) /\ WaitOK(k) /\ CurOK(k) /\ k.cur \in Threads /\ Runs(k, th[k.cur])
      /\ \A t \in Threads : Own(load, k, th[t], t)
  BY DEF Safe, System, Base, KInv, Kernel
<1>2. DOMAIN k.wait = Lists /\ "defunct" \in Lists /\ k.group \subseteq Prios
  BY <1>1 DEF KType, Lists, WaitLists
<1>3. \A t \in Threads : ~BeingDeleted(t)
  BY <1>1 DEF BeingDeleted, Own
<1>4. /\ \A p \in Prios : k.ready[p] # << >> => p \in k.group
      /\ \A p \in k.group : k.ready[p] # << >>
  BY <1>1, <1>2 DEF ReadyOK
<1>7. \A t \in Threads : k.stat[t] # "suspend" => ~BeingResumed(t)
  BY <1>1 DEF BeingResumed, Own, Aims, Loose
<1>5. ASSUME NEW t \in Threads, NEW lists, lists = {w \in DOMAIN k.wait : InList(t, k.wait[w])}
      PROVE  /\ \A p \in Prios :
                  InList(t, k.ready[p]) <=> /\ k.stat[t] = "ready" /\ p = k.prio[t]
                                            /\ ~BeingDeleted(t) /\ ~BeingResumed(t)
             /\ k.stat[t] = "close" <=> lists = {"defunct"}
             /\ lists # {} => \/ lists = {"defunct"}
                              \/ /\ Cardinality(lists) = 1
                                 /\ k.stat[t] = "suspend"
                                 /\ th[t].op \in {"sem_take", "event_recv", "mb_send", "mb_recv", "mq_send",
                                                  "mq_recv", "mp_alloc", "mutex_take"}
             /\ k.stat[t] = "running" => t = k.cur
  <2>1. \A w \in lists : w \in Lists /\ InList(t, k.wait[w])
    BY <1>2, <1>5
  <2>2. \A w \in Lists : InList(t, k.wait[w]) => w \in lists
    BY <1>2, <1>5
  <2>3. \A w, v \in lists : w = v
    BY <1>1, <2>1 DEF WaitOK
  <2>4. k.stat[t] = "close" <=> lists = {"defunct"}
    <3>1. ASSUME k.stat[t] = "close" PROVE lists = {"defunct"}
      <4>1. "defunct" \in lists
        BY <1>1, <1>2, <2>2, <3>1 DEF WaitOK
      <4> QED BY <2>3, <4>1
    <3>2. ASSUME lists = {"defunct"} PROVE k.stat[t] = "close"
      <4>1. InList(t, k.wait["defunct"])
        BY <2>1, <3>2
      <4> QED BY <1>1, <1>2, <4>1 DEF WaitOK
    <3> QED BY <3>1, <3>2
  <2>5. ASSUME NEW w \in lists, lists # {"defunct"}
        PROVE  /\ Cardinality(lists) = 1 /\ k.stat[t] = "suspend"
               /\ th[t].op \in {"sem_take", "event_recv", "mb_send", "mb_recv", "mq_send",
                                "mq_recv", "mp_alloc", "mutex_take"}
    <3>1. lists = {w} /\ w # "defunct"
      BY <2>3, <2>5
    <3>2. Cardinality(lists) = 1
      BY <3>1, FS_Singleton
    <3>3. k.stat[t] = "suspend"
      BY <1>1, <2>1, <3>1 DEF WaitOK
    <3>4. w \in IpcLists /\ th[t].op = OpOf(w)
      BY <1>1, <2>1, <3>1 DEF Own
    <3>5. th[t].op \in {"sem_take", "event_recv", "mb_send", "mb_recv", "mq_send", "mq_recv", "mp_alloc",
                        "mutex_take"}
      BY <3>4 DEF IpcLists, WaitLists, OpOf
    <3> QED BY <3>2, <3>3, <3>5
  <2>6. \A p \in Prios : InList(t, k.ready[p]) <=> /\ k.stat[t] = "ready" /\ p = k.prio[t]
                                                   /\ ~BeingDeleted(t) /\ ~BeingResumed(t)
    BY <1>1, <1>3, <1>7 DEF ReadyOK
  <2>7. k.stat[t] = "running" => t = k.cur
    BY <1>1 DEF CurOK
  <2> QED BY <2>4, <2>5, <2>6, <2>7
<1>6. k.stat[k.cur] # "running" => th[k.cur].at \in {"block", "resched"}
  BY <1>1 DEF Runs
<1> QED BY <1>4, <1>5, <1>6 DEF ListsMatchStates

\* What it says of the thread that runs.
LEMMA HighestFollows ==
  ASSUME Safe
  PROVE  HighestRuns
BY DEF Safe, System, Base, Runs, Quiet, HighestRuns

\* What it says of the timers and the assertions.
LEMMA NoFaultFollows ==
  ASSUME Safe
  PROVE  NoKernelFault
<1>1. KType(k) /\ TimerOK(k) /\ Armed(k)
  BY DEF Safe, System, Base, KInv, Kernel
<1>2. k.timer \in Seq(Threads \X Int)
  BY <1>1 DEF TimerOK, Timers
<1>3. DOMAIN k.timer = 1 .. Len(k.timer)
  BY <1>2
<1>4. ASSUME NEW i \in 1 .. Len(k.timer)
      PROVE  k.stat[k.timer[i][1]] = "suspend" /\ k.timer[i][2] > 0
  <2>1. k.timer[i] \in Threads \X Int
    BY <1>2
  <2>2. k.timer[i][1] \in Threads
    BY <2>1
  <2>3. Timed(k, k.timer[i][1])
    BY DEF Timed
  <2> QED BY <1>1, <2>2, <2>3 DEF TimerOK, Armed
<1>5. ~k.fault
  BY <1>1 DEF KType
<1> QED BY <1>3, <1>4, <1>5 DEF NoKernelFault

\* Every thread is in the list its state says, whatever the threads do to the
\* semaphore, the event, the mailbox, the message queue and the memory pool,
\* and whenever interrupts come (scheduler_up.c, thread.c, ipc.c), in the loads
\* of IpcLoad: no mutex, no deletion, one resumer, and with interrupts only
\* threads that suspended themselves are resumed.  So for the next three.
THEOREM RtLists == Spec => [](IpcLoad(load) => ListsMatchStates)
<1>1. RtInv => (IpcLoad(load) => ListsMatchStates)
  BY ListsFollow DEF RtInv
<1> QED BY <1>1, RtInvariant, PTL

\* No ready thread has a higher priority than the running one (rt_schedule).
THEOREM RtHighest == Spec => [](IpcLoad(load) => HighestRuns)
<1>1. RtInv => (IpcLoad(load) => HighestRuns)
  BY HighestFollows DEF RtInv
<1> QED BY <1>1, RtInvariant, PTL

\* No assertion of the kernel fails and an armed timer belongs to a suspended
\* thread (_thread_timeout).
THEOREM RtNoFault == Spec => [](IpcLoad(load) => NoKernelFault)
<1>1. RtInv => (IpcLoad(load) => NoKernelFault)
  BY NoFaultFollows DEF RtInv
<1> QED BY <1>1, RtInvariant, PTL

\* The units of the semaphore are conserved by takes, timeouts, releases and
\* resets, from threads and from interrupts (rt_sem_take, rt_sem_release).
THEOREM RtSemUnits == Spec => [](IpcLoad(load) => SemUnitsConserved)
<1>1. RtInv => (IpcLoad(load) => SemUnitsConserved)
  BY DEF RtInv, Balanced, Units, Grants, SemUnitsConserved, Granted
<1> QED BY <1>1, RtInvariant, PTL

-----------------------------------------------------------------------------
(***************************************************************************)
(* The message queue: the slots along next from the head are the queue,    *)
(* those from the free pointer on are free.                                *)
(***************************************************************************)
Slots == 1 .. MqSize
At(s, i) == IF i \in 1 .. Len(s) THEN s[i] ELSE Null
Path(next, s, q) ==
  /\ IsList(Slots, q) /\ s = At(q, 1)
  /\ \A i \in 1 .. Len(q) : next[q[i]] = At(q, i + 1)

\* No more slots are linked than there are.
LEMMA SlotCount ==
  ASSUME NEW q, IsList(Slots, q)
  PROVE  Len(q) \in Nat /\ Len(q) <= MqSize /\ MqSize \in Nat
<1>1. MqSize \in Nat /\ q \in Seq(Slots) /\ Distinct(q)
  BY IpcAssumption DEF IsList
<1>2. Len(q) \in Nat /\ q \in [1 .. Len(q) -> Slots]
  BY <1>1
<1>3. IsFiniteSet(Slots) /\ Cardinality(Slots) = MqSize
  BY <1>1, FS_Interval DEF Slots
<1>4. Cardinality(1 .. Len(q)) = Len(q)
  BY <1>2, FS_Interval, SMTT(30)
<1>5. q \in Injection(1 .. Len(q), Slots)
  BY <1>1, <1>2 DEF Injection, IsInjective, Distinct
<1>6. Len(q) <= MqSize
  BY <1>3, <1>4, <1>5, FS_Injection
<1> QED BY <1>1, <1>2, <1>6

\* The walk along next has come as far as the first slots of q.
Traced(env, base, s, i, c) ==
  /\ c \in Seq(Slots) /\ Len(c) = (IF i <= Len(env[3]) THEN i ELSE Len(env[3]))
  /\ \A j \in 1 .. Len(c) : c[j] = env[3][j]
Trace == INSTANCE FoldFacts WITH Op <- Follow, Rel <- Traced

\* A pass of the walk.
LEMMA OneTraced ==
  ASSUME NEW next, NEW s, NEW q, Path(next, s, q), NEW env, env = <<next, s, q>>,
         NEW base, NEW l, NEW i \in Nat, i > 0, NEW c, Traced(env, base, l, i - 1, c), NEW j
  PROVE  Traced(env, base, l, i, Follow(env, c, j))
<1>1. env[1] = next /\ env[2] = s /\ env[3] = q
  OBVIOUS
<1>2. q \in Seq(Slots) /\ Distinct(q) /\ Len(q) \in Nat /\ \A a \in 1 .. Len(q) : q[a] \in Slots /\ q[a] # Null
  BY IpcAssumption DEF Path, IsList, Slots, Null
<1>3. /\ c \in Seq(Slots) /\ Len(c) = (IF i - 1 <= Len(q) THEN i - 1 ELSE Len(q))
      /\ \A a \in 1 .. Len(c) : c[a] = q[a]
  BY <1>1 DEF Traced
<1>4. Len(c) \in Nat /\ Len(c) <= Len(q)
  BY <1>2, <1>3
<1>5. PICK e : e = IF c = << >> THEN s ELSE next[Last(c)]
  OBVIOUS
<1>6. e = At(q, Len(c) + 1)
  <2>1. CASE c = << >>
    <3>1. Len(c) + 1 = 1
      BY <2>1
    <3> QED BY <1>5, <2>1, <3>1 DEF Path
  <2>2. CASE c # << >>
    <3>1. Len(c) \in 1 .. Len(q) /\ Last(c) = q[Len(c)]
      BY <1>3, <1>4, <2>2 DEF Last
    <3> QED BY <1>5, <2>2, <3>1 DEF Path
  <2> QED BY <2>1, <2>2
<1>7. Follow(env, c, j) = IF e = Null \/ Contains(c, e) THEN c ELSE Append(c, e)
  BY <1>1, <1>5 DEF Follow
<1>8. CASE Len(c) < Len(q)
  <2>1. Len(c) + 1 \in 1 .. Len(q) /\ Len(c) = i - 1
    BY <1>2, <1>3, <1>4, <1>8
  <2>2. e = q[Len(c) + 1] /\ e \in Slots /\ e # Null
    BY <1>2, <1>6, <2>1 DEF At
  <2>3. ~Contains(c, e)
    <3> SUFFICES ASSUME NEW a \in 1 .. Len(c), c[a] = e PROVE FALSE
      BY DEF Contains
    <3>1. a \in 1 .. Len(q) /\ q[a] = q[Len(c) + 1] /\ a # Len(c) + 1
      BY <1>3, <1>4, <2>2
    <3> QED BY <1>2, <2>1, <3>1 DEF Distinct
  <2>4. Follow(env, c, j) = Append(c, e)
    BY <1>7, <2>2, <2>3
  <2>5. PICK d : d = Append(c, e)
    OBVIOUS
  <2>6. /\ d \in Seq(Slots) /\ Len(d) = Len(c) + 1
        /\ \A a \in 1 .. Len(c) : d[a] = c[a]
        /\ d[Len(c) + 1] = e
    BY <1>3, <2>2, <2>5, AppendProperties
  <2>7. \A a \in 1 .. Len(d) : d[a] = q[a]
    BY <1>3, <1>4, <2>2, <2>6
  <2>8. Len(d) = i /\ i <= Len(q)
    BY <1>2, <2>1, <2>6
  <2> QED BY <1>1, <1>2, <2>4, <2>5, <2>6, <2>7, <2>8 DEF Traced
<1>9. CASE Len(c) = Len(q)
  <2>1. e = Null
    BY <1>4, <1>6, <1>9 DEF At
  <2>2. Follow(env, c, j) = c
    BY <1>7, <2>1
  <2>3. Len(q) = (IF i <= Len(q) THEN i ELSE Len(q))
    BY <1>2, <1>3, <1>9
  <2> QED BY <1>1, <1>3, <1>9, <2>2, <2>3 DEF Traced
<1> QED BY <1>2, <1>4, <1>8, <1>9

\* The slots a list is linked through are what Chain finds.
LEMMA PathIsChain ==
  ASSUME NEW next, NEW s, NEW q, Path(next, s, q)
  PROVE  Chain(next, s) = q
<1>1. PICK env, base, l : env = <<next, s, q>> /\ base = << >> /\ l = [i \in 1 .. MqSize |-> i]
  OBVIOUS
<1>2. /\ MqSize \in Nat /\ Len(q) \in Nat /\ Len(q) <= MqSize /\ q \in Seq(Slots)
      /\ l \in Seq(Int) /\ Len(l) = MqSize
  BY <1>1, SlotCount DEF Path, IsList
<1>3. Traced(env, base, l, 0, base)
  BY <1>1, <1>2 DEF Traced
<1>4. ASSUME NEW i \in 1 .. Len(l), NEW c, Traced(env, base, l, i - 1, c)
      PROVE  Traced(env, base, l, i, Follow(env, c, l[i]))
  BY <1>1, <1>4, OneTraced
<1>5. Traced(env, base, l, Len(l), Trace!Fold(env, base, l))
  BY <1>2, <1>3, <1>4, LeastExists, Trace!FoldKeeps DEF Trace!LeastNumber
<1>6. Trace!Fold(env, base, l) = Chain(next, s)
  BY <1>1 DEF Chain, Follow, Trace!Fold, FoldLeft, MapThenFoldSet, Trace!Greatest, Max
<1>7. PICK c : c = Chain(next, s)
  OBVIOUS
<1>8. c \in Seq(Slots) /\ Len(c) = Len(q) /\ \A j \in 1 .. Len(c) : c[j] = q[j]
  <2>1. env[3] = q
    BY <1>1
  <2>2. Traced(env, base, l, MqSize, c)
    BY <1>2, <1>5, <1>6, <1>7
  <2>3. c \in Seq(Slots) /\ Len(c) = (IF MqSize <= Len(q) THEN MqSize ELSE Len(q))
        /\ \A j \in 1 .. Len(c) : c[j] = q[j]
    BY <2>1, <2>2 DEF Traced
  <2>4. Len(c) = Len(q)
    BY <1>2, <2>3
  <2> QED BY <2>3, <2>4
<1> QED BY <1>2, <1>7, <1>8, SeqEqual

\* The first slot of a list is taken out.
LEMMA PathPop ==
  ASSUME NEW next, NEW s, NEW q, Path(next, s, q), s # Null
  PROVE  /\ s \in Slots /\ InList(s, q) /\ q # << >> /\ s = Head(q) /\ Path(next, next[s], Tail(q))
         /\ \A x : InList(x, Tail(q)) <=> InList(x, q) /\ x # s
         /\ Len(Tail(q)) = Len(q) - 1 /\ Len(q) \in Nat /\ Len(q) > 0
         /\ \A i \in 1 .. Len(q) - 1 : Tail(q)[i] = q[i + 1]
<1>1. q \in Seq(Slots) /\ Distinct(q) /\ Len(q) \in Nat /\ s = At(q, 1)
  BY DEF Path, IsList
<1>2. 1 \in 1 .. Len(q) /\ s = q[1] /\ q # << >>
  BY <1>1 DEF At
<1>3. PICK r : r = Tail(q)
  OBVIOUS
<1>4. r \in Seq(Slots) /\ Len(r) = Len(q) - 1 /\ (\A i \in 1 .. Len(q) - 1 : r[i] = q[i + 1]) /\ s = Head(q)
  BY <1>1, <1>2, <1>3
<1>5. \A x : InList(x, r) <=> \E i \in 1 .. Len(q) - 1 : r[i] = x
  BY <1>4, InListDef
<1>6. \A x : InList(x, q) <=> \E i \in 1 .. Len(q) : q[i] = x
  BY <1>1, InListDef
<1>7. ASSUME NEW x PROVE InList(x, r) <=> InList(x, q) /\ x # s
  <2>1. ASSUME NEW i \in 1 .. Len(q) - 1, r[i] = x PROVE InList(x, q) /\ x # s
    <3>1. i + 1 \in 1 .. Len(q) /\ i + 1 # 1 /\ q[i + 1] = x
      BY <1>1, <1>4, <2>1
    <3> QED BY <1>1, <1>2, <1>6, <3>1 DEF Distinct
  <2>2. ASSUME NEW i \in 1 .. Len(q), q[i] = x, x # s PROVE InList(x, r)
    <3>1. i - 1 \in 1 .. Len(q) - 1 /\ (i - 1) + 1 = i
      BY <1>1, <1>2, <2>2
    <3> QED BY <1>4, <1>5, <2>2, <3>1
  <2> QED BY <1>5, <1>6, <2>1, <2>2
<1>8. Distinct(r)
  <2> SUFFICES ASSUME NEW i \in 1 .. Len(r), NEW j \in 1 .. Len(r), r[i] = r[j] PROVE i = j
    BY DEF Distinct
  <2>1. i + 1 \in 1 .. Len(q) /\ j + 1 \in 1 .. Len(q) /\ q[i + 1] = q[j + 1]
    BY <1>1, <1>4
  <2>2. i + 1 = j + 1
    BY <1>1, <2>1 DEF Distinct
  <2> QED BY <1>1, <1>4, <2>2
<1>9. ASSUME NEW i \in 0 .. Len(r) PROVE At(r, i + 1) = At(q, i + 2)
  BY <1>1, <1>4 DEF At
<1>10. next[s] = At(r, 1)
  <2>1. next[q[1]] = At(q, 1 + 1)
    BY <1>2 DEF Path
  <2>2. At(r, 0 + 1) = At(q, 0 + 2)
    BY <1>1, <1>2, <1>4, <1>9, SMTT(30)
  <2> QED BY <1>2, <2>1, <2>2
<1>11. ASSUME NEW i \in 1 .. Len(r) PROVE next[r[i]] = At(r, i + 1)
  <2>1. r[i] = q[i + 1] /\ i + 1 \in 1 .. Len(q)
    BY <1>1, <1>4
  <2>2. next[q[i + 1]] = At(q, (i + 1) + 1)
    BY <2>1 DEF Path
  <2>3. (i + 1) + 1 = i + 2
    OBVIOUS
  <2> QED BY <1>1, <1>4, <1>9, <2>1, <2>2, <2>3
<1>12. Path(next, next[s], r)
  BY <1>4, <1>8, <1>10, <1>11 DEF Path, IsList
<1>13. InList(s, q) /\ s \in Slots /\ Len(q) > 0
  BY <1>1, <1>2, <1>6
<1> QED BY <1>1, <1>2, <1>3, <1>4, <1>7, <1>12, <1>13

\* A list is empty if and only if it has no first slot.
LEMMA PathEmpty ==
  ASSUME NEW next, NEW s, NEW q, Path(next, s, q)
  PROVE  /\ s = Null <=> q = << >>
         /\ q = << >> <=> Len(q) = 0
         /\ Len(q) \in Nat /\ (s # Null => s \in Slots)
<1>1. q \in Seq(Slots) /\ Len(q) \in Nat /\ s = At(q, 1)
  BY DEF Path, IsList
<1>2. \A i \in 1 .. Len(q) : q[i] \in Slots /\ q[i] # Null
  BY <1>1, IpcAssumption DEF Slots, Null
<1>3. q = << >> <=> Len(q) = 0
  BY <1>1
<1> QED BY <1>1, <1>2, <1>3 DEF At

\* A list does not notice what happens to the slots of others.
LEMMA PathFrame ==
  ASSUME NEW next, NEW s, NEW q, Path(next, s, q), NEW x,
         NEW d, \A i \in Slots : i # x => d[i] = next[i], ~InList(x, q)
  PROVE  Path(d, s, q)
<1>1. q \in Seq(Slots) /\ Len(q) \in Nat /\ \A i \in 1 .. Len(q) : next[q[i]] = At(q, i + 1)
  BY DEF Path, IsList
<1>2. ASSUME NEW i \in 1 .. Len(q) PROVE d[q[i]] = At(q, i + 1)
  <2>1. q[i] \in Slots /\ q[i] # x
    BY <1>1, InListDef
  <2> QED BY <1>1, <2>1
<1> QED BY <1>2 DEF Path

\* A slot is put in front of a list.
LEMMA PathPush ==
  ASSUME NEW next, NEW s, NEW q, Path(next, s, q), NEW x \in Slots, ~InList(x, q), next[x] = s
  PROVE  /\ Path(next, x, Cons(x, q)) /\ Len(Cons(x, q)) = Len(q) + 1 /\ Cons(x, q) \in Seq(Slots)
         /\ \A y : InList(y, Cons(x, q)) <=> InList(y, q) \/ y = x
         /\ Cons(x, q)[1] = x /\ \A i \in 1 .. Len(q) : Cons(x, q)[i + 1] = q[i]
<1>1. q \in Seq(Slots) /\ Len(q) \in Nat /\ IsList(Slots, q) /\ s = At(q, 1)
      /\ \A i \in 1 .. Len(q) : next[q[i]] = At(q, i + 1)
  BY DEF Path, IsList
<1>2. PICK r : r = Cons(x, q)
  OBVIOUS
<1>3. IsList(Slots, r) /\ \A y : InList(y, r) <=> InList(y, q) \/ y = x
  BY <1>1, <1>2, ConsFacts
<1>4. Len(r) = Len(q) + 1 /\ r[1] = x /\ \A i \in 1 .. Len(q) : r[i + 1] = q[i]
  <2>1. r = <<x>> \o q
    BY <1>2 DEF Cons
  <2>2. <<x>> \in Seq(Slots) /\ Len(<<x>>) = 1 /\ <<x>>[1] = x
    OBVIOUS
  <2>3. /\ Len(r) = Len(<<x>>) + Len(q)
        /\ \A j \in 1 .. Len(<<x>>) + Len(q) : r[j] = IF j <= Len(<<x>>) THEN <<x>>[j] ELSE q[j - Len(<<x>>)]
    BY <1>1, <2>1, <2>2, ConcatProperties
  <2>4. Len(r) = 1 + Len(q) /\ \A j \in 1 .. 1 + Len(q) : r[j] = IF j <= 1 THEN <<x>>[j] ELSE q[j - 1]
    BY <2>2, <2>3
  <2> QED BY <1>1, <2>2, <2>4
<1>5. ASSUME NEW i \in 0 .. Len(q) PROVE At(r, i + 2) = At(q, i + 1)
  <2>1. i + 2 \in 1 .. Len(r) <=> i + 1 \in 1 .. Len(q)
    BY <1>1, <1>4
  <2>2. i + 1 \in 1 .. Len(q) => r[(i + 1) + 1] = q[i + 1] /\ (i + 1) + 1 = i + 2
    BY <1>1, <1>4
  <2> QED BY <2>1, <2>2 DEF At
<1>6. ASSUME NEW i \in 1 .. Len(r) PROVE next[r[i]] = At(r, i + 1)
  <2>1. CASE i = 1
    <3>1. At(r, 0 + 2) = At(q, 0 + 1)
      BY <1>1, <1>5
    <3> QED BY <1>1, <1>4, <2>1, <3>1
  <2>2. CASE i # 1
    <3>1. PICK j \in 1 .. Len(q) : i = j + 1
      <4>1. i - 1 \in 1 .. Len(q) /\ i = (i - 1) + 1
        BY <1>1, <1>4, <2>2
      <4> QED BY <4>1
    <3>2. next[q[j]] = At(q, j + 1) /\ r[i] = q[j]
      BY <1>1, <1>4, <3>1
    <3>3. At(r, j + 2) = At(q, j + 1) /\ i + 1 = j + 2
      BY <1>1, <1>5, <3>1
    <3> QED BY <3>2, <3>3
  <2> QED BY <2>1, <2>2
<1>7. x = At(r, 1)
  BY <1>1, <1>4 DEF At
<1> QED BY <1>1, <1>2, <1>3, <1>4, <1>6, <1>7 DEF Path, IsList

\* A slot is put behind the last one of a list.
LEMMA PathAppend ==
  ASSUME NEW next, NEW s, NEW q, Path(next, s, q), NEW x \in Slots, ~InList(x, q),
         NEW l, l = At(q, Len(q)), NEW d, NEW p, p = (IF s = Null THEN x ELSE s), d[x] = Null,
         \A i \in Slots : i # x => d[i] = IF i = l THEN x ELSE next[i]
  PROVE  /\ Path(d, p, Append(q, x)) /\ Len(Append(q, x)) = Len(q) + 1 /\ Append(q, x) \in Seq(Slots)
         /\ \A y : InList(y, Append(q, x)) <=> InList(y, q) \/ y = x
         /\ Append(q, x)[Len(q) + 1] = x /\ \A i \in 1 .. Len(q) : Append(q, x)[i] = q[i]
<1>1. q \in Seq(Slots) /\ Len(q) \in Nat /\ IsList(Slots, q) /\ s = At(q, 1) /\ Distinct(q)
      /\ \A i \in 1 .. Len(q) : next[q[i]] = At(q, i + 1)
  BY DEF Path, IsList
<1>2. PICK r : r = Append(q, x)
  OBVIOUS
<1>3. IsList(Slots, r) /\ \A y : InList(y, r) <=> InList(y, q) \/ y = x
  BY <1>1, <1>2, ConsFacts
<1>4. r \in Seq(Slots) /\ Len(r) = Len(q) + 1 /\ r[Len(q) + 1] = x /\ \A i \in 1 .. Len(q) : r[i] = q[i]
  BY <1>1, <1>2, AppendProperties
<1>5. \A i \in 1 .. Len(q) : q[i] \in Slots /\ q[i] # x /\ q[i] # Null
  BY <1>1, InListDef, IpcAssumption DEF Slots, Null
<1>6. ASSUME NEW i \in 1 .. Len(r) PROVE d[r[i]] = At(r, i + 1)
  <2>1. CASE i = Len(q) + 1
    <3>1. r[i] = x /\ ~(i + 1 \in 1 .. Len(r))
      BY <1>1, <1>4, <2>1
    <3> QED BY <3>1 DEF At
  <2>2. CASE i = Len(q) /\ i # 0
    <3>1. i \in 1 .. Len(q) /\ r[i] = q[i] /\ l = q[i] /\ q[i] \in Slots /\ q[i] # x
      BY <1>1, <1>4, <1>5, <2>2 DEF At
    <3>2. At(r, i + 1) = x
      BY <1>1, <1>4, <2>2 DEF At
    <3> QED BY <3>1, <3>2
  <2>3. CASE i < Len(q)
    <3>1. i \in 1 .. Len(q) /\ i + 1 \in 1 .. Len(q) /\ Len(q) \in 1 .. Len(q) /\ i # Len(q)
      BY <1>1, <2>3
    <3>2. r[i] = q[i] /\ q[i] \in Slots /\ q[i] # x /\ l = q[Len(q)]
      BY <1>4, <1>5, <3>1 DEF At
    <3>3. q[i] # l
      BY <1>1, <3>1, <3>2 DEF Distinct
    <3>4. d[q[i]] = next[q[i]] /\ next[q[i]] = At(q, i + 1)
      BY <1>1, <3>1, <3>2, <3>3
    <3>5. At(r, i + 1) = At(q, i + 1)
      BY <1>1, <1>4, <3>1 DEF At
    <3> QED BY <3>2, <3>4, <3>5
  <2> QED BY <1>1, <1>4, <2>1, <2>2, <2>3
<1>7. p = At(r, 1)
  <2>1. CASE Len(q) = 0
    BY <1>1, <1>4, <2>1 DEF At
  <2>2. CASE Len(q) # 0
    <3>1. 1 \in 1 .. Len(q) /\ 1 \in 1 .. Len(r)
      BY <1>1, <1>4, <2>2
    <3> QED BY <1>1, <1>4, <1>5, <3>1 DEF At
  <2> QED BY <2>1, <2>2
<1> QED BY <1>1, <1>2, <1>3, <1>4, <1>6, <1>7 DEF Path, IsList

-----------------------------------------------------------------------------
(* Thread t copies a message into or out of its slot. *)
Copies(h, t) == h[t].at = "copy"

\* The message queue q, when the threads are at h: the slots Q are queued, the
\* slots R are free, and no slot that is copied is either.
SlotUse(q, h, Q, R) ==
  /\ DOMAIN q.next = Slots /\ DOMAIN q.val = Slots
  /\ Path(q.next, q.head, Q) /\ Path(q.next, q.free, R)
  /\ q.entry = Len(Q) /\ q.tail = At(Q, Len(Q))
  /\ \A x \in Slots : ~(InList(x, Q) /\ InList(x, R))
  /\ \A t \in Threads : Copies(h, t) =>
       h[t].slot \in Slots /\ ~InList(h[t].slot, Q) /\ ~InList(h[t].slot, R)
  /\ \A t, u \in Threads : Copies(h, t) /\ Copies(h, u) /\ h[t].slot = h[u].slot => t = u

\* No slot is lost.
Covered(h, Q, R) ==
  \A x \in Slots : InList(x, Q) \/ InList(x, R) \/ \E t \in Threads : Copies(h, t) /\ h[t].slot = x

\* The messages of a queue.
Texts(val, Q) == [i \in 1 .. Len(Q) |-> val[Q[i]]]

\* A slot is taken from the free list.
LEMMA SlotReserved ==
  ASSUME NEW q, NEW h, NEW Q, NEW R, SlotUse(q, h, Q, R), q.free # Null,
         NEW p, p.next = q.next, p.val = q.val, p.head = q.head, p.tail = q.tail, p.entry = q.entry,
         p.free = q.next[q.free],
         NEW t \in Threads, ~Copies(h, t), NEW e, e.at = "copy", e.slot = q.free,
         NEW g, Goes(h, g, t, e)
  PROVE  /\ SlotUse(p, g, Q, Tail(R)) /\ (Covered(h, Q, R) => Covered(g, Q, Tail(R)))
<1>1. Path(q.next, q.head, Q) /\ Path(q.next, q.free, R)
  BY DEF SlotUse
<1>2. /\ q.free \in Slots /\ InList(q.free, R) /\ Path(q.next, q.next[q.free], Tail(R))
      /\ \A x : InList(x, Tail(R)) <=> InList(x, R) /\ x # q.free
  BY <1>1, PathPop
<1>3. g[t] = e /\ \A u \in Threads : u # t => g[u] = h[u]
  BY DEF Goes
<1>4. \A x \in Slots : ~(InList(x, Q) /\ InList(x, Tail(R)))
  BY <1>2 DEF SlotUse
<1>5. ASSUME NEW u \in Threads, Copies(g, u)
      PROVE  g[u].slot \in Slots /\ ~InList(g[u].slot, Q) /\ ~InList(g[u].slot, Tail(R))
  <2>1. CASE u = t
    BY <1>2, <1>3, <2>1 DEF SlotUse
  <2>2. CASE u # t
    BY <1>2, <1>3, <1>5, <2>2 DEF SlotUse, Copies
  <2> QED BY <2>1, <2>2
<1>6. \A u \in Threads : u # t /\ Copies(g, u) => g[u].slot # q.free
  BY <1>2, <1>3 DEF SlotUse, Copies
<1>7. \A u, v \in Threads : Copies(g, u) /\ Copies(g, v) /\ g[u].slot = g[v].slot => u = v
  BY <1>3, <1>6 DEF SlotUse, Copies
<1>8. SlotUse(p, g, Q, Tail(R))
  BY <1>1, <1>2, <1>4, <1>5, <1>7 DEF SlotUse
<1>9. ASSUME Covered(h, Q, R) PROVE Covered(g, Q, Tail(R))
  BY <1>2, <1>3, <1>9 DEF Covered, Copies
<1> QED BY <1>8, <1>9

\* A thread t whose slot is x stops copying; the slot goes into one list.
SlotLeaves(h, g, t, x) ==
  /\ t \in Threads /\ Copies(h, t) /\ x = h[t].slot /\ ~Copies(g, t)
  /\ \A u \in Threads : u # t => g[u] = h[u]

\* What holds of the others then.
LEMMA OthersCopy ==
  ASSUME NEW q, NEW h, NEW Q, NEW R, SlotUse(q, h, Q, R), NEW g, NEW t, NEW x, SlotLeaves(h, g, t, x)
  PROVE  /\ x \in Slots /\ ~InList(x, Q) /\ ~InList(x, R)
         /\ \A u \in Threads : Copies(g, u) => g[u].slot \in Slots /\ ~InList(g[u].slot, Q)
                                                /\ ~InList(g[u].slot, R) /\ g[u].slot # x
         /\ \A u, w \in Threads : Copies(g, u) /\ Copies(g, w) /\ g[u].slot = g[w].slot => u = w
         /\ \A y : (\E u \in Threads : Copies(h, u) /\ h[u].slot = y) =>
              y = x \/ \E u \in Threads : Copies(g, u) /\ g[u].slot = y
<1>1. t \in Threads /\ Copies(h, t) /\ x = h[t].slot /\ \A u \in Threads : Copies(g, u) => u # t /\ g[u] = h[u]
  BY DEF SlotLeaves
<1>2. x \in Slots /\ ~InList(x, Q) /\ ~InList(x, R)
  BY <1>1 DEF SlotUse
<1>3. ASSUME NEW u \in Threads, Copies(g, u)
      PROVE  g[u].slot \in Slots /\ ~InList(g[u].slot, Q) /\ ~InList(g[u].slot, R) /\ g[u].slot # x
  <2>1. Copies(h, u) /\ g[u].slot = h[u].slot /\ u # t
    BY <1>1, <1>3 DEF Copies
  <2> QED BY <1>1, <2>1 DEF SlotUse
<1>4. \A u, v \in Threads : Copies(g, u) /\ Copies(g, v) /\ g[u].slot = g[v].slot => u = v
  BY <1>1 DEF SlotUse, Copies
<1>5. ASSUME NEW y, NEW u \in Threads, Copies(h, u), h[u].slot = y
      PROVE  y = x \/ \E v \in Threads : Copies(g, v) /\ g[v].slot = y
  BY <1>1, <1>5 DEF SlotLeaves, Copies
<1> QED BY <1>2, <1>3, <1>4, <1>5

\* Slot x has been put behind the queue q, in front of it, or into the free
\* list, or the queue has been emptied.
Behind(q, p, x, v) ==
  /\ p.free = q.free /\ p.tail = x /\ p.entry = q.entry + 1 /\ p.val = [q.val EXCEPT ![x] = v]
  /\ p.head = (IF q.head = Null THEN x ELSE q.head) /\ DOMAIN p.next = Slots /\ p.next[x] = Null
  /\ \A i \in Slots : i # x => p.next[i] = IF i = q.tail THEN x ELSE q.next[i]
Fronted(q, p, x, v) ==
  /\ p.free = q.free /\ p.head = x /\ p.entry = q.entry + 1 /\ p.val = [q.val EXCEPT ![x] = v]
  /\ p.tail = (IF q.tail = Null THEN x ELSE q.tail) /\ p.next = [q.next EXCEPT ![x] = q.head]
Freed(q, p, x) ==
  /\ p.free = x /\ p.head = q.head /\ p.tail = q.tail /\ p.entry = q.entry
  /\ p.val = [q.val EXCEPT ![x] = None] /\ p.next = [q.next EXCEPT ![x] = q.free]
Emptied(m, p) ==
  /\ p.next = m.next /\ p.val = m.val /\ p.free = m.free /\ p.head = Null /\ p.tail = Null /\ p.entry = 0

\* A slot is put behind the queue.
LEMMA SlotQueued ==
  ASSUME NEW q, NEW h, NEW Q, NEW R, SlotUse(q, h, Q, R), NEW g, NEW t, NEW x, SlotLeaves(h, g, t, x),
         NEW v, NEW p, Behind(q, p, x, v)
  PROVE  /\ SlotUse(p, g, Append(Q, x), R) /\ (Covered(h, Q, R) => Covered(g, Append(Q, x), R))
         /\ Texts(p.val, Append(Q, x)) = Append(Texts(q.val, Q), v)
<1>0. /\ p.free = q.free /\ p.tail = x /\ p.entry = q.entry + 1 /\ p.val = [q.val EXCEPT ![x] = v]
      /\ p.head = (IF q.head = Null THEN x ELSE q.head) /\ DOMAIN p.next = Slots /\ p.next[x] = Null
      /\ \A i \in Slots : i # x => p.next[i] = IF i = q.tail THEN x ELSE q.next[i]
  BY DEF Behind
<1> USE <1>0
<1>1. /\ Path(q.next, q.head, Q) /\ Path(q.next, q.free, R) /\ q.tail = At(Q, Len(Q)) /\ q.entry = Len(Q)
      /\ DOMAIN q.val = Slots /\ Q \in Seq(Slots) /\ Len(Q) \in Nat /\ R \in Seq(Slots)
  BY DEF SlotUse, Path, IsList
<1>2. /\ x \in Slots /\ ~InList(x, Q) /\ ~InList(x, R)
      /\ \A u \in Threads : Copies(g, u) => g[u].slot \in Slots /\ ~InList(g[u].slot, Q)
                                             /\ ~InList(g[u].slot, R) /\ g[u].slot # x
      /\ \A u, w \in Threads : Copies(g, u) /\ Copies(g, w) /\ g[u].slot = g[w].slot => u = w
      /\ \A y : (\E u \in Threads : Copies(h, u) /\ h[u].slot = y) =>
           y = x \/ \E u \in Threads : Copies(g, u) /\ g[u].slot = y
  BY ONLY SlotUse(q, h, Q, R), SlotLeaves(h, g, t, x), OthersCopy
<1>3. PICK S : S = Append(Q, x)
  OBVIOUS
<1>4. /\ Path(p.next, p.head, S) /\ Len(S) = Len(Q) + 1 /\ S \in Seq(Slots)
      /\ \A y : InList(y, S) <=> InList(y, Q) \/ y = x
      /\ S[Len(Q) + 1] = x /\ \A i \in 1 .. Len(Q) : S[i] = Q[i]
  <2>1. PICK l, d, y : l = q.tail /\ d = p.next /\ y = p.head
    OBVIOUS
  <2>2. /\ l = At(Q, Len(Q)) /\ y = (IF q.head = Null THEN x ELSE q.head) /\ d[x] = Null
        /\ \A i \in Slots : i # x => d[i] = IF i = l THEN x ELSE q.next[i]
    BY <1>1, <2>1
  <2> QED BY ONLY <1>1, <1>2, <1>3, <2>1, <2>2, PathAppend
<1>5. Path(p.next, p.free, R)
  <2>1. \A i \in 1 .. Len(R) : R[i] \in Slots /\ R[i] # x /\ R[i] # q.tail
    <3>1. \A i \in 1 .. Len(R) : R[i] \in Slots /\ InList(R[i], R)
      BY <1>1, InListDef
    <3>2. Len(Q) # 0 => InList(q.tail, Q)
      <4>1. Len(Q) # 0 => Len(Q) \in 1 .. Len(Q)
        BY <1>1
      <4> QED BY <1>1, <4>1, InListDef DEF At
    <3>3. Len(Q) = 0 => q.tail = Null /\ Null \notin Slots
      BY <1>1 DEF At, Slots, Null
    <3> QED BY <1>2, <3>1, <3>2, <3>3 DEF SlotUse
  <2>2. \A i \in 1 .. Len(R) : p.next[R[i]] = q.next[R[i]]
    BY <2>1
  <2> QED BY <1>1, <2>2 DEF Path
<1>6. p.tail = At(S, Len(S)) /\ p.entry = Len(S)
  BY <1>1, <1>4 DEF At
<1>7. \A y \in Slots : ~(InList(y, S) /\ InList(y, R))
  BY <1>2, <1>4 DEF SlotUse
<1>8. SlotUse(p, g, S, R)
  BY <1>1, <1>2, <1>4, <1>5, <1>6, <1>7 DEF SlotUse
<1>9. ASSUME Covered(h, Q, R) PROVE Covered(g, S, R)
  BY <1>2, <1>4, <1>9 DEF Covered
<1>10. Texts(p.val, S) = Append(Texts(q.val, Q), v)
  <2>1. PICK T : T = Texts(q.val, Q)
    OBVIOUS
  <2>2. T \in Seq({q.val[i] : i \in Slots}) /\ Len(T) = Len(Q) /\ \A i \in 1 .. Len(Q) : T[i] = q.val[Q[i]]
    BY <1>1, <2>1 DEF Texts
  <2>3. PICK Y, V : Y = Append(T, v) /\ V = {q.val[i] : i \in Slots} \cup {v}
    OBVIOUS
  <2>4. T \in Seq(V) /\ v \in V
    BY <1>1, <2>1, <2>3 DEF Texts
  <2>5. Y \in Seq(V) /\ Len(Y) = Len(Q) + 1 /\ Y[Len(Q) + 1] = v /\ \A i \in 1 .. Len(Q) : Y[i] = T[i]
    BY <2>2, <2>3, <2>4, AppendProperties
  <2>6. ASSUME NEW i \in 1 .. Len(Q) + 1 PROVE p.val[S[i]] = Y[i]
    <3>1. CASE i <= Len(Q)
      <4>1. i \in 1 .. Len(Q) /\ S[i] = Q[i] /\ Q[i] \in Slots /\ Y[i] = q.val[Q[i]]
        BY <1>1, <1>4, <2>2, <2>5, <3>1
      <4>2. Q[i] # x
        BY <1>1, <1>2, <4>1, InListDef
      <4> QED BY <1>1, <4>1, <4>2
    <3>2. CASE ~(i <= Len(Q))
      <4>1. i = Len(Q) + 1
        BY <1>1, <3>2
      <4> QED BY <1>1, <1>2, <1>4, <2>5, <4>1
    <3> QED BY <3>1, <3>2
  <2>7. PICK Z : Z = Texts(p.val, S)
    OBVIOUS
  <2>8. Z = [i \in 1 .. Len(Q) + 1 |-> Y[i]]
    BY <1>4, <2>6, <2>7 DEF Texts
  <2>9. Z = Y
    BY <2>5, <2>8
  <2> QED BY <2>1, <2>3, <2>7, <2>9
<1> QED BY <1>3, <1>8, <1>9, <1>10

\* A slot is put in front of the queue.
LEMMA SlotFirst ==
  ASSUME NEW q, NEW h, NEW Q, NEW R, SlotUse(q, h, Q, R), NEW g, NEW t, NEW x, SlotLeaves(h, g, t, x),
         NEW v, NEW p, Fronted(q, p, x, v)
  PROVE  /\ SlotUse(p, g, Cons(x, Q), R) /\ (Covered(h, Q, R) => Covered(g, Cons(x, Q), R))
         /\ Texts(p.val, Cons(x, Q)) = <<v>> \o Texts(q.val, Q)
<1>0. /\ p.free = q.free /\ p.head = x /\ p.entry = q.entry + 1 /\ p.val = [q.val EXCEPT ![x] = v]
      /\ p.tail = (IF q.tail = Null THEN x ELSE q.tail) /\ p.next = [q.next EXCEPT ![x] = q.head]
  BY DEF Fronted
<1> USE <1>0
<1>1. /\ Path(q.next, q.head, Q) /\ Path(q.next, q.free, R) /\ q.tail = At(Q, Len(Q)) /\ q.entry = Len(Q)
      /\ DOMAIN q.val = Slots /\ DOMAIN q.next = Slots /\ Q \in Seq(Slots) /\ Len(Q) \in Nat
  BY DEF SlotUse, Path, IsList
<1>2. /\ x \in Slots /\ ~InList(x, Q) /\ ~InList(x, R)
      /\ \A u \in Threads : Copies(g, u) => g[u].slot \in Slots /\ ~InList(g[u].slot, Q)
                                             /\ ~InList(g[u].slot, R) /\ g[u].slot # x
      /\ \A u, w \in Threads : Copies(g, u) /\ Copies(g, w) /\ g[u].slot = g[w].slot => u = w
      /\ \A y : (\E u \in Threads : Copies(h, u) /\ h[u].slot = y) =>
           y = x \/ \E u \in Threads : Copies(g, u) /\ g[u].slot = y
  BY ONLY SlotUse(q, h, Q, R), SlotLeaves(h, g, t, x), OthersCopy
<1>3. PICK S : S = Cons(x, Q)
  OBVIOUS
<1>4. DOMAIN p.next = Slots /\ p.next[x] = q.head /\ \A i \in Slots : i # x => p.next[i] = q.next[i]
  BY <1>1, <1>2
<1>5. Path(p.next, q.head, Q) /\ Path(p.next, p.free, R)
  BY <1>1, <1>2, <1>4, PathFrame
<1>6. /\ Path(p.next, p.head, S) /\ Len(S) = Len(Q) + 1 /\ S \in Seq(Slots)
      /\ \A y : InList(y, S) <=> InList(y, Q) \/ y = x
      /\ S[1] = x /\ \A i \in 1 .. Len(Q) : S[i + 1] = Q[i]
  BY <1>2, <1>3, <1>4, <1>5, PathPush
<1>7. p.tail = At(S, Len(S))
  <2>1. CASE Len(Q) = 0
    BY <1>1, <1>6, <2>1 DEF At
  <2>2. CASE Len(Q) # 0
    <3>1. Len(Q) \in 1 .. Len(Q) /\ Len(S) \in 1 .. Len(S)
      BY <1>1, <1>6, <2>2
    <3>2. q.tail = Q[Len(Q)] /\ S[Len(Q) + 1] = Q[Len(Q)] /\ Q[Len(Q)] \in Slots
      BY <1>1, <1>6, <3>1 DEF At
    <3>3. q.tail # Null
      BY <3>2 DEF Slots, Null
    <3> QED BY <1>6, <3>1, <3>2, <3>3 DEF At
  <2> QED BY <2>1, <2>2
<1>8. \A y \in Slots : ~(InList(y, S) /\ InList(y, R))
  BY <1>2, <1>6 DEF SlotUse
<1>9. SlotUse(p, g, S, R)
  BY <1>1, <1>2, <1>4, <1>5, <1>6, <1>7, <1>8 DEF SlotUse
<1>10. ASSUME Covered(h, Q, R) PROVE Covered(g, S, R)
  BY <1>2, <1>6, <1>10 DEF Covered
<1>11. Texts(p.val, S) = <<v>> \o Texts(q.val, Q)
  <2>1. PICK T, V : T = Texts(q.val, Q) /\ V = {q.val[i] : i \in Slots} \cup {v}
    OBVIOUS
  <2>2. T \in Seq(V) /\ Len(T) = Len(Q) /\ \A i \in 1 .. Len(Q) : T[i] = q.val[Q[i]]
    BY <1>1, <2>1 DEF Texts
  <2>3. <<v>> \in Seq(V) /\ Len(<<v>>) = 1 /\ <<v>>[1] = v
    BY <2>1
  <2>4. PICK Y : Y = <<v>> \o T
    OBVIOUS
  <2>5. /\ Y \in Seq(V) /\ Len(Y) = Len(<<v>>) + Len(T)
        /\ \A j \in 1 .. Len(<<v>>) + Len(T) : Y[j] = IF j <= Len(<<v>>) THEN <<v>>[j] ELSE T[j - Len(<<v>>)]
    BY <2>2, <2>3, <2>4, ConcatProperties
  <2>6. Len(Y) = Len(Q) + 1 /\ Y[1] = v /\ \A j \in 1 .. Len(Q) : Y[j + 1] = T[j]
    BY <1>1, <2>2, <2>3, <2>5
  <2>7. ASSUME NEW i \in 1 .. Len(Q) + 1 PROVE p.val[S[i]] = Y[i]
    <3>1. CASE i = 1
      BY <1>1, <1>2, <1>6, <2>6, <3>1
    <3>2. CASE i # 1
      <4>1. PICK j \in 1 .. Len(Q) : i = j + 1
        <5>1. i - 1 \in 1 .. Len(Q) /\ i = (i - 1) + 1
          BY <1>1, <3>2
        <5> QED BY <5>1
      <4>2. S[i] = Q[j] /\ Q[j] \in Slots /\ Y[i] = q.val[Q[j]]
        BY <1>1, <1>6, <2>2, <2>6, <4>1
      <4>3. Q[j] # x
        BY <1>1, <1>2, <4>1, InListDef
      <4> QED BY <1>1, <4>2, <4>3
    <3> QED BY <3>1, <3>2
  <2>8. PICK Z : Z = Texts(p.val, S)
    OBVIOUS
  <2>9. Z = [i \in 1 .. Len(Q) + 1 |-> Y[i]]
    BY <1>6, <2>7, <2>8 DEF Texts
  <2>10. Z = Y
    BY <2>5, <2>6, <2>9
  <2> QED BY <2>1, <2>4, <2>8, <2>10
<1> QED BY <1>3, <1>9, <1>10, <1>11

\* The first slot of the queue is taken out.
LEMMA SlotTaken ==
  ASSUME NEW q, NEW h, NEW Q, NEW R, SlotUse(q, h, Q, R), q.entry # 0,
         NEW p, p.next = q.next, p.val = q.val, p.free = q.free, p.entry = q.entry - 1,
         p.head = q.next[q.head], p.tail = (IF q.tail = q.head THEN Null ELSE q.tail),
         NEW t \in Threads, ~Copies(h, t), NEW e, e.at = "copy", e.slot = q.head,
         NEW g, Goes(h, g, t, e)
  PROVE  /\ SlotUse(p, g, Tail(Q), R) /\ (Covered(h, Q, R) => Covered(g, Tail(Q), R))
         /\ Texts(q.val, Q) # << >> /\ q.val[q.head] = Head(Texts(q.val, Q))
         /\ Texts(p.val, Tail(Q)) = Tail(Texts(q.val, Q))
<1>1. /\ Path(q.next, q.head, Q) /\ Path(q.next, q.free, R) /\ q.tail = At(Q, Len(Q)) /\ q.entry = Len(Q)
      /\ Q \in Seq(Slots) /\ Len(Q) \in Nat /\ Distinct(Q)
  BY DEF SlotUse, Path, IsList
<1>2. q.head # Null
  BY <1>1, PathEmpty
<1>3. PICK S : S = Tail(Q)
  OBVIOUS
<1>4. /\ q.head \in Slots /\ InList(q.head, Q) /\ Path(q.next, q.next[q.head], S) /\ q.head = Head(Q)
      /\ \A x : InList(x, S) <=> InList(x, Q) /\ x # q.head
      /\ Len(S) = Len(Q) - 1 /\ Len(Q) > 0
      /\ \A i \in 1 .. Len(Q) - 1 : S[i] = Q[i + 1]
  BY <1>1, <1>2, <1>3, PathPop
<1>5. g[t] = e /\ \A u \in Threads : u # t => g[u] = h[u]
  BY DEF Goes
<1>6. \A x \in Slots : ~(InList(x, S) /\ InList(x, R))
  BY <1>4 DEF SlotUse
<1>7. ASSUME NEW u \in Threads, Copies(g, u)
      PROVE  g[u].slot \in Slots /\ ~InList(g[u].slot, S) /\ ~InList(g[u].slot, R)
  <2>1. CASE u = t
    BY <1>4, <1>5, <2>1 DEF SlotUse
  <2>2. CASE u # t
    BY <1>4, <1>5, <1>7, <2>2 DEF SlotUse, Copies
  <2> QED BY <2>1, <2>2
<1>8. \A u \in Threads : u # t /\ Copies(g, u) => g[u].slot # q.head
  BY <1>4, <1>5 DEF SlotUse, Copies
<1>9. \A u, v \in Threads : Copies(g, u) /\ Copies(g, v) /\ g[u].slot = g[v].slot => u = v
  BY <1>5, <1>8 DEF SlotUse, Copies
<1>10. p.tail = At(S, Len(S))
  <2>1. Q[1] = q.head /\ 1 \in 1 .. Len(Q) /\ Len(Q) \in 1 .. Len(Q) /\ q.tail = Q[Len(Q)]
    BY <1>1, <1>4 DEF At
  <2>2. q.tail = q.head <=> Len(Q) = 1
    BY <1>1, <2>1 DEF Distinct
  <2>3. CASE Len(Q) = 1
    <3>1. ~(Len(S) \in 1 .. Len(S))
      BY <1>4, <2>3
    <3> QED BY <2>2, <2>3, <3>1 DEF At
  <2>4. CASE Len(Q) # 1
    <3>1. Len(S) \in 1 .. Len(S) /\ Len(S) \in 1 .. Len(Q) - 1 /\ Len(S) + 1 = Len(Q)
      BY <1>1, <1>4, <2>4
    <3>2. S[Len(S)] = Q[Len(Q)]
      BY <1>4, <3>1
    <3> QED BY <2>1, <2>2, <2>4, <3>1, <3>2 DEF At
  <2> QED BY <2>3, <2>4
<1>11. p.entry = Len(S) /\ DOMAIN p.next = Slots /\ DOMAIN p.val = Slots
  BY <1>1, <1>4 DEF SlotUse
<1>12. SlotUse(p, g, S, R)
  BY <1>1, <1>4, <1>6, <1>7, <1>9, <1>10, <1>11 DEF SlotUse
<1>13. ASSUME Covered(h, Q, R) PROVE Covered(g, S, R)
  BY <1>4, <1>5, <1>13 DEF Covered, Copies
<1>14. PICK T, V : T = Texts(q.val, Q) /\ V = {q.val[i] : i \in Slots}
  OBVIOUS
<1>15. T \in Seq(V) /\ Len(T) = Len(Q) /\ \A i \in 1 .. Len(Q) : T[i] = q.val[Q[i]]
  BY <1>1, <1>14 DEF Texts
<1>16. T # << >> /\ Head(T) = T[1] /\ Tail(T) \in Seq(V) /\ Len(Tail(T)) = Len(Q) - 1
       /\ \A i \in 1 .. Len(Q) - 1 : Tail(T)[i] = T[i + 1]
  BY <1>4, <1>15
<1>17. q.val[q.head] = Head(T)
  <2>1. Q[1] = q.head /\ 1 \in 1 .. Len(Q)
    BY <1>1, <1>4
  <2> QED BY <1>15, <1>16, <2>1
<1>18. Texts(p.val, S) = Tail(T)
  <2>1. ASSUME NEW i \in 1 .. Len(Q) - 1 PROVE p.val[S[i]] = Tail(T)[i]
    <3>1. i + 1 \in 1 .. Len(Q)
      BY <1>1
    <3> QED BY <1>4, <1>15, <1>16, <3>1
  <2>2. PICK Y, Z : Y = Tail(T) /\ Z = Texts(p.val, S)
    OBVIOUS
  <2>3. Z = [i \in 1 .. Len(Q) - 1 |-> Y[i]]
    BY <1>4, <2>1, <2>2 DEF Texts
  <2>4. Y \in Seq(V) /\ Len(Y) = Len(Q) - 1
    BY <1>16, <2>2
  <2>5. Z = Y
    BY <2>3, <2>4
  <2> QED BY <2>2, <2>5
<1> QED BY <1>3, <1>12, <1>13, <1>14, <1>16, <1>17, <1>18

\* What is written into other slots does not change the messages.
LEMMA TextsSame ==
  ASSUME NEW Q, IsList(Slots, Q), NEW a, NEW b, \A i \in Slots : InList(i, Q) => b[i] = a[i]
  PROVE  Texts(b, Q) = Texts(a, Q)
<1>1. Q \in Seq(Slots)
  BY DEF IsList
<1>2. \A i \in 1 .. Len(Q) : Q[i] \in Slots /\ InList(Q[i], Q)
  BY <1>1, InListDef
<1> QED BY <1>2 DEF Texts

\* A slot is given back.
LEMMA SlotFreed ==
  ASSUME NEW q, NEW h, NEW Q, NEW R, SlotUse(q, h, Q, R), NEW g, NEW t, NEW x, SlotLeaves(h, g, t, x),
         NEW p, Freed(q, p, x)
  PROVE  /\ SlotUse(p, g, Q, Cons(x, R)) /\ (Covered(h, Q, R) => Covered(g, Q, Cons(x, R)))
         /\ Texts(p.val, Q) = Texts(q.val, Q)
<1>0. /\ p.free = x /\ p.head = q.head /\ p.tail = q.tail /\ p.entry = q.entry
      /\ p.val = [q.val EXCEPT ![x] = None] /\ p.next = [q.next EXCEPT ![x] = q.free]
  BY DEF Freed
<1> USE <1>0
<1>1. /\ Path(q.next, q.head, Q) /\ Path(q.next, q.free, R) /\ q.tail = At(Q, Len(Q)) /\ q.entry = Len(Q)
      /\ DOMAIN q.val = Slots /\ DOMAIN q.next = Slots /\ IsList(Slots, Q)
  BY DEF SlotUse, Path
<1>2. /\ x \in Slots /\ ~InList(x, Q) /\ ~InList(x, R)
      /\ \A u \in Threads : Copies(g, u) => g[u].slot \in Slots /\ ~InList(g[u].slot, Q)
                                             /\ ~InList(g[u].slot, R) /\ g[u].slot # x
      /\ \A u, w \in Threads : Copies(g, u) /\ Copies(g, w) /\ g[u].slot = g[w].slot => u = w
      /\ \A y : (\E u \in Threads : Copies(h, u) /\ h[u].slot = y) =>
           y = x \/ \E u \in Threads : Copies(g, u) /\ g[u].slot = y
  BY ONLY SlotUse(q, h, Q, R), SlotLeaves(h, g, t, x), OthersCopy
<1>3. PICK S : S = Cons(x, R)
  OBVIOUS
<1>4. DOMAIN p.next = Slots /\ p.next[x] = q.free /\ \A i \in Slots : i # x => p.next[i] = q.next[i]
  BY <1>1, <1>2
<1>5. Path(p.next, p.head, Q) /\ Path(p.next, q.free, R)
  BY <1>1, <1>2, <1>4, PathFrame
<1>6. Path(p.next, p.free, S) /\ \A y : InList(y, S) <=> InList(y, R) \/ y = x
  BY <1>2, <1>3, <1>4, <1>5, PathPush
<1>7. \A y \in Slots : ~(InList(y, Q) /\ InList(y, S))
  BY <1>2, <1>6 DEF SlotUse
<1>8. SlotUse(p, g, Q, S)
  BY <1>1, <1>2, <1>4, <1>5, <1>6, <1>7 DEF SlotUse
<1>9. ASSUME Covered(h, Q, R) PROVE Covered(g, Q, S)
  BY <1>2, <1>6, <1>9 DEF Covered
<1>10. Texts(p.val, Q) = Texts(q.val, Q)
  <2>1. \A i \in Slots : InList(i, Q) => p.val[i] = q.val[i]
    BY <1>1, <1>2
  <2> QED BY <1>1, <2>1, TextsSame
<1> QED BY <1>3, <1>8, <1>9, <1>10

\* After i passes of the loop of rt_mq_control the first i messages of the
\* list s are free too; env is the free list before it.
Flushed(env, base, s, i, d) ==
  /\ SameBut(base, d, {"mq"}) /\ DOMAIN d.mq = DOMAIN base.mq
  /\ DOMAIN d.mq.next = Slots /\ DOMAIN d.mq.val = Slots
  /\ \E R : /\ Path(d.mq.next, d.mq.free, R)
            /\ \A x : InList(x, R) <=> InList(x, env) \/ \E j \in 1 .. Len(s) : j <= i /\ s[j] = x
Drain == INSTANCE FoldFacts WITH Op <- Release, Rel <- Flushed

\* A pass of it.
LEMMA OneFlushed ==
  ASSUME NEW env, NEW base, NEW s, IsList(Slots, s), \A x : ~(InList(x, s) /\ InList(x, env)),
         {"next", "free", "val"} \subseteq DOMAIN base.mq,
         NEW i \in 1 .. Len(s), NEW d, Flushed(env, base, s, i - 1, d)
  PROVE  Flushed(env, base, s, i, Release(env, d, s[i]))
<1>1. s \in Seq(Slots) /\ Len(s) \in Nat /\ s[i] \in Slots /\ InList(s[i], s) /\ Distinct(s)
  BY InListDef DEF IsList
<1>2. PICK x : x = s[i]
  OBVIOUS
<1>3. /\ SameBut(base, d, {"mq"}) /\ DOMAIN d.mq = DOMAIN base.mq
      /\ DOMAIN d.mq.next = Slots /\ DOMAIN d.mq.val = Slots /\ "mq" \in DOMAIN d
  BY DEF Flushed, SameBut, Fields
<1>4. PICK R : /\ Path(d.mq.next, d.mq.free, R)
               /\ \A y : InList(y, R) <=> InList(y, env) \/ \E j \in 1 .. Len(s) : j <= i - 1 /\ s[j] = y
  BY DEF Flushed
<1>5. ~InList(x, R)
  <2>1. ASSUME NEW j \in 1 .. Len(s), j <= i - 1, s[j] = x PROVE FALSE
    BY <1>1, <1>2, <2>1 DEF Distinct
  <2> QED BY <1>1, <1>2, <1>4, <2>1
<1>6. PICK e : e = Release(env, d, x)
  OBVIOUS
<1>7. /\ SameBut(base, e, {"mq"}) /\ DOMAIN e.mq = DOMAIN base.mq
      /\ e.mq.next = [d.mq.next EXCEPT ![x] = d.mq.free] /\ e.mq.free = x
      /\ e.mq.val = [d.mq.val EXCEPT ![x] = None]
  BY <1>3, <1>6 DEF Release, mq_release, SameBut, Fields
<1>8. /\ DOMAIN e.mq.next = Slots /\ DOMAIN e.mq.val = Slots /\ e.mq.next[x] = d.mq.free
      /\ \A y \in Slots : y # x => e.mq.next[y] = d.mq.next[y]
  BY <1>1, <1>2, <1>3, <1>7
<1>9. Path(e.mq.next, d.mq.free, R)
  BY <1>4, <1>5, <1>8, PathFrame
<1>10. Path(e.mq.next, x, Cons(x, R)) /\ \A y : InList(y, Cons(x, R)) <=> InList(y, R) \/ y = x
  BY <1>1, <1>2, <1>5, <1>8, <1>9, PathPush
<1>11. \A y : (\E j \in 1 .. Len(s) : j <= i /\ s[j] = y) <=>
              y = x \/ \E j \in 1 .. Len(s) : j <= i - 1 /\ s[j] = y
  BY <1>1, <1>2
<1>12. Flushed(env, base, s, i, e)
  BY <1>4, <1>7, <1>8, <1>10, <1>11 DEF Flushed
<1> QED BY <1>2, <1>6, <1>12

\* Nobody starts or stops copying.
SameCopies(h, g) ==
  \A t \in Threads : (Copies(g, t) <=> Copies(h, t)) /\ (Copies(g, t) => g[t].slot = h[t].slot)

\* The loop of rt_mq_control.
Drained(b, Q) == FoldLeft(mq_release, b, Q)

\* The queue is reset: its slots are free.
LEMMA SlotsReset ==
  ASSUME NEW q, NEW h, NEW Q, NEW R, SlotUse(q, h, Q, R), {"next", "free", "val"} \subseteq DOMAIN q,
         NEW b, b.mq = q, DOMAIN b = Fields, NEW d, d = Drained(b, Q),
         NEW p, Emptied(d.mq, p), NEW g, SameCopies(h, g)
  PROVE  SameBut(b, d, {"mq"}) /\ DOMAIN d.mq = DOMAIN q
         /\ \E S : SlotUse(p, g, << >>, S) /\ (Covered(h, Q, R) => Covered(g, << >>, S))
<1>0. /\ p.next = d.mq.next /\ p.val = d.mq.val /\ p.free = d.mq.free /\ p.head = Null /\ p.tail = Null
      /\ p.entry = 0
  BY DEF Emptied
<1> USE <1>0
<1>1. /\ Path(q.next, q.head, Q) /\ Path(q.next, q.free, R) /\ IsList(Slots, Q) /\ Q \in Seq(Slots)
      /\ IsList(Slots, R) /\ R \in Seq(Slots) /\ DOMAIN q.next = Slots /\ DOMAIN q.val = Slots
  BY DEF SlotUse, Path, IsList
<1>2. \A x : ~(InList(x, Q) /\ InList(x, R))
  <2>1. \A x : InList(x, Q) => x \in Slots
    BY <1>1, InListDef
  <2> QED BY <2>1 DEF SlotUse
<1>3. Flushed(R, b, Q, 0, b)
  <2>1. SameBut(b, b, {"mq"})
    BY DEF SameBut
  <2>2. \A x : ~\E j \in 1 .. Len(Q) : j <= 0 /\ Q[j] = x
    OBVIOUS
  <2> QED BY <1>1, <2>1, <2>2 DEF Flushed
<1>4. ASSUME NEW i \in 1 .. Len(Q), NEW e, Flushed(R, b, Q, i - 1, e)
      PROVE  Flushed(R, b, Q, i, Release(R, e, Q[i]))
  BY <1>1, <1>2, <1>4, OneFlushed
<1>5. Flushed(R, b, Q, Len(Q), Drain!Fold(R, b, Q))
  BY <1>1, <1>3, <1>4, LeastExists, Drain!FoldKeeps, SMTT(30) DEF Drain!LeastNumber
<1>6. Drain!Fold(R, b, Q) = d
  BY DEF Drained, Release, Drain!Fold, FoldLeft, MapThenFoldSet, Drain!Greatest, Max
<1>7. Flushed(R, b, Q, Len(Q), d)
  BY <1>5, <1>6
<1>8. SameBut(b, d, {"mq"}) /\ DOMAIN d.mq = DOMAIN q /\ DOMAIN p.next = Slots /\ DOMAIN p.val = Slots
  BY <1>7 DEF Flushed
<1>9. PICK S : /\ Path(p.next, p.free, S)
               /\ \A x : InList(x, S) <=> InList(x, R) \/ \E j \in 1 .. Len(Q) : j <= Len(Q) /\ Q[j] = x
  BY <1>7 DEF Flushed
<1>10. \A x : InList(x, S) <=> InList(x, R) \/ InList(x, Q)
  <2>1. \A x : InList(x, Q) <=> \E j \in 1 .. Len(Q) : Q[j] = x
    BY <1>1, InListDef
  <2>2. Len(Q) \in Nat /\ \A j \in 1 .. Len(Q) : j <= Len(Q)
    BY <1>1
  <2> QED BY <1>9, <2>1, <2>2
<1>11. Path(p.next, p.head, << >>) /\ p.entry = Len(<< >>) /\ p.tail = At(<< >>, Len(<< >>))
  BY DEF Path, IsList, Distinct, At
<1>12. \A x : ~InList(x, << >>)
  BY DEF InList
<1>13. ASSUME NEW t \in Threads, Copies(g, t)
       PROVE  g[t].slot \in Slots /\ ~InList(g[t].slot, << >>) /\ ~InList(g[t].slot, S)
  <2>1. Copies(h, t) /\ g[t].slot = h[t].slot
    BY <1>13 DEF SameCopies
  <2> QED BY <1>10, <1>12, <2>1 DEF SlotUse
<1>14. \A t, u \in Threads : Copies(g, t) /\ Copies(g, u) /\ g[t].slot = g[u].slot => t = u
  BY DEF SlotUse, SameCopies
<1>15. SlotUse(p, g, << >>, S)
  BY <1>8, <1>9, <1>11, <1>12, <1>13, <1>14 DEF SlotUse
<1>16. ASSUME Covered(h, Q, R) PROVE Covered(g, << >>, S)
  BY <1>10, <1>16 DEF Covered, SameCopies
<1> QED BY <1>8, <1>15, <1>16

\* Other steps.
LEMMA SlotsSame ==
  ASSUME NEW q, NEW h, NEW Q, NEW R, SlotUse(q, h, Q, R), NEW g,
         \A t \in Threads : Copies(g, t) => Copies(h, t) /\ g[t].slot = h[t].slot
  PROVE  /\ SlotUse(q, g, Q, R)
         /\ SameCopies(h, g) /\ Covered(h, Q, R) => Covered(g, Q, R)
<1>1. SlotUse(q, g, Q, R)
  BY DEF SlotUse
<1>2. SameCopies(h, g) /\ Covered(h, Q, R) => Covered(g, Q, R)
  BY DEF Covered, SameCopies
<1> QED BY <1>1, <1>2
=============================================================================
