------------------------------ MODULE FoldFacts -----------------------------
(***************************************************************************)
(* Folds over lists: FoldLeft of the kernel modules is a loop over a list  *)
(* of threads, timers or message slots, and what every pass of the loop    *)
(* keeps, the loop keeps.  The pass and what it keeps are parameters; an   *)
(* instance of the module is the fact for one loop.                        *)
(***************************************************************************)
EXTENDS Integers, Sequences

CONSTANTS
  Op(_, _, _),      \* a pass of the loop: what it closes over, the state and
                    \* the element of the list
  Rel(_, _, _, _, _)   \* what holds after i passes: what the loop closes over,
                    \* the state before it, the list, i, and the state

(* FoldLeft of the module SequencesExt, written out *)
Greatest(S) == CHOOSE x \in S : \A y \in S : x >= y
Fold(env, base, s) ==
  LET iter[S \in SUBSET DOMAIN s] ==
        IF S = {} THEN base
        ELSE LET x == Greatest(S) IN Op(env, iter[S \ {x}], s[x])
  IN  iter[DOMAIN s]

(* Every non-empty set of numbers has a least one: the modules that use    *)
(* this one prove it from the library, which is not repeated here for      *)
(* every loop.                                                             *)
LeastNumber == \A S \in SUBSET Nat : S # {} => \E x \in S : \A y \in S : x <= y

\* Greatest is the greatest element.
LEMMA GreatestFacts ==
  ASSUME LeastNumber, NEW n \in Nat, NEW S \in SUBSET (1 .. n), S # {}
  PROVE  Greatest(S) \in S /\ \A y \in S : y <= Greatest(S)
<1> DEFINE B == {b \in Nat : \A y \in S : y <= b}
<1>1. n \in B
  OBVIOUS
<1>2. PICK b \in B : \A c \in B : b <= c
  <2>1. B \in SUBSET Nat /\ B # {}
    BY <1>1
  <2> HIDE DEF B
  <2> QED BY <2>1 DEF LeastNumber
<1>3. b \in S
  <2> SUFFICES ASSUME b \notin S PROVE FALSE
    OBVIOUS
  <2>1. b \in Nat /\ \A y \in S : y < b
    BY <1>2
  <2>2. b # 0
    <3>1. PICK y \in S : y \in 1 .. n
      OBVIOUS
    <3>2. y < b
      BY <2>1
    <3> QED BY <2>1, <3>1, <3>2
  <2>3. b - 1 \in B
    <3>1. ASSUME NEW y \in S PROVE y <= b - 1
      <4>1. y \in Nat /\ y < b
        BY <2>1
      <4> QED BY <4>1, <2>1
    <3>2. b - 1 \in Nat
      BY <2>1, <2>2
    <3> QED BY <3>1, <3>2
  <2> QED BY <2>3, <1>2, <2>1
<1>4. \E x \in S : \A y \in S : x >= y
  BY <1>2, <1>3
<1>5. Greatest(S) \in S /\ \A y \in S : Greatest(S) >= y
  BY <1>4 DEF Greatest
<1> QED BY <1>5

Iterates(g, env, base, s, m) ==
  g = [S \in SUBSET (1 .. m) |->
         IF S = {} THEN base ELSE Op(env, g[S \ {Greatest(S)}], s[Greatest(S)])]

\* The function that Iterates describes exists for every length.
LEMMA IterExists ==
  ASSUME LeastNumber, NEW env, NEW base, NEW s
  PROVE  \A m \in Nat : \E g : Iterates(g, env, base, s, m)
<1> SUFFICES ASSUME NEW k \in Nat, ~\E g : Iterates(g, env, base, s, k) PROVE FALSE
  OBVIOUS
<1> DEFINE N == {m \in Nat : ~\E g : Iterates(g, env, base, s, m)}
<1>1. PICK m \in N : \A y \in N : m <= y
  <2>1. N \in SUBSET Nat /\ N # {}
    OBVIOUS
  <2> HIDE DEF N
  <2> QED BY <2>1 DEF LeastNumber
<1>2. CASE m = 0
  <2> DEFINE h == [S \in SUBSET (1 .. 0) |-> base]
  <2>1. \A S \in SUBSET (1 .. 0) : S = {}
    OBVIOUS
  <2>2. Iterates(h, env, base, s, 0)
    BY <2>1 DEF Iterates
  <2> QED BY <1>1, <1>2, <2>2
<1>3. CASE m # 0
  <2>0. PICK l \in Nat : m = l + 1
    <3>1. m - 1 \in Nat /\ m = (m - 1) + 1
      BY <1>3
    <3> QED BY <3>1
  <2>1. l \notin N
    BY <1>1, <2>0
  <2>2. PICK g : Iterates(g, env, base, s, l)
    BY <2>1
  <2> DEFINE h == [S \in SUBSET (1 .. m) |->
                     IF m \in S THEN Op(env, g[S \ {m}], s[m]) ELSE g[S]]
  <2>3. ASSUME NEW S \in SUBSET (1 .. m)
        PROVE  h[S] = IF S = {} THEN base ELSE Op(env, h[S \ {Greatest(S)}], s[Greatest(S)])
    <3>1. CASE S = {}
      <4>1. S \in SUBSET (1 .. l) /\ m \notin S
        BY <3>1
      <4> QED BY <3>1, <4>1, <2>2 DEF Iterates
    <3>2. CASE S # {} /\ m \in S
      <4>1. Greatest(S) = m
        <5>1. Greatest(S) \in S /\ \A y \in S : y <= Greatest(S)
          BY <3>2, GreatestFacts
        <5>2. Greatest(S) \in 1 .. m /\ m <= Greatest(S) /\ m \in Nat
          BY <3>2, <5>1
        <5> QED BY <5>2
      <4>2. S \ {m} \in SUBSET (1 .. m) /\ m \notin S \ {m}
        OBVIOUS
      <4>3. h[S \ {m}] = g[S \ {m}]
        BY <4>2
      <4>4. h[S] = Op(env, g[S \ {m}], s[m])
        BY <3>2
      <4> HIDE DEF h
      <4> QED BY <3>2, <4>1, <4>3, <4>4
    <3>3. CASE S # {} /\ m \notin S
      <4>1. S \in SUBSET (1 .. l)
        BY <3>3, <2>0
      <4>2. Greatest(S) \in S
        BY <3>3, GreatestFacts
      <4>3. S \ {Greatest(S)} \in SUBSET (1 .. m) /\ m \notin S \ {Greatest(S)}
        BY <3>3
      <4>4. h[S] = g[S] /\ h[S \ {Greatest(S)}] = g[S \ {Greatest(S)}]
        BY <3>3, <4>3
      <4>5. g[S] = Op(env, g[S \ {Greatest(S)}], s[Greatest(S)])
        BY <4>1, <3>3, <2>2 DEF Iterates
      <4> QED BY <3>3, <4>4, <4>5
    <3> QED BY <3>1, <3>2, <3>3
  <2>4. Iterates(h, env, base, s, m)
    <3>1. h = [S \in SUBSET (1 .. m) |->
                 IF S = {} THEN base ELSE Op(env, h[S \ {Greatest(S)}], s[Greatest(S)])]
      <4> DEFINE r == [S \in SUBSET (1 .. m) |->
                 IF S = {} THEN base ELSE Op(env, h[S \ {Greatest(S)}], s[Greatest(S)])]
      <4>1. DOMAIN h = SUBSET (1 .. m) /\ DOMAIN r = SUBSET (1 .. m)
        OBVIOUS
      <4>2. \A S \in SUBSET (1 .. m) : h[S] = r[S]
        BY <2>3
      <4>3. h = [S \in SUBSET (1 .. m) |-> h[S]] /\ r = [S \in SUBSET (1 .. m) |-> r[S]]
        OBVIOUS
      <4> HIDE DEF h, r
      <4>4. h = r
        BY <4>2, <4>3
      <4> QED BY <4>4 DEF r
    <3> HIDE DEF h
    <3> QED BY <3>1 DEF Iterates
  <2> HIDE DEF h
  <2> QED BY <2>4, <1>1
<1> QED BY <1>2, <1>3

\* The function FoldLeft is defined by.
LEMMA FoldUnfold ==
  ASSUME LeastNumber, NEW env, NEW base, NEW T, NEW s \in Seq(T)
  PROVE  \E g : Iterates(g, env, base, s, Len(s)) /\ Fold(env, base, s) = g[1 .. Len(s)]
<1>1. DOMAIN s = 1 .. Len(s) /\ Len(s) \in Nat
  OBVIOUS
<1> DEFINE it == CHOOSE g : g = [S \in SUBSET (1 .. Len(s)) |->
         IF S = {} THEN base ELSE Op(env, g[S \ {Greatest(S)}], s[Greatest(S)])]
<1>2. \E g : g = [S \in SUBSET (1 .. Len(s)) |->
         IF S = {} THEN base ELSE Op(env, g[S \ {Greatest(S)}], s[Greatest(S)])]
  <2>1. \E g : Iterates(g, env, base, s, Len(s))
    BY <1>1, IterExists
  <2> QED BY <2>1 DEF Iterates
<1>3. Iterates(it, env, base, s, Len(s))
  BY <1>2 DEF Iterates
<1>4. Fold(env, base, s) = it[1 .. Len(s)]
  BY <1>1 DEF Fold
<1> QED BY <1>3, <1>4

(***************************************************************************)
(* What a step of a fold keeps, the fold keeps.                            *)
(***************************************************************************)
LEMMA FoldKeeps ==
  ASSUME LeastNumber, NEW env, NEW base, NEW T, NEW s \in Seq(T), Rel(env, base, s, 0, base),
         \A i \in 1 .. Len(s) : \A c :
           Rel(env, base, s, i - 1, c) => Rel(env, base, s, i, Op(env, c, s[i]))
  PROVE  Rel(env, base, s, Len(s), Fold(env, base, s))
<1>1. PICK g : Iterates(g, env, base, s, Len(s)) /\ Fold(env, base, s) = g[1 .. Len(s)]
  BY FoldUnfold
<1> DEFINE N == {m \in Nat : m <= Len(s) /\ ~Rel(env, base, s, m, g[1 .. m])}
<1>2. N = {}
  <2> SUFFICES ASSUME N # {} PROVE FALSE
    OBVIOUS
  <2>1. PICK m \in N : \A y \in N : m <= y
    <3>1. N \in SUBSET Nat
      OBVIOUS
    <3> HIDE DEF N
    <3> QED BY <3>1 DEF LeastNumber
  <2>2. Len(s) \in Nat /\ m \in Nat /\ m <= Len(s) /\ 1 .. m \in SUBSET (1 .. Len(s))
    BY <2>1
  <2>3. g[1 .. m] = IF 1 .. m = {} THEN base
                    ELSE Op(env, g[(1 .. m) \ {Greatest(1 .. m)}], s[Greatest(1 .. m)])
    BY <1>1, <2>2 DEF Iterates
  <2>4. CASE m = 0
    <3>1. 1 .. m = {}
      BY <2>4
    <3> QED BY <2>1, <2>3, <3>1
  <2>5. CASE m # 0
    <3>1. m \in 1 .. m /\ 1 .. m # {}
      <4>1. m \in 1 .. m
        BY <2>2, <2>5
      <4> QED BY <4>1
    <3>2. Greatest(1 .. m) \in 1 .. m /\ \A y \in 1 .. m : y <= Greatest(1 .. m)
      <4>1. 1 .. m \in SUBSET (1 .. m)
        OBVIOUS
      <4> QED BY <2>2, <3>1, <4>1, GreatestFacts
    <3>3. Greatest(1 .. m) = m
      <4>1. m <= Greatest(1 .. m)
        BY <3>1, <3>2
      <4> QED BY <3>2, <4>1, <2>2
    <3>4. (1 .. m) \ {m} = 1 .. (m - 1)
      BY <2>2, <2>5
    <3>5. g[1 .. m] = Op(env, g[1 .. (m - 1)], s[m])
      BY <2>3, <3>1, <3>3, <3>4
    <3>6. Rel(env, base, s, m - 1, g[1 .. (m - 1)])
      <4>1. m - 1 \in Nat /\ m - 1 <= Len(s) /\ ~(m <= m - 1)
        BY <2>2, <2>5
      <4> QED BY <2>1, <4>1
    <3>7. m \in 1 .. Len(s)
      BY <2>2, <2>5
    <3>8. Rel(env, base, s, m, g[1 .. m])
      BY <3>5, <3>6, <3>7
    <3> QED BY <2>1, <3>8
  <2> QED BY <2>4, <2>5
<1>3. Len(s) \in Nat /\ Len(s) <= Len(s)
  OBVIOUS
<1>4. Rel(env, base, s, Len(s), g[1 .. Len(s)])
  BY <1>2, <1>3
<1> QED BY <1>1, <1>4
=============================================================================
