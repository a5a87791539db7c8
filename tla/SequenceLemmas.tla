--------------------------- MODULE SequenceLemmas ---------------------------
(***************************************************************************)
(* What FlattenSeq of the community modules does to sequences of           *)
(* sequences of any length.  It is a recursive function, which to the      *)
(* provers is any function with its equation if there is one; the lemmas   *)
(* show that there is, and that its values follow from each other, by      *)
(* looking at the least number for which they would not.                   *)
(***************************************************************************)
EXTENDS Naturals, Sequences, SequencesExt, WellFoundedInduction, TLAPS

Before == {pair \in Nat \X Nat : pair[1] < pair[2]}

\* A set of naturals has a least element.
LEMMA SmallestOf ==
  ASSUME NEW S, S \subseteq Nat, S # {}
  PROVE  \E n \in S : \A x \in S : n <= x
<1>1. IsWellFoundedOn(Before, Nat)
  BY NatLessThanWellFounded, Zenon DEF OpToRel, Before
<1>2. PICK n \in S : \A x \in S : ~(<<x, n>> \in Before)
  BY <1>1, WFMin, Zenon
<1>3. \A x \in S : ~(x < n)
  BY <1>2 DEF Before
<1>4. QED
  BY <1>3

\* A property of 0 that passes from each number below a limit to the next, as the set of the numbers
\* that have it.
LEMMA Climb ==
  ASSUME NEW limit \in Nat, NEW S, 0 \in S,
         \A n \in 0..limit : n < limit /\ n \in S => n + 1 \in S
  PROVE  \A n \in 0..limit : n \in S
<1> DEFINE bad == {n \in 0..limit : n \notin S}
<1>1. SUFFICES ASSUME bad # {} PROVE FALSE
  OBVIOUS
<1>2. PICK n \in bad : \A x \in bad : n <= x
  <2>1. bad \subseteq Nat
    OBVIOUS
  <2> HIDE DEF bad
  <2>2. QED
    BY <1>1, <2>1, SmallestOf
<1>3. n # 0 /\ n - 1 \in 0..limit
  BY <1>2
<1>4. n - 1 \in S
  BY <1>2, <1>3
<1>5. QED
  BY <1>2, <1>3, <1>4

\* The first n elements of a sequence.
LEMMA FirstOf ==
  ASSUME NEW S, NEW s \in Seq(S), NEW n \in 0..Len(s)
  PROVE  /\ SubSeq(s, 1, n) \in Seq(S)
         /\ Len(SubSeq(s, 1, n)) = n
         /\ \A i \in 1..n : SubSeq(s, 1, n)[i] = s[i]
  OBVIOUS

LEMMA SameSequence ==
  ASSUME NEW S, NEW T, NEW s \in Seq(S), NEW t \in Seq(T), Len(s) = Len(t), \A i \in 1..Len(s) : s[i] = t[i]
  PROVE  s = t
  OBVIOUS

\* All of them, and none.
LEMMA AllOf ==
  ASSUME NEW S, NEW s \in Seq(S)
  PROVE  SubSeq(s, 1, Len(s)) = s /\ SubSeq(s, 1, 0) = <<>>
<1>1. Len(s) \in 0..Len(s) /\ 0 \in 0..Len(s)
  OBVIOUS
<1>2. SubSeq(s, 1, Len(s)) = s
  BY <1>1, FirstOf, SameSequence
<1>3. SubSeq(s, 1, 0) = <<>>
  BY <1>1, FirstOf
<1>4. QED
  BY <1>2, <1>3

LEMMA ConcatAssociates ==
  ASSUME NEW S, NEW a \in Seq(S), NEW b \in Seq(S), NEW c \in Seq(S)
  PROVE  (a \o b) \o c = a \o (b \o c) /\ b \o c \in Seq(S)
  OBVIOUS

LEMMA ElementOf ==
  ASSUME NEW S, NEW s \in Seq(S), NEW i \in 1..Len(s)
  PROVE  s[i] \in S
  OBVIOUS

-----------------------------------------------------------------------------
(* FlattenSeq.                                                             *)

\* g is the function that FlattenSeq picks for the first n of s.
Accumulates(s, n, g) == g = [i \in 1..n |-> IF i = 1 THEN s[i] ELSE g[i - 1] \o s[i]]

LEMMA AccumulatorExists ==
  ASSUME NEW s, NEW n \in Nat
  PROVE  \E g : Accumulates(s, n, g)
<1> DEFINE good == {k \in Nat : \E g : Accumulates(s, k, g)}
<1>1. 0 \in good
  <2>1. Accumulates(s, 0, [i \in 1..0 |-> 0])
    BY DEF Accumulates
  <2>2. QED
    BY <2>1
<1>2. ASSUME NEW k \in 0..n, k < n, k \in good PROVE k + 1 \in good
  <2>1. PICK g : Accumulates(s, k, g)
    BY <1>2
  <2> DEFINE h == [i \in 1..k + 1 |-> IF i = k + 1 THEN (IF i = 1 THEN s[i] ELSE g[i - 1] \o s[i]) ELSE g[i]]
  <2>2. \A i \in 1..k + 1 : h[i] = IF i = 1 THEN s[i] ELSE h[i - 1] \o s[i]
    <3> SUFFICES ASSUME NEW i \in 1..k + 1 PROVE h[i] = IF i = 1 THEN s[i] ELSE h[i - 1] \o s[i]
      OBVIOUS
    <3>1. CASE i = 1 /\ i = k + 1
      BY <3>1
    <3>2. CASE i # 1 /\ i = k + 1
      <4>1. i - 1 \in 1..k + 1 /\ i - 1 # k + 1
        BY <3>2
      <4>2. h[i - 1] = g[i - 1]
        BY <4>1
      <4>3. QED
        BY <3>2, <4>2
    <3>3. CASE i # k + 1
      <4>1. i \in 1..k /\ h[i] = g[i]
        BY <3>3
      <4>2. g[i] = IF i = 1 THEN s[i] ELSE g[i - 1] \o s[i]
        BY <2>1, <4>1 DEF Accumulates
      <4>3. i # 1 => i - 1 \in 1..k + 1 /\ i - 1 # k + 1
        BY <4>1
      <4>4. i # 1 => h[i - 1] = g[i - 1]
        BY <4>3
      <4>5. QED
        BY <4>1, <4>2, <4>4
    <3>4. QED
      BY <3>1, <3>2, <3>3
  <2>3. Accumulates(s, k + 1, h)
    <3> HIDE DEF h
    <3>1. h = [i \in 1..k + 1 |-> h[i]]
      BY DEF h
    <3>2. QED
      BY <2>2, <3>1 DEF Accumulates
  <2>4. QED
    BY <2>3
<1>3. QED
  <2> HIDE DEF good
  <2>1. n \in good
    BY <1>1, <1>2, Climb
  <2>2. QED
    BY <2>1 DEF good

Agree(f, g, n) == \A i \in 1..n : f[i] = g[i]

LEMMA AccumulatorUnique ==
  ASSUME NEW m \in Nat, NEW n \in Nat, m <= n,
         NEW s, NEW t, Agree(s, t, m),
         NEW g, Accumulates(s, m, g), NEW h, Accumulates(t, n, h)
  PROVE  Agree(g, h, m)
<1> DEFINE same == {k \in 0..m : k = 0 \/ g[k] = h[k]}
<1>1. 0 \in same
  OBVIOUS
<1>2. ASSUME NEW k \in 0..m, k < m, k \in same PROVE k + 1 \in same
  <2>1. \A i \in 1..m : g[i] = IF i = 1 THEN s[i] ELSE g[i - 1] \o s[i]
    BY Zenon DEF Accumulates
  <2>2. \A i \in 1..n : h[i] = IF i = 1 THEN t[i] ELSE h[i - 1] \o t[i]
    BY Zenon DEF Accumulates
  <2>3. k + 1 \in 1..m /\ k + 1 \in 1..n /\ k + 1 - 1 = k /\ (k = 0 <=> k + 1 = 1)
    BY <1>2
  <2>4. g[k + 1] = IF k + 1 = 1 THEN s[k + 1] ELSE g[k] \o s[k + 1]
    BY <2>1, <2>3
  <2>5. h[k + 1] = IF k + 1 = 1 THEN t[k + 1] ELSE h[k] \o t[k + 1]
    BY <2>2, <2>3
  <2>6. s[k + 1] = t[k + 1]
    BY <2>3 DEF Agree
  <2>7. QED
    BY <1>2, <2>3, <2>4, <2>5, <2>6
<1>3. QED
  <2> HIDE DEF same
  <2>1. \A k \in 0..m : k \in same
    BY <1>1, <1>2, Climb
  <2>2. QED
    BY <2>1 DEF same, Agree

LEMMA FlattenEmpty == FlattenSeq(<<>>) = <<>>
  BY DEF FlattenSeq

LEMMA FlattenAccumulates ==
  ASSUME NEW S, NEW s \in Seq(S), s # <<>>
  PROVE  \E g : Accumulates(s, Len(s), g) /\ FlattenSeq(s) = g[Len(s)]
<1>1. Len(s) # 0 /\ Len(s) \in Nat
  OBVIOUS
<1> DEFINE f == CHOOSE g : g = [i \in 1..Len(s) |-> IF i = 1 THEN s[i] ELSE g[i - 1] \o s[i]]
<1>2. Accumulates(s, Len(s), f)
  BY <1>1, AccumulatorExists, Zenon DEF Accumulates
<1>3. FlattenSeq(s) = f[Len(s)]
  BY <1>1, Zenon DEF FlattenSeq
<1>4. QED
  BY <1>2, <1>3

\* Each sequence of s is appended to what those before it are flattened to.
LEMMA FlattenStep ==
  ASSUME NEW S, NEW s \in Seq(Seq(S)), NEW n \in Nat, n < Len(s)
  PROVE  FlattenSeq(SubSeq(s, 1, n + 1)) = FlattenSeq(SubSeq(s, 1, n)) \o s[n + 1]
<1> DEFINE long == SubSeq(s, 1, n + 1)
           short == SubSeq(s, 1, n)
<1>1. Len(s) \in Nat
  OBVIOUS
<1>2. n + 1 \in 0..Len(s) /\ n \in 0..Len(s) /\ n + 1 \in 1..Len(s) /\ n + 1 \in Nat /\ n <= n + 1
  BY <1>1
<1>3. long \in Seq(Seq(S)) /\ Len(long) = n + 1 /\ \A i \in 1..n + 1 : long[i] = s[i]
  BY <1>2, FirstOf
<1>4. short \in Seq(Seq(S)) /\ Len(short) = n /\ \A i \in 1..n : short[i] = s[i]
  BY <1>2, FirstOf
<1>5. s[n + 1] \in Seq(S)
  BY <1>2, ElementOf
<1> HIDE DEF long, short
<1>6. long # <<>>
  BY <1>3
<1>7. PICK g : Accumulates(long, n + 1, g) /\ FlattenSeq(long) = g[n + 1]
  BY <1>3, <1>6, FlattenAccumulates
<1>8. \A i \in 1..n + 1 : g[i] = IF i = 1 THEN long[i] ELSE g[i - 1] \o long[i]
  BY <1>7, Zenon DEF Accumulates
<1>9. g[n + 1] = IF n = 0 THEN s[n + 1] ELSE g[n] \o s[n + 1]
  <2>1. n + 1 \in 1..n + 1 /\ n + 1 - 1 = n /\ (n + 1 = 1 <=> n = 0)
    OBVIOUS
  <2>2. QED
    BY <1>3, <1>8, <2>1
<1>10. FlattenSeq(long) = FlattenSeq(short) \o s[n + 1]
  <2>1. CASE n = 0
    <3>1. short = <<>>
      BY <1>4, <2>1
    <3>2. FlattenSeq(short) = <<>>
      BY <3>1, FlattenEmpty
    <3>3. <<>> \o s[n + 1] = s[n + 1]
      BY <1>5
    <3>4. QED
      BY <1>7, <1>9, <2>1, <3>2, <3>3
  <2>2. CASE n # 0
    <3>1. short # <<>> /\ n \in 1..n
      BY <1>4, <2>2
    <3>2. PICK h : Accumulates(short, n, h) /\ FlattenSeq(short) = h[n]
      BY <1>4, <3>1, FlattenAccumulates
    <3>3. Agree(short, long, n)
      <4>1. \A i \in 1..n : i \in 1..n + 1
        OBVIOUS
      <4>2. QED
        BY <1>3, <1>4, <4>1, Zenon DEF Agree
    <3>4. Accumulates(short, n, h) /\ Accumulates(long, n + 1, g) /\ n <= n + 1 /\ n + 1 \in Nat
      BY <1>2, <1>7, <3>2
    <3>5. Agree(h, g, n)
      BY <3>3, <3>4, AccumulatorUnique
    <3>6. QED
      BY <1>7, <1>9, <2>2, <3>1, <3>2, <3>5 DEF Agree
  <2>3. QED
    BY <2>1, <2>2
<1>11. QED
  BY <1>10 DEF long, short

LEMMA FlattenInSeq ==
  ASSUME NEW S, NEW s \in Seq(Seq(S))
  PROVE  /\ FlattenSeq(s) \in Seq(S)
         /\ \A n \in 0..Len(s) : FlattenSeq(SubSeq(s, 1, n)) \in Seq(S)
<1> DEFINE good == {n \in 0..Len(s) : FlattenSeq(SubSeq(s, 1, n)) \in Seq(S)}
<1>1. Len(s) \in Nat
  OBVIOUS
<1>2. 0 \in good
  <2>1. SubSeq(s, 1, 0) = <<>>
    BY AllOf
  <2>2. FlattenSeq(SubSeq(s, 1, 0)) \in Seq(S)
    <3>1. <<>> \in Seq(S)
      OBVIOUS
    <3>2. QED
      BY <2>1, <3>1, FlattenEmpty, Zenon
  <2>3. QED
    BY <1>1, <2>2
<1>3. ASSUME NEW n \in 0..Len(s), n < Len(s), n \in good PROVE n + 1 \in good
  <2>1. n \in Nat /\ n + 1 \in 0..Len(s) /\ n + 1 \in 1..Len(s)
    BY <1>1, <1>3
  <2>2. s[n + 1] \in Seq(S)
    BY <2>1, ElementOf
  <2>3. FlattenSeq(SubSeq(s, 1, n + 1)) = FlattenSeq(SubSeq(s, 1, n)) \o s[n + 1]
    BY <1>3, <2>1, FlattenStep
  <2>4. FlattenSeq(SubSeq(s, 1, n)) \in Seq(S)
    BY <1>3
  <2>5. \A a, b : a \in Seq(S) /\ b \in Seq(S) => a \o b \in Seq(S)
    OBVIOUS
  <2>6. QED
    BY <2>1, <2>2, <2>3, <2>4, <2>5, Zenon
<1>4. \A n \in 0..Len(s) : n \in good
  <2> HIDE DEF good
  <2>1. QED
    BY <1>1, <1>2, <1>3, Climb
<1>5. FlattenSeq(SubSeq(s, 1, Len(s))) \in Seq(S)
  BY <1>1, <1>4
<1>6. QED
  BY <1>4, <1>5, AllOf

\* What some of the sequences are flattened to is how the whole begins.
LEMMA FlattenPrefix ==
  ASSUME NEW S, NEW s \in Seq(Seq(S)), NEW n \in 0..Len(s)
  PROVE  \E t \in Seq(S) : FlattenSeq(s) = FlattenSeq(SubSeq(s, 1, n)) \o t
<1> DEFINE F(k) == FlattenSeq(SubSeq(s, 1, k))
           rest == Len(s) - n
           good == {k \in 0..rest : \E t \in Seq(S) : F(n + k) = F(n) \o t}
<1>1. Len(s) \in Nat /\ n \in Nat /\ rest \in Nat /\ n + rest = Len(s)
  OBVIOUS
<1>2. \A k \in 0..Len(s) : F(k) \in Seq(S)
  BY FlattenInSeq
<1>3. 0 \in good
  <2>1. F(n) \in Seq(S)
    BY <1>2
  <2>2. n + 0 = n /\ F(n) = F(n) \o <<>> /\ <<>> \in Seq(S)
    BY <1>1, <2>1
  <2>3. 0 \in 0..rest
    BY <1>1
  <2>4. QED
    BY <2>2, <2>3, Zenon
<1>4. ASSUME NEW k \in 0..rest, k < rest, k \in good PROVE k + 1 \in good
  <2>1. PICK t \in Seq(S) : F(n + k) = F(n) \o t
    BY <1>4
  <2>2. n + k \in Nat /\ n + k < Len(s) /\ n + k + 1 \in 1..Len(s) /\ n + (k + 1) = n + k + 1
        /\ k + 1 \in 0..rest
    BY <1>1, <1>4
  <2>3. F(n + k + 1) = F(n + k) \o s[n + k + 1]
    BY <2>2, FlattenStep
  <2>4. F(n) \in Seq(S) /\ s[n + k + 1] \in Seq(S)
    BY <1>2, <2>2, ElementOf
  <2>5. F(n + (k + 1)) = F(n) \o (t \o s[n + k + 1]) /\ t \o s[n + k + 1] \in Seq(S)
    <3>1. F(n + (k + 1)) = (F(n) \o t) \o s[n + k + 1]
      BY <2>1, <2>2, <2>3
    <3>2. (F(n) \o t) \o s[n + k + 1] = F(n) \o (t \o s[n + k + 1]) /\ t \o s[n + k + 1] \in Seq(S)
      BY <2>4, ConcatAssociates
    <3>3. QED
      BY <3>1, <3>2, Zenon
  <2>6. QED
    BY <2>2, <2>5, Zenon
<1>5. rest \in good
  <2> HIDE DEF good, rest
  <2>1. \A k \in 0..rest : k \in good
    BY <1>1, <1>3, <1>4, Climb
  <2>2. QED
    BY <1>1, <2>1
<1>6. F(n + rest) = FlattenSeq(s)
  BY <1>1, AllOf, Zenon
<1>7. QED
  BY <1>5, <1>6
=============================================================================
