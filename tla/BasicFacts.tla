------------------------------ MODULE BasicFacts ------------------------------
(***************************************************************************)
(* What the proofs of this project need of sequences used as queues, pipes *)
(* and channels, of lists of lists, of division and of induction.          *)
(***************************************************************************)
EXTENDS Masking, SequencesExt, SequenceTheorems, WellFoundedInduction, TLAPS

(* A sequence is empty if its length is 0; its elements are in its set.    *)
LEMMA LenFacts ==
    ASSUME NEW S, NEW q \in Seq(S)
    PROVE  /\ Len(q) \in Nat /\ (q = <<>> <=> Len(q) = 0)
           /\ \A i \in 1..Len(q) : q[i] \in S
OBVIOUS

(* Append: what it adds, and that it leaves the rest where it is.           *)
LEMMA AppendFacts ==
    ASSUME NEW S, NEW q \in Seq(S), NEW x \in S
    PROVE  /\ Append(q, x) \in Seq(S) /\ Len(Append(q, x)) = Len(q) + 1
           /\ Len(q) \in Nat /\ Append(q, x) # <<>>
           /\ \A i \in 1..Len(q) : Append(q, x)[i] = q[i]
           /\ Append(q, x)[Len(q) + 1] = x
<1>1. /\ Append(q, x) \in Seq(S) /\ Len(Append(q, x)) = Len(q) + 1 /\ Len(q) \in Nat
      /\ \A i \in 1..Len(q) : Append(q, x)[i] = q[i]
      /\ Append(q, x)[Len(q) + 1] = x
  OBVIOUS
<1> QED BY <1>1

(* Head and Tail: what the receiver takes, and where the rest moves.        *)
LEMMA TailFacts ==
    ASSUME NEW S, NEW q \in Seq(S), q # <<>>
    PROVE  /\ Tail(q) \in Seq(S) /\ Len(Tail(q)) = Len(q) - 1
           /\ Len(q) \in Nat /\ Len(q) >= 1
           /\ Head(q) = q[1] /\ q[1] \in S
           /\ \A i \in 1..Len(Tail(q)) : Tail(q)[i] = q[i + 1] /\ i + 1 \in 1..Len(q)
           /\ Len(q) = 1 => Tail(q) = <<>>
<1>1. Len(q) \in Nat /\ Len(q) >= 1 OBVIOUS
<1>2. Tail(q) \in Seq(S) /\ Len(Tail(q)) = Len(q) - 1 BY <1>1
<1>3. Head(q) = q[1] /\ q[1] \in S BY <1>1
<1>4. ASSUME NEW i \in 1..Len(Tail(q)) PROVE Tail(q)[i] = q[i + 1] /\ i + 1 \in 1..Len(q)
  BY <1>1, <1>2
<1>5. Len(q) = 1 => Tail(q) = <<>> BY <1>2, LenFacts
<1> QED BY <1>1, <1>2, <1>3, <1>4, <1>5

-----------------------------------------------------------------------------
(* A quotient, between its neighbours.                                     *)
LEMMA DivFacts ==
    ASSUME NEW a \in Nat, NEW b \in Nat \ {0}
    PROVE  /\ a \div b \in Nat /\ (a \div b) * b \in Nat /\ (a \div b) * b <= a
           /\ ((a \div b) + 1) * b \in Nat /\ a < ((a \div b) + 1) * b
OBVIOUS

(* A product grows with a factor.                                         *)
LEMMA TimesMonotone ==
    ASSUME NEW a \in Nat, NEW b \in Nat, NEW c \in Nat, a <= b
    PROVE  a * c \in Nat /\ b * c \in Nat /\ a * c <= b * c
<1>1. PICK d \in Nat : b = a + d BY b - a \in Nat
<1>2. b * c = a * c + d * c BY <1>1
<1>3. d * c \in Nat /\ a * c \in Nat OBVIOUS
<1> QED BY <1>2, <1>3

(* A quotient grows with the dividend.                                     *)
LEMMA DivMonotone ==
    ASSUME NEW a \in Nat, NEW b \in Nat, NEW c \in Nat \ {0}, a <= b
    PROVE  a \div c <= b \div c
<1> DEFINE p == a \div c
           q == b \div c
<1>1. p \in Nat /\ q \in Nat /\ p * c <= a /\ b < (q + 1) * c BY DivFacts
<1> HIDE DEF p, q
<1>2. SUFFICES ASSUME q + 1 <= p PROVE FALSE BY <1>1 DEF p, q
<1>3. (q + 1) * c <= p * c /\ (q + 1) * c \in Nat /\ p * c \in Nat BY <1>1, <1>2, TimesMonotone
<1> QED BY <1>1, <1>3
(* A number in terms of its quotient and its remainder.                    *)
LEMMA DivMod ==
    ASSUME NEW a \in Nat, NEW b \in Nat \ {0}
    PROVE  /\ a \div b \in Nat /\ a % b \in Nat /\ a % b < b
           /\ (a \div b) * b \in Nat /\ a = (a \div b) * b + (a % b)
OBVIOUS

(* The quotient and the remainder are the only such numbers.               *)
LEMMA DivUnique ==
    ASSUME NEW b \in Nat \ {0}, NEW q \in Nat, NEW r \in Nat, r < b
    PROVE  (q * b + r) \div b = q /\ (q * b + r) % b = r
<1> DEFINE a == q * b + r
           p == a \div b
           m == a % b
<1>0. a \in Nat /\ q * b \in Nat OBVIOUS
<1>1. p \in Nat /\ m \in Nat /\ m < b /\ p * b \in Nat /\ a = p * b + m BY <1>0, DivMod
<1>2. q * b + r = p * b + m BY <1>1
<1> HIDE DEF p, m
<1>3. q <= p
  <2> SUFFICES ASSUME p + 1 <= q PROVE FALSE BY <1>1
  <2>1. (p + 1) * b <= q * b BY <1>1, TimesMonotone
  <2>2. (p + 1) * b = p * b + b BY <1>1
  <2> QED BY <1>0, <1>1, <1>2, <2>1, <2>2
<1>4. p <= q
  <2> SUFFICES ASSUME q + 1 <= p PROVE FALSE BY <1>1
  <2>1. (q + 1) * b <= p * b BY <1>1, TimesMonotone
  <2>2. (q + 1) * b = q * b + b OBVIOUS
  <2> QED BY <1>0, <1>1, <1>2, <2>1, <2>2
<1>5. p = q BY <1>1, <1>3, <1>4
<1>6. m = r BY <1>0, <1>1, <1>2, <1>5
<1> QED BY <1>5, <1>6 DEF p, m

(* Counting on: the remainder grows by one or wraps around, and the        *)
(* quotient grows when it wraps.                                           *)
LEMMA SuccDivMod ==
    ASSUME NEW a \in Nat, NEW b \in Nat \ {0}
    PROVE  /\ (a % b) + 1 < b =>
                /\ (a + 1) \div b = a \div b
                /\ (a + 1) % b = (a % b) + 1
           /\ (a % b) + 1 = b =>
                /\ (a + 1) \div b = (a \div b) + 1
                /\ (a + 1) % b = 0
<1> DEFINE p == a \div b
           m == a % b
<1>1. p \in Nat /\ m \in Nat /\ m < b /\ p * b \in Nat /\ a = p * b + m BY DivMod
<1> HIDE DEF p, m
<1>2. ASSUME m + 1 < b PROVE (a + 1) \div b = p /\ (a + 1) % b = m + 1
  <2>1. a + 1 = p * b + (m + 1) BY <1>1
  <2>2. m + 1 \in Nat BY <1>1
  <2> QED BY <1>1, <1>2, <2>1, <2>2, DivUnique
<1>3. ASSUME m + 1 = b PROVE (a + 1) \div b = p + 1 /\ (a + 1) % b = 0
  <2>1. a + 1 = (p + 1) * b + 0
    <3>1. (p + 1) * b = p * b + b BY <1>1
    <3> QED BY <1>1, <1>3, <3>1
  <2>2. p + 1 \in Nat /\ 0 \in Nat /\ 0 < b BY <1>1
  <2>3. ((p + 1) * b + 0) \div b = p + 1 /\ ((p + 1) * b + 0) % b = 0
    BY <2>2, DivUnique
  <2> QED BY <2>1, <2>3
<1> QED BY <1>1, <1>2, <1>3 DEF p, m

(* The multiples of b in c consecutive numbers: at most c / b, rounded up. *)
LEMMA DivDifference ==
    ASSUME NEW a \in Nat, NEW b \in Nat \ {0}, NEW c \in Nat
    PROVE  (a + c) \div b <= (a \div b) + ((c + b - 1) \div b)
<1> DEFINE p == a \div b
           q == (c + b - 1) \div b
           t == (a + c) \div b
<1>0. a + c \in Nat /\ c + b - 1 \in Nat OBVIOUS
<1>1. p \in Nat /\ a < (p + 1) * b /\ (p + 1) * b \in Nat BY DivFacts
<1>2. q \in Nat /\ c + b - 1 < (q + 1) * b /\ (q + 1) * b \in Nat BY <1>0, DivFacts
<1>3. t \in Nat /\ t * b <= a + c /\ t * b \in Nat BY <1>0, DivFacts
<1> HIDE DEF p, q, t
<1>4. SUFFICES ASSUME p + q + 1 <= t PROVE FALSE BY <1>1, <1>2, <1>3 DEF p, q, t
<1>5. (p + q + 1) * b <= t * b BY <1>1, <1>2, <1>3, <1>4, TimesMonotone
<1>6. (p + q + 1) * b = (p + 1) * b + (q + 1) * b - b
  <2>1. (p + 1) * b = p * b + b BY <1>1
  <2>2. (q + 1) * b = q * b + b BY <1>2
  <2>3. (p + q + 1) * b = p * b + q * b + b BY <1>1, <1>2
  <2>4. p * b \in Int /\ q * b \in Int BY <1>1, <1>2
  <2> QED BY <2>1, <2>2, <2>3, <2>4
<1> QED BY <1>1, <1>2, <1>3, <1>5, <1>6

-----------------------------------------------------------------------------
(* A set of numbers that is not empty has a least element.                 *)
LEMMA Least ==
    ASSUME NEW T \in SUBSET Nat, T # {}
    PROVE  \E n \in T : \A m \in T : n <= m
<1>1. IsWellFoundedOn(OpToRel(<, Nat), Nat) BY NatLessThanWellFounded
<1>2. PICK x \in T : \A y \in T : ~(<<y, x>> \in OpToRel(<, Nat)) BY <1>1, WFMin
<1>3. \A y \in T : ~(y < x) BY <1>2 DEF OpToRel
<1> QED BY <1>3

(* Induction, stated of the set of numbers for which the claim holds.      *)
LEMMA SetInduction ==
    ASSUME NEW A, 0 \in A, \A n \in Nat : n \in A => n + 1 \in A
    PROVE  \A n \in Nat : n \in A
<1> DEFINE T == {n \in Nat : n \notin A}
<1>1. SUFFICES ASSUME T # {} PROVE FALSE OBVIOUS
<1>2. T \in SUBSET Nat OBVIOUS
<1>3. PICK n \in T : \A m \in T : n <= m BY <1>1, <1>2, Least
<1>4. n # 0 OBVIOUS
<1>5. n - 1 \in Nat /\ ~(n <= n - 1) BY <1>4
<1>6. n - 1 \in A BY <1>3, <1>5
<1>7. (n - 1) + 1 \in A BY <1>5, <1>6
<1> QED BY <1>7

(* Lists put together, with one element more.                              *)
LEMMA ConcatAppend ==
    ASSUME NEW S, NEW s \in Seq(S), NEW t \in Seq(S), NEW e \in S
    PROVE  s \o t \in Seq(S) /\ s \o Append(t, e) = Append(s \o t, e)
<1> DEFINE u == s \o t
           v == <<e>>
<1>1. u \in Seq(S) BY ConcatProperties
<1>2. v \in Seq(S) OBVIOUS
<1>3. (s \o t) \o v = s \o (t \o v)
  <2> HIDE DEF u, v
  <2> QED BY <1>2, ConcatAssociative
<1>4. Append(t, e) = t \o v BY AppendIsConcat
<1>5. Append(u, e) = u \o v
  <2> HIDE DEF u
  <2> QED BY <1>1, AppendIsConcat
<1> QED BY <1>1, <1>3, <1>4, <1>5

(* Induction over lists, stated of the set of those the claim holds for.   *)
LEMMA SeqInduction ==
    ASSUME NEW S, NEW A, <<>> \in A, \A s \in Seq(S), e \in S : s \in A => Append(s, e) \in A
    PROVE  \A s \in Seq(S) : s \in A
<1> DEFINE B == {n \in Nat : \A s \in Seq(S) : Len(s) = n => s \in A}
<1>1. 0 \in B BY LenFacts
<1>2. ASSUME NEW n \in Nat, n \in B PROVE n + 1 \in B
  <2>1. SUFFICES ASSUME NEW s \in Seq(S), Len(s) = n + 1 PROVE s \in A OBVIOUS
  <2>2. s # <<>> BY <2>1, LenFacts
  <2>3. PICK t \in Seq(S), e \in S : s = Append(t, e) BY <2>2, SequenceEmptyOrAppend
  <2>4. Len(t) \in Nat /\ Len(s) = Len(t) + 1 BY <2>3, AppendFacts
  <2>5. Len(t) = n BY <2>1, <2>4
  <2> QED BY <1>2, <2>3, <2>5
<1>3. \A n \in Nat : n \in B
  <2> HIDE DEF B
  <2> QED BY <1>1, <1>2, SetInduction
<1> QED BY <1>3, LenFacts

(* f[i] is what FlattenSeq makes of the first i of n lists.                *)
Flattening(f, s, n) ==
    f = [i \in 1..n |-> IF i = 1 THEN s[i] ELSE f[i-1] \o s[i]]

(* Such a function yields lists.                                           *)
LEMMA FlatteningType ==
    ASSUME NEW S, NEW s \in Seq(Seq(S)), NEW n \in 1..Len(s), NEW f, Flattening(f, s, n)
    PROVE  f \in [1..n -> Seq(S)]
<1> DEFINE A == {i \in Nat : i < n => f[i + 1] \in Seq(S)}
<1>0. Len(s) \in Nat /\ n \in Nat OBVIOUS
<1>1. \A i \in 1..n : f[i] = IF i = 1 THEN s[i] ELSE f[i-1] \o s[i]
  BY DEF Flattening
<1>2. \A i \in 1..n : s[i] \in Seq(S) BY <1>0
<1>3. 0 \in A
  <2>1. 1 \in 1..n BY <1>0
  <2>2. f[1] \in Seq(S) BY <1>1, <1>2, <2>1
  <2> QED BY <2>2
<1>4. ASSUME NEW i \in Nat, i \in A PROVE i + 1 \in A
  <2>1. SUFFICES ASSUME i + 1 < n PROVE f[(i + 1) + 1] \in Seq(S) OBVIOUS
  <2>2. f[i + 1] \in Seq(S) BY <1>4, <2>1, <1>0
  <2> DEFINE j == i + 2
  <2>3. j \in 1..n /\ j # 1 /\ j - 1 = i + 1 /\ (i + 1) + 1 = j BY <1>0, <2>1
  <2> HIDE DEF j
  <2>4. f[j] = f[j - 1] \o s[j] /\ s[j] \in Seq(S) BY <1>1, <1>2, <2>3
  <2>5. f[j - 1] \in Seq(S) BY <2>2, <2>3
  <2>6. f[j - 1] \o s[j] \in Seq(S) BY <2>4, <2>5
  <2> QED BY <2>3, <2>4, <2>6
<1>5. \A i \in Nat : i \in A
  <2> HIDE DEF A
  <2> QED BY <1>3, <1>4, SetInduction
<1>6. ASSUME NEW i \in 1..n PROVE f[i] \in Seq(S)
  <2>1. i - 1 \in Nat /\ i - 1 < n /\ (i - 1) + 1 = i BY <1>0
  <2>2. i - 1 \in A BY <2>1, <1>5
  <2>3. f[(i - 1) + 1] \in Seq(S) BY <2>1, <2>2
  <2> QED BY <2>1, <2>3
<1> QED BY <1>6 DEF Flattening

(* There is such a function.                                               *)
LEMMA FlatteningExists ==
    ASSUME NEW S, NEW s \in Seq(Seq(S)), s # <<>>
    PROVE  \E f : Flattening(f, s, Len(s))
<1> DEFINE A == {n \in Nat : n < Len(s) => \E f : Flattening(f, s, n + 1)}
<1>0. Len(s) \in Nat /\ Len(s) # 0 OBVIOUS
<1>1. 0 \in A
  <2> DEFINE f == [i \in 1..1 |-> s[i]]
  <2>1. Flattening(f, s, 1) BY DEF Flattening
  <2> QED BY <2>1
<1>2. ASSUME NEW n \in Nat, n \in A PROVE n + 1 \in A
  <2>1. SUFFICES ASSUME n + 1 < Len(s) PROVE \E f : Flattening(f, s, n + 2) BY <1>0
  <2>2. PICK f : Flattening(f, s, n + 1) BY <1>2, <2>1, <1>0
  <2> DEFINE g == [i \in 1..(n + 2) |-> IF i = n + 2 THEN f[n + 1] \o s[n + 2] ELSE f[i]]
  <2>3. ASSUME NEW i \in 1..(n + 2)
        PROVE g[i] = IF i = 1 THEN s[i] ELSE g[i - 1] \o s[i]
    <3>1. CASE i = n + 2
      <4>1. i - 1 \in 1..(n + 2) /\ i - 1 # n + 2 /\ i # 1 /\ i - 1 = n + 1 BY <3>1
      <4>2. g[i - 1] = f[n + 1] BY <4>1
      <4> QED BY <3>1, <4>1, <4>2
    <3>2. CASE i # n + 2
      <4>1. i \in 1..(n + 1) BY <3>2
      <4>2. f[i] = IF i = 1 THEN s[i] ELSE f[i - 1] \o s[i] BY <4>1, <2>2 DEF Flattening
      <4>3. i # 1 => i - 1 \in 1..(n + 2) /\ i - 1 # n + 2 BY <4>1
      <4>4. i # 1 => g[i - 1] = f[i - 1] BY <4>3
      <4> QED BY <3>2, <4>2, <4>4
    <3> QED BY <3>1, <3>2
  <2>4. g = [i \in 1..(n + 2) |-> g[i]] OBVIOUS
  <2> HIDE DEF g
  <2>5. Flattening(g, s, n + 2) BY <2>3, <2>4 DEF Flattening
  <2> QED BY <2>5
<1>3. \A n \in Nat : n \in A
  <2> HIDE DEF A
  <2> QED BY <1>1, <1>2, SetInduction
<1>4. Len(s) - 1 \in Nat /\ Len(s) - 1 < Len(s) /\ (Len(s) - 1) + 1 = Len(s) BY <1>0
<1> QED BY <1>3, <1>4

(* FlattenSeq is one of its values.                                        *)
LEMMA FlattenByFlattening ==
    ASSUME NEW S, NEW s \in Seq(Seq(S)), s # <<>>
    PROVE  \E f : Flattening(f, s, Len(s)) /\ FlattenSeq(s) = f[Len(s)]
<1> DEFINE f == CHOOSE g : Flattening(g, s, Len(s))
<1>0. Len(s) # 0 OBVIOUS
<1>1. Flattening(f, s, Len(s)) BY FlatteningExists
<1>2. FlattenSeq(s) = f[Len(s)] BY <1>0, Zenon DEF FlattenSeq, Flattening
<1> QED BY <1>1, <1>2

(* FlattenSeq, by recursion on the list of lists.                          *)
LEMMA FlattenAppend ==
    ASSUME NEW S, NEW s \in Seq(Seq(S)), NEW x \in Seq(S)
    PROVE  /\ FlattenSeq(<<>>) = <<>>
           /\ FlattenSeq(s) \in Seq(S)
           /\ FlattenSeq(Append(s, x)) = FlattenSeq(s) \o x
<1> DEFINE t == Append(s, x)
           n == Len(s)
<1>1. FlattenSeq(<<>>) = <<>> BY DEF FlattenSeq
<1>2. /\ n \in Nat /\ t \in Seq(Seq(S)) /\ Len(t) = n + 1 /\ t[n + 1] = x
      /\ t # <<>> /\ \A i \in 1..n : t[i] = s[i]
  OBVIOUS
<1> HIDE DEF t
<1>3. PICK f : Flattening(f, t, n + 1) /\ FlattenSeq(t) = f[n + 1]
  BY <1>2, FlattenByFlattening
<1>4. f[n + 1] = IF n + 1 = 1 THEN t[n + 1] ELSE f[n] \o t[n + 1]
  <2>1. n + 1 \in 1..(n + 1) /\ (n + 1) - 1 = n BY <1>2
  <2> QED BY <1>3, <2>1 DEF Flattening
<1>5. CASE s = <<>>
  <2>1. n = 0 BY <1>5
  <2>2. FlattenSeq(s) = <<>> BY <1>1, <1>5
  <2>3. <<>> \o x = x OBVIOUS
  <2> QED BY <1>1, <1>2, <1>3, <1>4, <2>1, <2>2, <2>3 DEF t
<1>6. CASE s # <<>>
  <2>1. n # 0 BY <1>6
  <2>2. PICK h : Flattening(h, s, n) /\ FlattenSeq(s) = h[n] BY <1>6, FlattenByFlattening
  <2>3. h \in [1..n -> Seq(S)]
    <3>1. n \in 1..Len(s) BY <1>2, <2>1
    <3> QED BY <3>1, <2>2, FlatteningType
  <2> DEFINE A == {i \in Nat : i < n => f[i + 1] = h[i + 1]}
  <2>4. /\ \A i \in 1..(n + 1) : f[i] = IF i = 1 THEN t[i] ELSE f[i - 1] \o t[i]
        /\ \A i \in 1..n : h[i] = IF i = 1 THEN s[i] ELSE h[i - 1] \o s[i]
    BY <1>3, <2>2 DEF Flattening
  <2>5. 0 \in A
    <3>1. 1 \in 1..(n + 1) /\ 1 \in 1..n BY <1>2, <2>1
    <3>2. f[1] = t[1] /\ h[1] = s[1] /\ s[1] = t[1] BY <3>1, <2>4, <1>2
    <3> QED BY <3>2
  <2>6. ASSUME NEW i \in Nat, i \in A PROVE i + 1 \in A
    <3>1. SUFFICES ASSUME i + 1 < n PROVE f[i + 2] = h[i + 2] BY <1>2, SMTT(30)
    <3>2. f[i + 1] = h[i + 1] BY <2>6, <3>1, <1>2
    <3>3. i + 2 \in 1..(n + 1) /\ i + 2 \in 1..n /\ i + 2 # 1 /\ (i + 2) - 1 = i + 1 BY <1>2, <3>1
    <3>4. f[i + 2] = f[i + 1] \o t[i + 2] /\ h[i + 2] = h[i + 1] \o s[i + 2] BY <3>3, <2>4
    <3> QED BY <3>2, <3>3, <3>4, <1>2
  <2>7. \A i \in Nat : i \in A
    <3> HIDE DEF A
    <3> QED BY <2>5, <2>6, SetInduction
  <2>8. n - 1 \in Nat /\ n - 1 < n /\ (n - 1) + 1 = n BY <1>2, <2>1
  <2>9. f[n] = h[n] BY <2>7, <2>8
  <2>10. h[n] \in Seq(S)
    <3>1. n \in 1..n BY <1>2, <2>1
    <3> HIDE DEF n
    <3> QED BY <2>3, <3>1
  <2> QED BY <1>1, <1>2, <1>3, <1>4, <2>1, <2>2, <2>9, <2>10 DEF t
<1> QED BY <1>5, <1>6

-----------------------------------------------------------------------------
(* The function by which Masked is defined.                                *)
Upto(f, items, mask) ==
    f = [i \in 0..Len(items) |->
           IF i = 0 THEN <<>>
           ELSE IF mask[i] = 1 THEN Append(f[i - 1], items[i]) ELSE f[i - 1]]

(* There is such a function, for the list with one more item it is longer. *)
LEMMA UptoExists ==
    ASSUME NEW S, NEW items \in Seq(S), NEW mask
    PROVE  \E f : Upto(f, items, mask)
<1> DEFINE A == {s \in Seq(S) : \E f : Upto(f, s, mask)}
<1>1. <<>> \in A
  <2> DEFINE f == [i \in 0..0 |-> <<>>]
  <2>1. Upto(f, <<>>, mask) BY DEF Upto
  <2> QED BY <2>1
<1>2. ASSUME NEW s \in Seq(S), NEW e \in S, s \in A PROVE Append(s, e) \in A
  <2> DEFINE t == Append(s, e)
             n == Len(s)
  <2>1. /\ n \in Nat /\ t \in Seq(S) /\ Len(t) = n + 1 /\ t[n + 1] = e
        /\ \A i \in 1..n : t[i] = s[i]
    BY AppendFacts
  <2> HIDE DEF t
  <2>2. PICK f : Upto(f, s, mask) BY <1>2
  <2> DEFINE g == [i \in 0..(n + 1) |->
                     IF i = n + 1
                     THEN IF mask[n + 1] = 1 THEN Append(f[n], e) ELSE f[n]
                     ELSE f[i]]
  <2>3. ASSUME NEW i \in 0..(n + 1)
        PROVE g[i] = IF i = 0 THEN <<>>
                     ELSE IF mask[i] = 1 THEN Append(g[i - 1], t[i]) ELSE g[i - 1]
    <3>1. CASE i = n + 1
      <4>1. i - 1 \in 0..(n + 1) /\ i - 1 # n + 1 /\ i # 0 /\ i - 1 = n BY <3>1, <2>1
      <4>2. g[i - 1] = f[n] BY <4>1
      <4>3. g[i] = IF mask[n + 1] = 1 THEN Append(f[n], e) ELSE f[n] BY <3>1
      <4> QED BY <3>1, <4>1, <4>2, <4>3, <2>1
    <3>2. CASE i # n + 1
      <4>1. i \in 0..n /\ (i # 0 => i \in 1..n) BY <3>2, <2>1
      <4>2. f[i] = IF i = 0 THEN <<>>
                   ELSE IF mask[i] = 1 THEN Append(f[i - 1], s[i]) ELSE f[i - 1]
        BY <4>1, <2>2 DEF Upto
      <4>3. i # 0 => i - 1 \in 0..(n + 1) /\ i - 1 # n + 1 BY <4>1, <2>1
      <4>4. i # 0 => g[i - 1] = f[i - 1] BY <4>3
      <4>5. g[i] = f[i] BY <3>2
      <4> QED BY <4>1, <4>2, <4>4, <4>5, <2>1
    <3> QED BY <3>1, <3>2
  <2>4. g = [i \in 0..(n + 1) |-> g[i]] OBVIOUS
  <2> HIDE DEF g
  <2>5. Upto(g, t, mask) BY <2>1, <2>3, <2>4 DEF Upto
  <2> QED BY <2>1, <2>5 DEF t
<1>3. \A s \in Seq(S) : s \in A
  <2> HIDE DEF A
  <2> QED BY <1>1, <1>2, SeqInduction
<1> QED BY <1>3

(* Masked is its last value.                                               *)
LEMMA MaskedByUpto ==
    ASSUME NEW S, NEW items \in Seq(S), NEW mask
    PROVE  \E f : Upto(f, items, mask) /\ Masked(items, mask) = f[Len(items)]
<1> DEFINE f == CHOOSE g : Upto(g, items, mask)
<1>1. Upto(f, items, mask) BY UptoExists
<1>2. Masked(items, mask) = f[Len(items)] BY Zenon DEF Masked, Upto
<1> QED BY <1>1, <1>2

(* Masked, by recursion on the list.                                       *)
LEMMA MaskedAppend ==
    ASSUME NEW S, NEW items \in Seq(S), NEW e \in S, NEW mask
    PROVE  Masked(Append(items, e), mask) =
             IF mask[Len(items) + 1] = 1 THEN Append(Masked(items, mask), e)
             ELSE Masked(items, mask)
<1> DEFINE t == Append(items, e)
           n == Len(items)
<1>1. /\ n \in Nat /\ t \in Seq(S) /\ Len(t) = n + 1 /\ t[n + 1] = e
      /\ \A i \in 1..n : t[i] = items[i]
  BY AppendFacts
<1> HIDE DEF t
<1>2. PICK f : Upto(f, t, mask) /\ Masked(t, mask) = f[n + 1] BY <1>1, MaskedByUpto
<1>3. PICK h : Upto(h, items, mask) /\ Masked(items, mask) = h[n] BY MaskedByUpto
<1> HIDE DEF n
<1>4. /\ \A i \in 0..(n + 1) : f[i] = IF i = 0 THEN <<>>
                             ELSE IF mask[i] = 1 THEN Append(f[i - 1], t[i]) ELSE f[i - 1]
      /\ \A i \in 0..n : h[i] = IF i = 0 THEN <<>>
                              ELSE IF mask[i] = 1 THEN Append(h[i - 1], items[i]) ELSE h[i - 1]
  BY <1>1, <1>2, <1>3 DEF Upto, n
<1> DEFINE A == {i \in Nat : i <= n => f[i] = h[i]}
<1>5. 0 \in A
  <2>1. 0 \in 0..n /\ 0 \in 0..(n + 1) BY <1>1
  <2>2. f[0] = h[0] BY <1>4, <2>1
  <2> QED BY <2>2
<1>6. ASSUME NEW i \in Nat, i \in A PROVE i + 1 \in A
  <2>1. SUFFICES ASSUME i + 1 <= n PROVE f[i + 1] = h[i + 1] BY <1>1
  <2>2. f[i] = h[i] BY <1>1, <1>6, <2>1
  <2> DEFINE j == i + 1
  <2>3. j \in 0..n /\ j \in 0..(n + 1) /\ j # 0 /\ j - 1 = i /\ j \in 1..n BY <1>1, <2>1
  <2> HIDE DEF j
  <2>4. f[j] = h[j] BY <1>1, <1>4, <2>2, <2>3
  <2> QED BY <2>4 DEF j
<1>7. \A i \in Nat : i \in A
  <2> HIDE DEF A
  <2> QED BY <1>5, <1>6, SetInduction
<1>8. f[n] = h[n] BY <1>1, <1>7
<1>9. n + 1 \in 0..(n + 1) /\ n + 1 # 0 /\ (n + 1) - 1 = n BY <1>1
<1>10. f[n + 1] = IF mask[n + 1] = 1 THEN Append(f[n], t[n + 1]) ELSE f[n] BY <1>4, <1>9
<1> QED BY <1>1, <1>2, <1>3, <1>8, <1>10 DEF t, n

(* Masked of an empty list.                                                *)
LEMMA MaskedEmpty == ASSUME NEW mask PROVE Masked(<<>>, mask) = <<>>
<1>1. PICK f : Upto(f, <<>>, mask) /\ Masked(<<>>, mask) = f[Len(<<>>)]
  <2>1. <<>> \in Seq({}) OBVIOUS
  <2> QED BY <2>1, MaskedByUpto
<1>2. Len(<<>>) = 0 OBVIOUS
<1> QED BY <1>1, <1>2 DEF Upto

(* Masked looks at the mask only where there are items.                    *)
LEMMA MaskedAgrees ==
    ASSUME NEW S, NEW items \in Seq(S), NEW mask, NEW other,
           \A i \in 1..Len(items) : mask[i] = other[i]
    PROVE  Masked(items, mask) = Masked(items, other)
<1> DEFINE A == {s \in Seq(S) : (\A i \in 1..Len(s) : mask[i] = other[i]) =>
                                   Masked(s, mask) = Masked(s, other)}
<1>1. <<>> \in A
  <2>1. Masked(<<>>, mask) = <<>> /\ Masked(<<>>, other) = <<>> BY MaskedEmpty
  <2> QED BY <2>1
<1>2. ASSUME NEW s \in Seq(S), NEW e \in S, s \in A PROVE Append(s, e) \in A
  <2> DEFINE t == Append(s, e)
  <2>1. t \in Seq(S) /\ Len(t) = Len(s) + 1 /\ Len(s) \in Nat BY AppendFacts
  <2>2. /\ Masked(t, mask) = IF mask[Len(s) + 1] = 1 THEN Append(Masked(s, mask), e)
                             ELSE Masked(s, mask)
        /\ Masked(t, other) = IF other[Len(s) + 1] = 1 THEN Append(Masked(s, other), e)
                              ELSE Masked(s, other)
    BY MaskedAppend
  <2> HIDE DEF t
  <2>3. SUFFICES ASSUME \A i \in 1..Len(t) : mask[i] = other[i]
                 PROVE  Masked(t, mask) = Masked(t, other)
    BY <2>1 DEF t
  <2>4. Masked(s, mask) = Masked(s, other) BY <1>2, <2>1, <2>3
  <2>5. mask[Len(s) + 1] = other[Len(s) + 1] BY <2>1, <2>3
  <2> QED BY <2>2, <2>4, <2>5
<1>3. \A s \in Seq(S) : s \in A
  <2> HIDE DEF A
  <2> QED BY <1>1, <1>2, SeqInduction
<1> QED BY <1>3

(* Masked, by recursion on items and mask.                                 *)
LEMMA MaskedBoth ==
    ASSUME NEW S, NEW items \in Seq(S), NEW mask \in Seq({0, 1}), Len(mask) = Len(items),
           NEW e \in S, NEW b \in {0, 1}
    PROVE  Masked(Append(items, e), Append(mask, b)) =
             IF b = 1 THEN Append(Masked(items, mask), e) ELSE Masked(items, mask)
<1> DEFINE m == Append(mask, b)
<1>1. m[Len(items) + 1] = b /\ \A i \in 1..Len(items) : m[i] = mask[i] BY AppendFacts
<1> HIDE DEF m
<1>2. Masked(items, m) = Masked(items, mask) BY <1>1, MaskedAgrees
<1>3. Masked(Append(items, e), m) = IF m[Len(items) + 1] = 1 THEN Append(Masked(items, m), e)
                                    ELSE Masked(items, m)
  BY MaskedAppend
<1> QED BY <1>1, <1>2, <1>3 DEF m

(* Induction over a list and a mask of its length.                         *)
LEMMA MaskInduction ==
    ASSUME NEW S, NEW A, <<<<>>, <<>>>> \in A,
           ASSUME NEW s \in Seq(S), NEW m \in Seq({0, 1}), Len(m) = Len(s), <<s, m>> \in A,
                  NEW e \in S, NEW b \in {0, 1}
           PROVE  <<Append(s, e), Append(m, b)>> \in A
    PROVE  \A s \in Seq(S), m \in Seq({0, 1}) : Len(m) = Len(s) => <<s, m>> \in A
<1> DEFINE B == {s \in Seq(S) : \A m \in Seq({0, 1}) : Len(m) = Len(s) => <<s, m>> \in A}
<1>1. <<>> \in B BY LenFacts
<1>2. ASSUME NEW s \in Seq(S), NEW e \in S, s \in B PROVE Append(s, e) \in B
  <2>1. Append(s, e) \in Seq(S) /\ Len(Append(s, e)) = Len(s) + 1 /\ Len(s) \in Nat
    BY AppendFacts
  <2>2. SUFFICES ASSUME NEW m \in Seq({0, 1}), Len(m) = Len(s) + 1
                 PROVE  <<Append(s, e), m>> \in A
    BY <2>1
  <2>3. PICK k \in Seq({0, 1}), b \in {0, 1} : m = Append(k, b)
    <3>1. m # <<>> BY <2>1, <2>2, LenFacts
    <3> QED BY <3>1, SequenceEmptyOrAppend
  <2>4. Len(m) = Len(k) + 1 /\ Len(k) \in Nat BY <2>3, AppendFacts
  <2>5. Len(k) = Len(s) BY <2>1, <2>2, <2>4
  <2>6. <<s, k>> \in A BY <1>2, <2>5
  <2>7. <<Append(s, e), Append(k, b)>> \in A BY <2>5, <2>6
  <2> QED BY <2>3, <2>7
<1>3. \A s \in Seq(S) : s \in B
  <2> HIDE DEF B
  <2> QED BY <1>1, <1>2, SeqInduction
<1> QED BY <1>3

(* What is selected is a list, no longer than the items, and all of them   *)
(* if it is as long; its length is that of the ones of the mask.           *)
LEMMA MaskedFacts ==
    ASSUME NEW S, NEW items \in Seq(S), NEW mask \in Seq({0, 1}), Len(mask) = Len(items)
    PROVE  /\ Masked(items, mask) \in Seq(S)
           /\ Len(Masked(items, mask)) <= Len(items)
           /\ Len(Masked(items, mask)) = Len(items) => Masked(items, mask) = items
           /\ Len(Masked(mask, mask)) = Len(Masked(items, mask))
           /\ Masked(mask, mask) \in Seq({0, 1})
<1> DEFINE P(s, m) == /\ Masked(s, m) \in Seq(S)
                      /\ Len(Masked(s, m)) <= Len(s)
                      /\ Len(Masked(s, m)) = Len(s) => Masked(s, m) = s
                      /\ Len(Masked(m, m)) = Len(Masked(s, m))
                      /\ Masked(m, m) \in Seq({0, 1})
           A == {x \in Seq(S) \X Seq({0, 1}) : P(x[1], x[2])}
<1>1. <<<<>>, <<>>>> \in A
  <2>1. Masked(<<>>, <<>>) = <<>> BY MaskedEmpty
  <2>2. <<>> \in Seq(S) /\ <<>> \in Seq({0, 1}) /\ Len(<<>>) = 0 OBVIOUS
  <2>3. P(<<>>, <<>>)
    <3>1. Masked(<<>>, <<>>) \in Seq(S) /\ Masked(<<>>, <<>>) \in Seq({0, 1})
      BY <2>1, <2>2, Zenon
    <3>2. Len(Masked(<<>>, <<>>)) = 0 BY <2>1, <2>2, Zenon
    <3> QED BY <2>1, <2>2, <3>1, <3>2
  <2> HIDE DEF P
  <2> QED BY <2>2, <2>3
<1>2. ASSUME NEW s \in Seq(S), NEW m \in Seq({0, 1}), Len(m) = Len(s), <<s, m>> \in A,
             NEW e \in S, NEW b \in {0, 1}
      PROVE  <<Append(s, e), Append(m, b)>> \in A
  <2>1. P(s, m) BY <1>2
  <2> DEFINE t == Append(s, e)
             k == Append(m, b)
  <2>2. /\ t \in Seq(S) /\ Len(t) = Len(s) + 1 /\ Len(s) \in Nat
        /\ k \in Seq({0, 1}) /\ Len(k) = Len(m) + 1
    BY AppendFacts
  <2>3. Masked(t, k) = IF b = 1 THEN Append(Masked(s, m), e) ELSE Masked(s, m)
    BY <1>2, MaskedBoth
  <2>4. Masked(k, k) = IF b = 1 THEN Append(Masked(m, m), b) ELSE Masked(m, m)
    BY <1>2, MaskedBoth
  <2>5. Len(Masked(s, m)) \in Nat /\ Len(Masked(m, m)) \in Nat BY <2>1, LenFacts
  <2>6. P(t, k)
    <3>1. CASE b = 1
      <4>1. /\ Masked(t, k) = Append(Masked(s, m), e)
            /\ Masked(k, k) = Append(Masked(m, m), b)
        BY <2>3, <2>4, <3>1
      <4>2. /\ Masked(t, k) \in Seq(S) /\ Len(Masked(t, k)) = Len(Masked(s, m)) + 1
            /\ Masked(k, k) \in Seq({0, 1}) /\ Len(Masked(k, k)) = Len(Masked(m, m)) + 1
        BY <2>1, <4>1, AppendFacts
      <4>3. Len(Masked(t, k)) = Len(t) => Masked(t, k) = t
        BY <2>1, <2>2, <2>5, <4>1, <4>2
      <4> HIDE DEF t, k
      <4> QED BY <2>1, <2>2, <2>5, <4>2, <4>3
    <3>2. CASE b # 1
      <4>1. Masked(t, k) = Masked(s, m) /\ Masked(k, k) = Masked(m, m) BY <2>3, <2>4, <3>2
      <4> HIDE DEF t, k
      <4> QED BY <2>1, <2>2, <2>5, <4>1
    <3> QED BY <3>1, <3>2
  <2> HIDE DEF P
  <2> QED BY <2>2, <2>6
<1>3. \A s \in Seq(S), m \in Seq({0, 1}) : Len(m) = Len(s) => <<s, m>> \in A
  <2> HIDE DEF A
  <2> QED BY <1>1, <1>2, MaskInduction
<1> QED BY <1>3

(* Masking goes piece by piece.                                            *)
LEMMA MaskedConcat ==
    ASSUME NEW S, NEW items \in Seq(S), NEW mask \in Seq({0, 1}), Len(mask) = Len(items),
           NEW more \in Seq(S), NEW ones \in Seq({0, 1}), Len(ones) = Len(more)
    PROVE  Masked(items \o more, mask \o ones) = Masked(items, mask) \o Masked(more, ones)
<1> DEFINE P(s, m) == Masked(items \o s, mask \o m) = Masked(items, mask) \o Masked(s, m)
           A == {x \in Seq(S) \X Seq({0, 1}) : P(x[1], x[2])}
<1>0. Masked(items, mask) \in Seq(S) BY MaskedFacts
<1>1. <<<<>>, <<>>>> \in A
  <2>1. items \o <<>> = items /\ mask \o <<>> = mask BY ConcatEmptySeq
  <2>2. Masked(<<>>, <<>>) = <<>> BY MaskedEmpty
  <2>3. Masked(items, mask) \o <<>> = Masked(items, mask) BY <1>0, ConcatEmptySeq
  <2>4. P(<<>>, <<>>) BY <2>1, <2>2, <2>3
  <2>5. <<>> \in Seq(S) /\ <<>> \in Seq({0, 1}) OBVIOUS
  <2> HIDE DEF P
  <2> QED BY <2>4, <2>5
<1>2. ASSUME NEW s \in Seq(S), NEW m \in Seq({0, 1}), Len(m) = Len(s), <<s, m>> \in A,
             NEW e \in S, NEW b \in {0, 1}
      PROVE  <<Append(s, e), Append(m, b)>> \in A
  <2>1. P(s, m) BY <1>2
  <2> DEFINE t == items \o s
             k == mask \o m
             x == Masked(items, mask)
             y == Masked(s, m)
  <2>2. t \in Seq(S) /\ k \in Seq({0, 1})  BY ConcatProperties
  <2>3. Len(k) = Len(t)
    <3>1. Len(t) = Len(items) + Len(s) BY ConcatProperties
    <3>2. Len(k) = Len(mask) + Len(m) BY ConcatProperties
    <3> QED BY <1>2, <3>1, <3>2
  <2>4. items \o Append(s, e) = Append(t, e) /\ mask \o Append(m, b) = Append(k, b)
    BY ConcatAppend
  <2>5. Masked(Append(s, e), Append(m, b)) = IF b = 1 THEN Append(y, e) ELSE y
    BY <1>2, MaskedBoth
  <2>6. y \in Seq(S) BY <1>2, MaskedFacts
  <2>7. Masked(t, k) = x \o y BY <2>1
  <2> HIDE DEF t, k, x, y
  <2>8. Masked(Append(t, e), Append(k, b)) = IF b = 1 THEN Append(Masked(t, k), e) ELSE Masked(t, k)
    BY <2>2, <2>3, MaskedBoth
  <2>10. x \o Append(y, e) = Append(x \o y, e) BY <1>0, <2>6, ConcatAppend DEF x
  <2>11. P(Append(s, e), Append(m, b)) BY <2>4, <2>5, <2>7, <2>8, <2>10 DEF x
  <2>9. Append(s, e) \in Seq(S) /\ Append(m, b) \in Seq({0, 1}) BY AppendFacts
  <2> HIDE DEF P
  <2> QED BY <2>9, <2>11
<1>3. \A s \in Seq(S), m \in Seq({0, 1}) : Len(m) = Len(s) => <<s, m>> \in A
  <2> HIDE DEF A
  <2> QED BY <1>1, <1>2, MaskInduction
<1> QED BY <1>3

(* A mask of ones selects everything, one without ones nothing.            *)
LEMMA MaskedAll ==
    ASSUME NEW S, NEW items \in Seq(S), NEW mask
    PROVE  /\ (\A i \in 1..Len(items) : mask[i] = 1) => Masked(items, mask) = items
           /\ (\A i \in 1..Len(items) : mask[i] # 1) => Masked(items, mask) = <<>>
<1> DEFINE P(s) == /\ (\A i \in 1..Len(s) : mask[i] = 1) => Masked(s, mask) = s
                   /\ (\A i \in 1..Len(s) : mask[i] # 1) => Masked(s, mask) = <<>>
           A == {s \in Seq(S) : P(s)}
<1>1. <<>> \in A
  <2>1. Masked(<<>>, mask) = <<>> BY MaskedEmpty
  <2> QED BY <2>1
<1>2. ASSUME NEW s \in Seq(S), NEW e \in S, s \in A PROVE Append(s, e) \in A
  <2> DEFINE t == Append(s, e)
  <2>1. t \in Seq(S) /\ Len(t) = Len(s) + 1 /\ Len(s) \in Nat BY AppendFacts
  <2>2. Masked(t, mask) = IF mask[Len(s) + 1] = 1 THEN Append(Masked(s, mask), e)
                          ELSE Masked(s, mask)
    BY MaskedAppend
  <2>3. P(s) BY <1>2
  <2>4. ASSUME \A i \in 1..Len(t) : mask[i] = 1 PROVE Masked(t, mask) = t
    <3>1. \A i \in 1..Len(s) : mask[i] = 1 BY <2>1, <2>4
    <3>2. mask[Len(s) + 1] = 1 BY <2>1, <2>4
    <3> QED BY <2>2, <2>3, <3>1, <3>2
  <2>5. ASSUME \A i \in 1..Len(t) : mask[i] # 1 PROVE Masked(t, mask) = <<>>
    <3>1. \A i \in 1..Len(s) : mask[i] # 1 BY <2>1, <2>5
    <3>2. mask[Len(s) + 1] # 1 BY <2>1, <2>5
    <3> QED BY <2>2, <2>3, <3>1, <3>2
  <2> QED BY <2>1, <2>4, <2>5
<1>3. \A s \in Seq(S) : s \in A
  <2> HIDE DEF A
  <2> QED BY <1>1, <1>2, SeqInduction
<1> QED BY <1>3

(* x is in a list; x is in it at a place of mask 1.                        *)
In(s, x) == \E k \in 1..Len(s) : s[k] = x
Chosen(s, mask, x) == \E i \in 1..Len(s) : mask[i] = 1 /\ s[i] = x

(* What is selected are the items of mask 1, and no others.                *)
LEMMA MaskedRange ==
    ASSUME NEW S, NEW items \in Seq(S), NEW mask, NEW x
    PROVE  /\ Masked(items, mask) \in Seq(S) /\ Len(Masked(items, mask)) <= Len(items)
           /\ In(Masked(items, mask), x) <=> Chosen(items, mask, x)
<1> DEFINE P(s) == /\ Masked(s, mask) \in Seq(S) /\ Len(Masked(s, mask)) <= Len(s)
                   /\ In(Masked(s, mask), x) <=> Chosen(s, mask, x)
           A == {s \in Seq(S) : P(s)}
<1>1. <<>> \in A
  <2>1. Masked(<<>>, mask) = <<>> BY MaskedEmpty
  <2>2. <<>> \in Seq(S) /\ Len(<<>>) = 0 /\ 1..0 = {} OBVIOUS
  <2>3. ~In(<<>>, x) /\ ~Chosen(<<>>, mask, x) BY <2>2 DEF In, Chosen
  <2>4. /\ Masked(<<>>, mask) \in Seq(S) /\ Len(Masked(<<>>, mask)) = 0
        /\ In(Masked(<<>>, mask), x) <=> Chosen(<<>>, mask, x)
    BY <2>1, <2>2, <2>3, Zenon
  <2>5. P(<<>>) BY <2>2, <2>4
  <2> HIDE DEF P
  <2> QED BY <2>2, <2>5
<1>2. ASSUME NEW s \in Seq(S), NEW e \in S, s \in A PROVE Append(s, e) \in A
  <2> DEFINE t == Append(s, e)
             m == Masked(s, mask)
  <2>1. /\ t \in Seq(S) /\ Len(t) = Len(s) + 1 /\ Len(s) \in Nat /\ t[Len(s) + 1] = e
        /\ \A i \in 1..Len(s) : t[i] = s[i]
    BY AppendFacts
  <2>2. Masked(t, mask) = IF mask[Len(s) + 1] = 1 THEN Append(m, e) ELSE m BY MaskedAppend
  <2>3. m \in Seq(S) /\ Len(m) <= Len(s) /\ (In(m, x) <=> Chosen(s, mask, x)) BY <1>2
  <2> HIDE DEF t, m
  <2>4. /\ Append(m, e) \in Seq(S) /\ Len(Append(m, e)) = Len(m) + 1 /\ Len(m) \in Nat
        /\ Append(m, e)[Len(m) + 1] = e /\ \A i \in 1..Len(m) : Append(m, e)[i] = m[i]
    BY <2>3, AppendFacts
  <2>5. Chosen(t, mask, x) <=> Chosen(s, mask, x) \/ (mask[Len(s) + 1] = 1 /\ e = x)
    <3>1. \A i : i \in 1..Len(t) <=> (i \in 1..Len(s) \/ i = Len(s) + 1) BY <2>1
    <3> QED BY <2>1, <3>1 DEF Chosen
  <2>6. In(Append(m, e), x) <=> In(m, x) \/ e = x
    <3> DEFINE a == Append(m, e)
    <3>1. \A i : i \in 1..Len(a) <=> (i \in 1..Len(m) \/ i = Len(m) + 1) BY <2>4
    <3> HIDE DEF a
    <3> QED BY <2>4, <3>1 DEF a, In
  <2>7. Masked(t, mask) \in Seq(S) /\ Len(Masked(t, mask)) <= Len(t)
    BY <2>1, <2>2, <2>3, <2>4
  <2>8. In(Masked(t, mask), x) <=> Chosen(t, mask, x) BY <2>2, <2>3, <2>5, <2>6
  <2>9. P(t) BY <2>7, <2>8
  <2> HIDE DEF P
  <2> QED BY <2>1, <2>9 DEF t
<1>3. \A s \in Seq(S) : s \in A
  <2> HIDE DEF A
  <2> QED BY <1>1, <1>2, SeqInduction
<1> QED BY <1>3

(* The same in two directions, for a list and its selection.               *)
LEMMA MaskedHas ==
    ASSUME NEW S, NEW items \in Seq(S), NEW mask, NEW sel, sel = Masked(items, mask)
    PROVE  /\ \A k \in 1..Len(sel) : \E i \in 1..Len(items) : mask[i] = 1 /\ items[i] = sel[k]
           /\ \A i \in 1..Len(items) : mask[i] = 1 => \E k \in 1..Len(sel) : sel[k] = items[i]
<1>1. \A x : In(sel, x) <=> Chosen(items, mask, x) BY MaskedRange
<1> QED BY <1>1 DEF In, Chosen

(* A function applied to every item, ...                                   *)
Mapped(F, s) == [i \in 1..Len(s) |-> F[s[i]]]

(* ... before or after the selection.                                      *)
LEMMA MaskedMap ==
    ASSUME NEW S, NEW items \in Seq(S), NEW F, NEW mask
    PROVE  Masked(Mapped(F, items), mask) = Mapped(F, Masked(items, mask))
<1> DEFINE T == {F[x] : x \in S}
           P(s) == /\ Masked(s, mask) \in Seq(S)
                   /\ Masked(Mapped(F, s), mask) = Mapped(F, Masked(s, mask))
           A == {s \in Seq(S) : P(s)}
<1>0. ASSUME NEW s \in Seq(S), NEW e \in S PROVE Mapped(F, Append(s, e)) = Append(Mapped(F, s), F[e])
  <2> DEFINE t == Append(s, e)
             n == Len(s)
  <2>1. /\ t \in Seq(S) /\ Len(t) = n + 1 /\ n \in Nat /\ t[n + 1] = e
        /\ \A i \in 1..n : t[i] = s[i]
    BY AppendFacts
  <2>2. Mapped(F, s) \in Seq(T) /\ Len(Mapped(F, s)) = n /\ F[e] \in T BY <2>1, LenFacts DEF Mapped
  <2> DEFINE u == Append(Mapped(F, s), F[e])
  <2>3. /\ u \in Seq(T) /\ Len(u) = n + 1 /\ u[n + 1] = F[e]
        /\ \A i \in 1..n : u[i] = Mapped(F, s)[i]
    <3> HIDE DEF n, T
    <3> QED BY <2>2, AppendFacts
  <2> HIDE DEF t, u
  <2>4. Mapped(F, t) \in Seq(T) /\ Len(Mapped(F, t)) = n + 1
    <3>1. \A i \in 1..(n + 1) : t[i] \in S BY <2>1, LenFacts
    <3> QED BY <2>1, <3>1 DEF Mapped
  <2>5. \A i \in 1..(n + 1) : Mapped(F, t)[i] = u[i]
    <3>1. \A i \in 1..(n + 1) : Mapped(F, t)[i] = F[t[i]] BY <2>1 DEF Mapped
    <3>2. \A i \in 1..n : Mapped(F, s)[i] = F[s[i]] BY DEF Mapped
    <3>3. \A i \in 1..(n + 1) : i \in 1..n \/ i = n + 1 BY <2>1
    <3> HIDE DEF n, T
    <3> QED BY <2>1, <2>3, <3>1, <3>2, <3>3
  <2>6. Mapped(F, t) = u
    <3> HIDE DEF n, T
    <3> QED BY <2>3, <2>4, <2>5, SeqEqual
  <2> QED BY <2>6 DEF t, u
<1>1. <<>> \in A
  <2>1. Mapped(F, <<>>) = <<>> BY DEF Mapped
  <2>2. Masked(<<>>, mask) = <<>> BY MaskedEmpty
  <2>3. Masked(<<>>, mask) \in Seq(S)
    <3>1. <<>> \in Seq(S) OBVIOUS
    <3> QED BY Zenon, <2>2, <3>1
  <2>4. Masked(Mapped(F, <<>>), mask) = Mapped(F, Masked(<<>>, mask)) BY Zenon, <2>1, <2>2
  <2>5. P(<<>>) BY <2>3, <2>4
  <2> HIDE DEF P
  <2> QED BY <2>5
<1>2. ASSUME NEW s \in Seq(S), NEW e \in S, s \in A PROVE Append(s, e) \in A
  <2> DEFINE t == Append(s, e)
             m == Masked(s, mask)
  <2>1. t \in Seq(S) /\ Masked(t, mask) \in Seq(S) /\ m \in Seq(S)
    <3>1. t \in Seq(S) BY AppendFacts
    <3> HIDE DEF t
    <3> QED BY <3>1, MaskedRange
  <2>2. Masked(t, mask) = IF mask[Len(s) + 1] = 1 THEN Append(m, e) ELSE m BY MaskedAppend
  <2>3. Mapped(F, s) \in Seq(T) /\ Len(Mapped(F, s)) = Len(s) /\ F[e] \in T BY LenFacts DEF Mapped
  <2>4. Mapped(F, t) = Append(Mapped(F, s), F[e]) /\ Mapped(F, Append(m, e)) = Append(Mapped(F, m), F[e])
    BY <1>0, <2>1
  <2>5. Masked(Mapped(F, s), mask) = Mapped(F, m) BY <1>2
  <2> HIDE DEF m, t, T
  <2>6. Masked(Mapped(F, t), mask) = IF mask[Len(s) + 1] = 1 THEN Append(Mapped(F, m), F[e])
                                  ELSE Mapped(F, m)
    <3> DEFINE q == Mapped(F, s)
               x == F[e]
    <3>1. q \in Seq(T) /\ Len(q) = Len(s) /\ x \in T BY <2>3
    <3> HIDE DEF q, x
    <3>2. Masked(Append(q, x), mask) = IF mask[Len(q) + 1] = 1 THEN Append(Masked(q, mask), x)
                                       ELSE Masked(q, mask)
      BY <3>1, MaskedAppend
    <3> QED BY <2>4, <2>5, <3>1, <3>2 DEF q, x
  <2>7. P(t) BY <2>1, <2>2, <2>4, <2>6
  <2> HIDE DEF P
  <2> QED BY <2>1, <2>7 DEF t
<1>3. \A s \in Seq(S) : s \in A
  <2> HIDE DEF A
  <2> QED BY <1>1, <1>2, SeqInduction
<1>4. P(items)
  <2> HIDE DEF P
  <2> QED BY <1>3
<1> QED BY <1>4
=============================================================================
