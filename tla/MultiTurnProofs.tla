--------------------------- MODULE MultiTurnProofs ---------------------------
(***************************************************************************)
(* Machine-checked proofs about MultiTurn, for every set of supported      *)
(* schedulers, any number of turns and of tokens in a turn.                *)
(***************************************************************************)
EXTENDS MultiTurnInvariant, BasicFacts, TLAPS

-----------------------------------------------------------------------------
(* The mask of generated tokens, and that it goes piece by piece.          *)
LEMMA ByModelFacts ==
    ASSUME NEW s \in Seq(Tokens), NEW t \in Seq(Tokens)
    PROVE  /\ ByModel(s) \in Seq({0, 1}) /\ Len(ByModel(s)) = Len(s)
           /\ ByModel(s \o t) = ByModel(s) \o ByModel(t)
<1>1. ASSUME NEW u \in Seq(Tokens)
      PROVE  /\ ByModel(u) \in Seq({0, 1}) /\ Len(ByModel(u)) = Len(u)
             /\ \A i \in 1..Len(u) : ByModel(u)[i] = IF u[i][2] # 0 THEN 1 ELSE 0
  BY DEF ByModel
<1> DEFINE x == ByModel(s \o t)
           y == ByModel(s) \o ByModel(t)
<1>2. /\ s \o t \in Seq(Tokens) /\ Len(s \o t) = Len(s) + Len(t)
      /\ \A i \in 1..Len(s) + Len(t) : (s \o t)[i] = IF i <= Len(s) THEN s[i] ELSE t[i - Len(s)]
  BY ConcatProperties
<1>3. /\ x \in Seq({0, 1}) /\ Len(x) = Len(s) + Len(t)
      /\ \A i \in 1..Len(s) + Len(t) : x[i] = IF (s \o t)[i][2] # 0 THEN 1 ELSE 0
  <2> DEFINE u == s \o t
  <2>1. u \in Seq(Tokens) /\ Len(u) = Len(s) + Len(t) BY <1>2
  <2> HIDE DEF u
  <2>2. /\ ByModel(u) \in Seq({0, 1}) /\ Len(ByModel(u)) = Len(s) + Len(t)
        /\ \A i \in 1..Len(s) + Len(t) : ByModel(u)[i] = IF u[i][2] # 0 THEN 1 ELSE 0
    BY <1>1, <2>1
  <2> QED BY <2>2 DEF u
<1>4. /\ y \in Seq({0, 1}) /\ Len(y) = Len(s) + Len(t)
      /\ \A i \in 1..Len(s) + Len(t) :
            y[i] = IF i <= Len(s) THEN ByModel(s)[i] ELSE ByModel(t)[i - Len(s)]
  <2> DEFINE v == ByModel(s)
             w == ByModel(t)
  <2>1. v \in Seq({0, 1}) /\ Len(v) = Len(s) BY <1>1
  <2>2. w \in Seq({0, 1}) /\ Len(w) = Len(t) BY <1>1
  <2> HIDE DEF v, w
  <2>3. /\ v \o w \in Seq({0, 1}) /\ Len(v \o w) = Len(v) + Len(w)
        /\ \A i \in 1..Len(v) + Len(w) : (v \o w)[i] = IF i <= Len(v) THEN v[i] ELSE w[i - Len(v)]
    BY <2>1, <2>2, ConcatProperties
  <2> QED BY <2>1, <2>2, <2>3 DEF v, w
<1>5. Len(s) \in Nat /\ Len(t) \in Nat BY LenFacts
<1>6. ASSUME NEW i \in 1..Len(x) PROVE x[i] = y[i]
  <2>1. i \in 1..Len(s) + Len(t) BY <1>3
  <2>2. CASE i <= Len(s)
    <3>1. i \in 1..Len(s) BY <1>5, <2>1, <2>2
    <3> QED BY <1>1, <1>2, <1>3, <1>4, <2>1, <2>2, <3>1
  <2>3. CASE i > Len(s)
    <3>1. i - Len(s) \in 1..Len(t) /\ ~(i <= Len(s)) BY <1>5, <2>1, <2>3
    <3>2. x[i] = IF t[i - Len(s)][2] # 0 THEN 1 ELSE 0 BY <1>2, <1>3, <2>1, <3>1
    <3>3. y[i] = ByModel(t)[i - Len(s)] BY <1>4, <2>1, <3>1
    <3> QED BY <1>1, <3>1, <3>2, <3>3
  <2>4. i <= Len(s) \/ i > Len(s) BY <1>5, <2>1
  <2> HIDE DEF x, y
  <2> QED BY <2>2, <2>3, <2>4
<1>7. x = y
  <2> HIDE DEF x, y
  <2> QED BY <1>3, <1>4, <1>6, SeqEqual
<1> QED BY <1>1, <1>7

(* The generated tokens of a list, piece by piece.                         *)
LEMMA GeneratedFacts ==
    ASSUME NEW s \in Seq(Tokens), NEW t \in Seq(Tokens)
    PROVE  /\ Generated(s) \in Seq(Tokens)
           /\ Len(Generated(s)) = Len(s) => Generated(s) = s
           /\ Generated(s \o t) = Generated(s) \o Generated(t)
<1>1. /\ ByModel(s) \in Seq({0, 1}) /\ Len(ByModel(s)) = Len(s)
      /\ ByModel(t) \in Seq({0, 1}) /\ Len(ByModel(t)) = Len(t)
      /\ ByModel(s \o t) = ByModel(s) \o ByModel(t)
  BY ByModelFacts
<1>2. Masked(s \o t, ByModel(s) \o ByModel(t)) = Masked(s, ByModel(s)) \o Masked(t, ByModel(t))
  BY <1>1, MaskedConcat
<1>3. /\ Masked(s, ByModel(s)) \in Seq(Tokens)
      /\ Len(Masked(s, ByModel(s))) = Len(s) => Masked(s, ByModel(s)) = s
  BY <1>1, MaskedFacts
<1> QED BY <1>1, <1>2, <1>3 DEF Generated

(* A turn, and a turn with a token added by the scheduler.                 *)
LEMMA TurnFacts ==
    ASSUME NEW s \in Seq(Tokens), NEW t \in Seq(Tokens),
           \A i \in 1..Len(s) : s[i][2] # 0, \A i \in 1..Len(t) : t[i][2] = 0
    PROVE  /\ ByModel(s) = Ones(s) /\ Generated(s) = s
           /\ ByModel(s \o t) = StepMask(s, t) /\ Generated(s \o t) = s
<1>1. ByModel(s) = Ones(s) BY DEF ByModel, Ones
<1>2. ByModel(t) = [i \in 1..Len(t) |-> 0] BY DEF ByModel
<1>3. ByModel(s \o t) = StepMask(s, t) BY <1>1, <1>2, ByModelFacts DEF StepMask
<1>4. Generated(s) = s
  <2>1. \A i \in 1..Len(s) : Ones(s)[i] = 1 BY DEF Ones
  <2> QED BY <1>1, <2>1, MaskedAll DEF Generated
<1>5. Generated(t) = <<>>
  <2> DEFINE m == ByModel(t)
  <2>1. \A i \in 1..Len(t) : m[i] # 1 BY <1>2
  <2> HIDE DEF m
  <2>2. Masked(t, m) = <<>> BY <2>1, MaskedAll
  <2> QED BY <2>2 DEF Generated, m
<1>6. Generated(s \o t) = s \o <<>> BY <1>4, <1>5, GeneratedFacts
<1> QED BY <1>1, <1>3, <1>4, <1>6, ConcatEmptySeq

-----------------------------------------------------------------------------
(* A list of turns with its last turn continued.                           *)
LEMMA ExtendFacts ==
    ASSUME NEW S, NEW turns \in Seq(Seq(S)), turns # <<>>, NEW t \in Seq(S)
    PROVE  /\ ExtendLast(turns, t) \in Seq(Seq(S)) /\ ExtendLast(turns, t) # <<>>
           /\ Len(ExtendLast(turns, t)) = Len(turns) /\ Len(turns) \in Nat \ {0}
           /\ \A i \in 1..Len(turns) : ExtendLast(turns, t)[i] =
                IF i = Len(turns) THEN turns[i] \o t ELSE turns[i]
<1>1. Len(turns) \in Nat /\ Len(turns) # 0 BY LenFacts
<1>2. turns[Len(turns)] \in Seq(S) BY <1>1, LenFacts
<1>3. turns[Len(turns)] \o t \in Seq(S) BY <1>2, ConcatProperties
<1> DEFINE e == turns[Len(turns)] \o t
           u == [turns EXCEPT ![Len(turns)] = e]
<1>4. ExtendLast(turns, t) = u BY DEF ExtendLast
<1>5. Len(turns) \in 1..Len(turns) BY <1>1
<1> HIDE DEF e
<1>6. /\ u \in Seq(Seq(S)) /\ Len(u) = Len(turns)
      /\ \A j \in 1..Len(turns) : u[j] = IF j = Len(turns) THEN e ELSE turns[j]
  BY <1>3, <1>5, ExceptSeq DEF e
<1> HIDE DEF u
<1>7. u # <<>> BY <1>1, <1>6, LenFacts
<1> QED BY <1>1, <1>4, <1>6, <1>7 DEF e

(* Masks and generated tokens of a list of turns that grows.               *)
LEMMA MasksGrow ==
    ASSUME NEW turns \in TokenLists, NEW t \in Seq(Tokens)
    PROVE  /\ Masks(turns) \in Seq(Seq({0, 1})) /\ Len(Masks(turns)) = Len(turns)
           /\ Masks(Append(turns, t)) = Append(Masks(turns), ByModel(t))
           /\ turns # <<>> => Masks(ExtendLast(turns, t)) = ExtendLast(Masks(turns), ByModel(t))
<1> USE DEF TokenLists
<1>1. ASSUME NEW u \in TokenLists
      PROVE  /\ Masks(u) \in Seq(Seq({0, 1})) /\ Len(Masks(u)) = Len(u) /\ Len(u) \in Nat
             /\ \A i \in 1..Len(u) : Masks(u)[i] = ByModel(u[i])
  <2>1. Len(u) \in Nat /\ \A i \in 1..Len(u) : u[i] \in Seq(Tokens) BY LenFacts
  <2>2. \A i \in 1..Len(u) : ByModel(u[i]) \in Seq({0, 1}) BY <2>1, ByModelFacts
  <2> QED BY <2>1, <2>2 DEF Masks
<1>2. ByModel(t) \in Seq({0, 1}) BY ByModelFacts
<1>3. Masks(Append(turns, t)) = Append(Masks(turns), ByModel(t))
  <2> DEFINE u == Append(turns, t)
             x == Masks(u)
             y == Append(Masks(turns), ByModel(t))
  <2>1. /\ u \in TokenLists /\ Len(u) = Len(turns) + 1 /\ u[Len(turns) + 1] = t
        /\ \A i \in 1..Len(turns) : u[i] = turns[i]
    BY AppendFacts
  <2>2. /\ y \in Seq(Seq({0, 1})) /\ Len(y) = Len(turns) + 1 /\ y[Len(turns) + 1] = ByModel(t)
        /\ \A i \in 1..Len(turns) : y[i] = Masks(turns)[i]
    BY <1>1, <1>2, AppendFacts
  <2> HIDE DEF u, y
  <2>3. x \in Seq(Seq({0, 1})) /\ Len(x) = Len(u) /\ \A i \in 1..Len(u) : x[i] = ByModel(u[i])
    BY <1>1, <2>1
  <2>4. ASSUME NEW i \in 1..Len(x) PROVE x[i] = y[i]
    <3>1. i \in 1..Len(turns) \/ i = Len(turns) + 1 BY <1>1, <2>1, <2>3
    <3> QED BY <1>1, <2>1, <2>2, <2>3, <3>1
  <2> HIDE DEF x
  <2>5. x = y BY <2>1, <2>2, <2>3, <2>4, SeqEqual
  <2> QED BY <2>5 DEF u, x, y
<1>4. ASSUME turns # <<>>
      PROVE  Masks(ExtendLast(turns, t)) = ExtendLast(Masks(turns), ByModel(t))
  <2> DEFINE u == ExtendLast(turns, t)
             x == Masks(u)
             y == ExtendLast(Masks(turns), ByModel(t))
  <2>1. /\ u \in TokenLists /\ Len(u) = Len(turns) /\ Len(turns) \in Nat \ {0}
        /\ \A i \in 1..Len(turns) : u[i] = IF i = Len(turns) THEN turns[i] \o t ELSE turns[i]
    BY <1>4, ExtendFacts
  <2>0. Masks(turns) # <<>> BY <1>1, <2>1, LenFacts
  <2>2. /\ y \in Seq(Seq({0, 1})) /\ Len(y) = Len(turns)
        /\ \A i \in 1..Len(turns) : y[i] = IF i = Len(turns) THEN Masks(turns)[i] \o ByModel(t)
                                           ELSE Masks(turns)[i]
    <3> DEFINE B == {0, 1}
               m == Masks(turns)
               o == ByModel(t)
    <3>1. m \in Seq(Seq(B)) /\ m # <<>> /\ o \in Seq(B) /\ Len(m) = Len(turns)
      BY <1>1, <1>2, <2>0
    <3> HIDE DEF B, m, o
    <3>2. ExtendLast(m, o) \in Seq(Seq(B)) BY <3>1, ExtendFacts
    <3>3. Len(ExtendLast(m, o)) = Len(m) BY <3>1, ExtendFacts
    <3>4. ASSUME NEW i \in 1..Len(m)
          PROVE  ExtendLast(m, o)[i] = IF i = Len(m) THEN m[i] \o o ELSE m[i]
      BY <3>1, ExtendFacts
    <3> QED BY <3>1, <3>2, <3>3, <3>4 DEF B, m, o
  <2> HIDE DEF u, y
  <2>3. x \in Seq(Seq({0, 1})) /\ Len(x) = Len(u) /\ \A i \in 1..Len(u) : x[i] = ByModel(u[i])
    BY <1>1, <2>1
  <2>4. ASSUME NEW i \in 1..Len(x) PROVE x[i] = y[i]
    <3>1. i \in 1..Len(turns) BY <2>1, <2>3
    <3>2. turns[i] \in Seq(Tokens) BY <3>1, LenFacts
    <3>3. ByModel(turns[i] \o t) = ByModel(turns[i]) \o ByModel(t) BY <3>2, ByModelFacts
    <3>4. x[i] = ByModel(u[i]) BY <2>1, <2>3, <3>1
    <3>5. Masks(turns)[i] = ByModel(turns[i]) BY <1>1, <3>1
    <3>6. CASE i = Len(turns)
      <4>1. u[i] = turns[i] \o t BY <2>1, <3>1, <3>6
      <4>2. y[i] = Masks(turns)[i] \o ByModel(t) BY <2>2, <3>1, <3>6
      <4> QED BY <3>3, <3>4, <3>5, <4>1, <4>2
    <3>7. CASE i # Len(turns)
      <4>1. u[i] = turns[i] BY <2>1, <3>1, <3>7
      <4>2. y[i] = Masks(turns)[i] BY <2>2, <3>1, <3>7
      <4> QED BY <3>4, <3>5, <4>1, <4>2
    <3> QED BY <3>6, <3>7
  <2> HIDE DEF x
  <2>5. x = y BY <2>1, <2>2, <2>3, <2>4, SeqEqual
  <2> QED BY <2>5 DEF u, x, y
<1> QED BY <1>1, <1>3, <1>4

(* The same of the generated tokens.                                       *)
LEMMA GeneratedGrow ==
    ASSUME NEW turns \in TokenLists, NEW t \in Seq(Tokens)
    PROVE  /\ GeneratedOf(turns) \in TokenLists /\ Len(GeneratedOf(turns)) = Len(turns)
           /\ GeneratedOf(Append(turns, t)) = Append(GeneratedOf(turns), Generated(t))
           /\ turns # <<>> =>
                GeneratedOf(ExtendLast(turns, t)) = ExtendLast(GeneratedOf(turns), Generated(t))
<1> USE DEF TokenLists
<1>1. ASSUME NEW u \in TokenLists
      PROVE  /\ GeneratedOf(u) \in TokenLists /\ Len(GeneratedOf(u)) = Len(u) /\ Len(u) \in Nat
             /\ \A i \in 1..Len(u) : GeneratedOf(u)[i] = Generated(u[i])
  <2>1. Len(u) \in Nat /\ \A i \in 1..Len(u) : u[i] \in Seq(Tokens) BY LenFacts
  <2>2. \A i \in 1..Len(u) : Generated(u[i]) \in Seq(Tokens) BY <2>1, GeneratedFacts
  <2> QED BY <2>1, <2>2 DEF GeneratedOf
<1>2. Generated(t) \in Seq(Tokens) BY GeneratedFacts
<1>3. GeneratedOf(Append(turns, t)) = Append(GeneratedOf(turns), Generated(t))
  <2> DEFINE u == Append(turns, t)
             x == GeneratedOf(u)
             y == Append(GeneratedOf(turns), Generated(t))
  <2>1. /\ u \in TokenLists /\ Len(u) = Len(turns) + 1 /\ u[Len(turns) + 1] = t
        /\ \A i \in 1..Len(turns) : u[i] = turns[i]
    BY AppendFacts
  <2>2. /\ y \in TokenLists /\ Len(y) = Len(turns) + 1 /\ y[Len(turns) + 1] = Generated(t)
        /\ \A i \in 1..Len(turns) : y[i] = GeneratedOf(turns)[i]
    BY <1>1, <1>2, AppendFacts
  <2> HIDE DEF u, y
  <2>3. x \in TokenLists /\ Len(x) = Len(u) /\ \A i \in 1..Len(u) : x[i] = Generated(u[i])
    BY <1>1, <2>1
  <2>4. ASSUME NEW i \in 1..Len(x) PROVE x[i] = y[i]
    <3>1. i \in 1..Len(turns) \/ i = Len(turns) + 1 BY <1>1, <2>1, <2>3
    <3> QED BY <1>1, <2>1, <2>2, <2>3, <3>1
  <2> HIDE DEF x
  <2>5. x = y BY <2>1, <2>2, <2>3, <2>4, SeqEqual
  <2> QED BY <2>5 DEF u, x, y
<1>4. ASSUME turns # <<>>
      PROVE  GeneratedOf(ExtendLast(turns, t)) = ExtendLast(GeneratedOf(turns), Generated(t))
  <2> DEFINE u == ExtendLast(turns, t)
             x == GeneratedOf(u)
             m == GeneratedOf(turns)
             o == Generated(t)
             y == ExtendLast(m, o)
  <2>1. /\ u \in TokenLists /\ Len(u) = Len(turns) /\ Len(turns) \in Nat \ {0}
        /\ \A i \in 1..Len(turns) : u[i] = IF i = Len(turns) THEN turns[i] \o t ELSE turns[i]
    BY <1>4, ExtendFacts
  <2>0. m \in TokenLists /\ Len(m) = Len(turns) /\ m # <<>> /\ o \in Seq(Tokens)
    BY <1>1, <1>2, <2>1, LenFacts
  <2> HIDE DEF u, m, o
  <2>2. y \in TokenLists BY <2>0, ExtendFacts
  <2>3. Len(y) = Len(m) BY <2>0, ExtendFacts
  <2>4. ASSUME NEW i \in 1..Len(m) PROVE y[i] = IF i = Len(m) THEN m[i] \o o ELSE m[i]
    BY <2>0, ExtendFacts
  <2>5. x \in TokenLists /\ Len(x) = Len(u) /\ \A i \in 1..Len(u) : x[i] = Generated(u[i])
    BY <1>1, <2>1
  <2> HIDE DEF y
  <2>6. ASSUME NEW i \in 1..Len(x) PROVE x[i] = y[i]
    <3>1. i \in 1..Len(turns) /\ i \in 1..Len(m) BY <2>0, <2>1, <2>5
    <3>2. turns[i] \in Seq(Tokens) BY <3>1, LenFacts
    <3>3. Generated(turns[i] \o t) = Generated(turns[i]) \o o BY <3>2, GeneratedFacts DEF o
    <3>4. m[i] = Generated(turns[i]) BY <1>1, <3>1 DEF m
    <3> QED BY <2>0, <2>1, <2>4, <2>5, <3>1, <3>3, <3>4
  <2> HIDE DEF x
  <2>7. x = y BY <2>0, <2>1, <2>2, <2>3, <2>5, <2>6, SeqEqual
  <2> QED BY <2>7 DEF u, x, y, m, o
<1> QED BY <1>1, <1>3, <1>4

(* Put together, the masks and the generated tokens of the turns are those *)
(* of the turns put together.                                              *)
LEMMA FlattenTurns ==
    ASSUME NEW turns \in TokenLists
    PROVE  /\ FlattenSeq(turns) \in Seq(Tokens)
           /\ FlattenSeq(Masks(turns)) = ByModel(FlattenSeq(turns))
           /\ FlattenSeq(GeneratedOf(turns)) = Generated(FlattenSeq(turns))
<1> USE DEF TokenLists
<1> DEFINE P(s) == /\ FlattenSeq(s) \in Seq(Tokens)
                   /\ FlattenSeq(Masks(s)) = ByModel(FlattenSeq(s))
                   /\ FlattenSeq(GeneratedOf(s)) = Generated(FlattenSeq(s))
           A == {s \in TokenLists : P(s)}
<1>1. <<>> \in A
  <2>1. Len(<<>>) = 0 /\ <<>> \in TokenLists /\ <<>> \in Seq(Tokens) OBVIOUS
  <2>2. FlattenSeq(<<>>) = <<>> BY <2>1 DEF FlattenSeq
  <2>3. Masks(<<>>) = <<>> /\ GeneratedOf(<<>>) = <<>> /\ ByModel(<<>>) = <<>>
    BY DEF Masks, GeneratedOf, ByModel
  <2>4. Generated(<<>>) = <<>> BY MaskedEmpty DEF Generated
  <2>5. P(<<>>) BY <2>1, <2>2, <2>3, <2>4, Zenon
  <2> HIDE DEF P
  <2> QED BY <2>1, <2>5
<1>2. ASSUME NEW s \in TokenLists, NEW e \in Seq(Tokens), s \in A PROVE Append(s, e) \in A
  <2>1. P(s) BY <1>2
  <2> DEFINE f == FlattenSeq(s)
             m == Masks(s)
             g == GeneratedOf(s)
  <2>2. f \in Seq(Tokens) /\ FlattenSeq(m) = ByModel(f) /\ FlattenSeq(g) = Generated(f) BY <2>1
  <2>3. m \in Seq(Seq({0, 1})) /\ g \in TokenLists BY MasksGrow, GeneratedGrow
  <2>4. Masks(Append(s, e)) = Append(m, ByModel(e)) BY MasksGrow
  <2>5. GeneratedOf(Append(s, e)) = Append(g, Generated(e)) BY GeneratedGrow
  <2>6. FlattenSeq(Append(s, e)) = f \o e BY FlattenAppend
  <2>7. ByModel(e) \in Seq({0, 1}) /\ Generated(e) \in Seq(Tokens)
    BY ByModelFacts, GeneratedFacts
  <2> HIDE DEF f, m, g
  <2>8. FlattenSeq(Append(m, ByModel(e))) = ByModel(f) \o ByModel(e)
    <3> DEFINE o == ByModel(e)
               B == {0, 1}
    <3>1. o \in Seq(B) /\ m \in Seq(Seq(B)) BY <2>3, <2>7
    <3> HIDE DEF o, B
    <3>2. FlattenSeq(Append(m, o)) = FlattenSeq(m) \o o BY <3>1, FlattenAppend
    <3> QED BY <2>2, <3>2 DEF o
  <2>9. FlattenSeq(Append(g, Generated(e))) = Generated(f) \o Generated(e)
    <3> DEFINE o == Generated(e)
    <3>1. o \in Seq(Tokens) BY <2>7
    <3> HIDE DEF o
    <3>2. FlattenSeq(Append(g, o)) = FlattenSeq(g) \o o BY <2>3, <3>1, FlattenAppend
    <3> QED BY <2>2, <3>2 DEF o
  <2>10. f \o e \in Seq(Tokens) /\ ByModel(f \o e) = ByModel(f) \o ByModel(e)
    BY <2>2, ByModelFacts, ConcatProperties
  <2>11. Generated(f \o e) = Generated(f) \o Generated(e) BY <2>2, GeneratedFacts
  <2>12. Append(s, e) \in TokenLists BY AppendFacts
  <2>13. P(Append(s, e)) BY <2>4, <2>5, <2>6, <2>8, <2>9, <2>10, <2>11
  <2> HIDE DEF P
  <2> QED BY <2>12, <2>13
<1>3. \A s \in Seq(Seq(Tokens)) : s \in A
  <2> HIDE DEF A
  <2> QED BY <1>1, <1>2, SeqInduction
<1> QED BY <1>3

-----------------------------------------------------------------------------
(* Whatever mask is given, what it selects is a list of the items.         *)
LEMMA MaskedType ==
    ASSUME NEW S, NEW items \in Seq(S), NEW mask
    PROVE  Masked(items, mask) \in Seq(S)
<1> DEFINE A == {s \in Seq(S) : Masked(s, mask) \in Seq(S)}
<1>1. <<>> \in A
  <2>1. Masked(<<>>, mask) = <<>> /\ <<>> \in Seq(S) BY MaskedEmpty
  <2> QED BY <2>1
<1>2. ASSUME NEW s \in Seq(S), NEW e \in S, s \in A PROVE Append(s, e) \in A
  <2> DEFINE x == Masked(s, mask)
  <2>1. x \in Seq(S) BY <1>2
  <2>2. Masked(Append(s, e), mask) = Append(x, e) \/ Masked(Append(s, e), mask) = x
    BY MaskedAppend
  <2> HIDE DEF x
  <2>3. Append(x, e) \in Seq(S) /\ Append(s, e) \in Seq(S) BY <2>1, AppendFacts
  <2> QED BY <2>1, <2>2, <2>3
<1>3. \A s \in Seq(S) : s \in A
  <2> HIDE DEF A
  <2> QED BY <1>1, <1>2, SeqInduction
<1> QED BY <1>3

(* The tokens with loss are tokens.                                        *)
LEMMA TrainedType ==
    ASSUME NEW ids \in TokenLists, NEW mask
    PROVE  Trained(ids, mask) \in Seq(Tokens) /\ FlattenSeq(ids) \in Seq(Tokens)
<1>1. FlattenSeq(ids) \in Seq(Tokens) BY FlattenTurns
<1>2. Masked(FlattenSeq(ids), FlattenSeq(mask)) \in Seq(Tokens) BY <1>1, MaskedType
<1> QED BY <1>1, <1>2 DEF Trained

(* The messages with some of them replaced are messages.                   *)
LEMMA ReplaceType ==
    ASSUME NEW text \in TokenLists, NEW ids \in TokenLists
    PROVE  /\ ReplaceAssistantResponse(text, ids) \in TokenLists
           /\ SubSeq(text, 1, Len(text) - Len(ids)) \in TokenLists
<1> USE DEF TokenLists
<1>1. /\ Len(text) \in Nat /\ Len(ids) \in Nat
      /\ \A i \in 1..Len(text) : text[i] \in Seq(Tokens)
      /\ \A i \in 1..Len(ids) : ids[i] \in Seq(Tokens)
  BY LenFacts
<1>2. ASSUME NEW i \in 1..Len(text)
      PROVE  (IF Len(text) - i < Len(ids) THEN ids[Len(ids) - (Len(text) - i)] ELSE text[i])
               \in Seq(Tokens)
  <2>1. Len(text) - i < Len(ids) => Len(ids) - (Len(text) - i) \in 1..Len(ids) BY <1>1
  <2> QED BY <1>1, <2>1
<1>3. ReplaceAssistantResponse(text, ids) \in TokenLists
  BY <1>1, <1>2 DEF ReplaceAssistantResponse
<1>4. \A i \in 1..(Len(text) - Len(ids)) : text[i] \in Seq(Tokens) BY <1>1
<1>5. 1 \in Int /\ Len(text) - Len(ids) \in Int BY <1>1
<1>6. SubSeq(text, 1, Len(text) - Len(ids)) \in Seq(Seq(Tokens))
  BY <1>4, <1>5, SubSeqProperties
<1> QED BY <1>3, <1>6

(* The part of a turn a scheduler keeps, and what it adds.                 *)
LEMMA StepFacts ==
    ASSUME TypeOK, TurnInv, pc = "check", NEW keep \in 1..Len(token_ids), NEW more \in 0..1
    PROVE  LET kept  == SubSeq(token_ids, 1, keep)
               added == [i \in 1..more |-> <<current_turn, 0>>]
           IN  /\ kept \in Seq(Tokens) /\ kept # <<>> /\ added \in Seq(Tokens)
               /\ kept \o added \in Seq(Tokens) /\ kept \o added # <<>>
               /\ \A i \in 1..Len(kept) : kept[i][2] # 0
               /\ \A i \in 1..Len(added) : added[i][2] = 0
               /\ StepMask(kept, added) \in Seq({0, 1})
<1> DEFINE kept  == SubSeq(token_ids, 1, keep)
           added == [i \in 1..more |-> <<current_turn, 0>>]
<1>0. /\ token_ids \in Seq(Tokens) /\ Len(token_ids) \in Nat
      /\ \A i \in 1..Len(token_ids) : token_ids[i] \in Tokens /\ token_ids[i][2] # 0
  BY LenFacts DEF TypeOK, TurnInv
<1>1. \A i \in 1..keep : token_ids[i] \in Tokens /\ token_ids[i][2] # 0 BY <1>0
<1>2. 1 \in Int /\ keep \in Int /\ keep \in Nat /\ 1 <= keep BY <1>0
<1>3. /\ kept \in Seq(Tokens) /\ Len(kept) = keep
      /\ \A i \in 1..keep : kept[i] = token_ids[i]
  <2>1. kept \in Seq(Tokens) BY <1>1, <1>2, SubSeqProperties
  <2>2. Len(kept) = IF 1 <= keep THEN keep - 1 + 1 ELSE 0 BY <1>1, <1>2, SubSeqProperties
  <2>3. \A i \in 1..keep - 1 + 1 : kept[i] = token_ids[1 + i - 1] BY <1>1, <1>2, SubSeqProperties
  <2>4. \A i \in 1..keep : kept[i] = token_ids[i]
    <3> HIDE DEF kept
    <3> QED BY <1>2, <2>3
  <2> QED BY <1>2, <2>1, <2>2, <2>4
<1>4. <<current_turn, 0>> \in Tokens BY MultiTurnAssumption DEF TypeOK, Tokens
<1>5. added \in Seq(Tokens) /\ \A i \in 1..Len(added) : added[i][2] = 0
  BY <1>4
<1> HIDE DEF kept, added
<1>6. kept # <<>> BY <1>2, <1>3, LenFacts
<1>7. kept \o added \in Seq(Tokens) /\ Len(kept \o added) = Len(kept) + Len(added) /\ Len(added) \in Nat
  BY <1>3, <1>5, ConcatProperties, LenFacts
<1>8. kept \o added # <<>> BY <1>2, <1>3, <1>7, LenFacts
<1>9. StepMask(kept, added) \in Seq({0, 1})
  <2>1. \A i \in 1..Len(kept) : kept[i][2] # 0 BY <1>1, <1>3
  <2>2. StepMask(kept, added) = ByModel(kept \o added) BY <1>3, <1>5, <2>1, TurnFacts
  <2> QED BY <1>7, <2>2, ByModelFacts
<1> QED BY <1>1, <1>3, <1>5, <1>6, <1>7, <1>8, <1>9 DEF kept, added

(* A turn the engine generates.                                            *)
LEMMA InferFacts ==
    ASSUME TypeOK, TurnInv, InferTurn
    PROVE  /\ token_ids' \in Seq(Tokens) /\ token_ids' # <<>>
           /\ \A i \in 1..Len(token_ids') : token_ids'[i][2] # 0
           /\ messages' \in TokenLists /\ messages' # <<>>
<1>1. PICK n \in 1..MaxTokens : token_ids' = [i \in 1..n |-> <<current_turn, i>>]
  BY DEF InferTurn
<1>2. n \in Nat /\ n # 0 BY MultiTurnAssumption
<1>3. \A i \in 1..n : <<current_turn, i>> \in Tokens BY <1>1, MultiTurnAssumption DEF TypeOK, Tokens
<1>4. token_ids' \in Seq(Tokens) /\ Len(token_ids') = n BY <1>1, <1>2, <1>3
<1>5. token_ids' # <<>> BY <1>2, <1>4, LenFacts
<1>6. \A i \in 1..Len(token_ids') : token_ids'[i][2] # 0
  <2>1. ASSUME NEW i \in 1..n PROVE token_ids'[i][2] # 0
    <3>1. token_ids'[i] = <<current_turn, i>> BY <1>1
    <3>2. i # 0 BY <1>2
    <3> QED BY <3>1, <3>2
  <2> QED BY <1>4, <2>1
<1>7. messages' = IF open THEN ExtendLast(messages, token_ids') ELSE Append(messages, token_ids')
  BY DEF InferTurn
<1>8. messages' \in TokenLists /\ messages' # <<>>
  <2>1. CASE open
    <3>1. messages \in Seq(Seq(Tokens)) /\ messages # <<>> BY <2>1 DEF TypeOK, TurnInv, TokenLists
    <3>2. ExtendLast(messages, token_ids') \in Seq(Seq(Tokens)) BY <1>4, <3>1, ExtendFacts
    <3>3. ExtendLast(messages, token_ids') # <<>> BY <1>4, <3>1, ExtendFacts
    <3> QED BY <1>7, <2>1, <3>2, <3>3 DEF TokenLists
  <2>2. CASE ~open
    <3>1. messages \in Seq(Seq(Tokens)) BY DEF TypeOK, TokenLists
    <3>2. /\ Append(messages, token_ids') \in Seq(Seq(Tokens))
          /\ Append(messages, token_ids') # <<>>
      BY <1>4, <3>1, AppendFacts
    <3> QED BY <1>7, <2>2, <3>2 DEF TokenLists
  <2> QED BY <2>1, <2>2
<1> QED BY <1>4, <1>5, <1>6, <1>8

(* What is known of the dialogue when its last turn is there.              *)
LEMMA FinalType ==
    ASSUME TypeOK
    PROVE  /\ FinalIds \in TokenLists /\ FinalMask \in Seq(Seq({0, 1}))
           /\ FinalLogprobs \in TokenLists /\ Logprobs \in Seq(Tokens)
<1> USE DEF TokenLists
<1>0. /\ token_ids \in Seq(Tokens) /\ response_token_ids \in Seq(Seq(Tokens))
      /\ rollout_logprobs \in Seq(Seq(Tokens)) /\ response_loss_mask \in Seq(Seq({0, 1}))
  BY DEF TypeOK
<1>1. Logprobs \in Seq(Tokens) BY <1>0 DEF Logprobs
<1>2. Ones(token_ids) \in Seq({0, 1})
  <2>1. Len(token_ids) \in Nat BY <1>0, LenFacts
  <2> QED BY <2>1 DEF Ones
<1>3. FinalIds \in Seq(Seq(Tokens))
  <2>1. ExtendTurn => ExtendLast(response_token_ids, token_ids) \in Seq(Seq(Tokens))
    BY <1>0, ExtendFacts DEF ExtendTurn, Started
  <2>2. <<token_ids>> \in Seq(Seq(Tokens)) BY <1>0
  <2>3. Append(response_token_ids, token_ids) \in Seq(Seq(Tokens)) BY <1>0, AppendFacts
  <2> QED BY <1>0, <2>1, <2>2, <2>3 DEF FinalIds
<1>4. FinalMask \in Seq(Seq({0, 1}))
  <2> DEFINE B == {0, 1}
             o == Ones(token_ids)
  <2>0. response_loss_mask \in Seq(Seq(B)) /\ o \in Seq(B) BY <1>0, <1>2
  <2> HIDE DEF B, o
  <2>1. response_loss_mask # <<>> => ExtendLast(response_loss_mask, o) \in Seq(Seq(B))
    BY <2>0, ExtendFacts
  <2>2. <<o>> \in Seq(Seq(B)) /\ <<>> \in Seq(Seq(B)) BY <2>0
  <2>3. Append(response_loss_mask, o) \in Seq(Seq(B)) BY <2>0, AppendFacts
  <2>4. FinalMask \in Seq(Seq(B)) BY <2>0, <2>1, <2>2, <2>3 DEF FinalMask, o
  <2> QED BY <2>4 DEF B
<1>5. FinalLogprobs \in Seq(Seq(Tokens))
  <2> DEFINE o == Logprobs
  <2>0. o \in Seq(Tokens) BY <1>1
  <2> HIDE DEF o
  <2>1. rollout_logprobs # <<>> => ExtendLast(rollout_logprobs, o) \in Seq(Seq(Tokens))
    BY <1>0, <2>0, ExtendFacts
  <2>2. <<o>> \in Seq(Seq(Tokens)) /\ <<>> \in Seq(Seq(Tokens)) BY <2>0
  <2>3. Append(rollout_logprobs, o) \in Seq(Seq(Tokens)) BY <1>0, <2>0, AppendFacts
  <2> QED BY <1>0, <2>1, <2>2, <2>3 DEF FinalLogprobs, o
<1> QED BY <1>1, <1>3, <1>4, <1>5

(* A list of turns with a turn tracked by the scheduler loop.              *)
LEMMA TrackType ==
    ASSUME NEW S, NEW turns \in Seq(Seq(S)), NEW t \in Seq(S)
    PROVE  (IF is_continuation /\ turns # <<>> THEN ExtendLast(turns, t) ELSE Append(turns, t))
             \in Seq(Seq(S))
<1>1. turns # <<>> => ExtendLast(turns, t) \in Seq(Seq(S)) BY ExtendFacts
<1>2. Append(turns, t) \in Seq(Seq(S)) BY AppendFacts
<1> QED BY <1>1, <1>2

(* Types, for every scheduler.                                             *)
LEMMA TypeInvariance == Spec => [](TypeOK /\ TurnInv)
<1>1. Init => TypeOK /\ TurnInv
  <2> SUFFICES ASSUME Init PROVE TypeOK /\ TurnInv OBVIOUS
  <2>1. /\ <<>> \in Seq(Tokens) /\ <<>> \in Seq(Seq(Tokens)) /\ <<>> \in Seq(Seq({0, 1}))
    OBVIOUS
  <2>2. NoSample \in [ids : TokenLists, mask : Seq(Seq({0, 1})), logprobs : Seq(Tokens),
                      loss : Seq(Tokens)]
    BY <2>1 DEF NoSample, TokenLists
  <2>3. 1 \in 1..TurnBound /\ (MaxTurns # 0 => 1 <= MaxTurns) BY MultiTurnAssumption
  <2> QED BY <2>1, <2>2, <2>3 DEF Init, TypeOK, TurnInv, TokenLists
<1>2. TypeOK /\ TurnInv /\ [Next]_vars => (TypeOK /\ TurnInv)'
  <2> SUFFICES ASSUME TypeOK, TurnInv, [Next]_vars PROVE TypeOK' /\ TurnInv'
    OBVIOUS
  <2> USE DEF turnVars, totalVars
  <2>1. CASE InferTurn
    <3>1. TypeOK' BY <2>1, InferFacts DEF TypeOK, InferTurn
    <3>2. TurnInv' BY <2>1, InferFacts DEF TurnInv, InferTurn
    <3> QED BY <3>1, <3>2
  <2>2. CASE Stop
    <3>1. /\ response_token_ids' \in TokenLists /\ response_loss_mask' \in Seq(Seq({0, 1}))
          /\ rollout_logprobs' \in TokenLists
      <4>1. <<>> \in TokenLists BY DEF TokenLists
      <4> QED BY <2>2, <4>1, FinalType DEF Stop, ValidLogprobs
    <3>2. UNCHANGED <<scheduler, turnVars, sample>> /\ pc' = "merge" /\ pc = "check"
      BY <2>2 DEF Stop
    <3>3. TypeOK' BY <3>1, <3>2 DEF TypeOK
    <3>4. TurnInv' BY <3>2 DEF TurnInv
    <3> QED BY <3>3, <3>4
  <2>3. CASE Step
    <3>1. PICK next \in scheduler.next, keep \in 1..Len(token_ids), more \in 0..1 :
            LET kept  == SubSeq(token_ids, 1, keep)
                added == [i \in 1..more |-> <<current_turn, 0>>]
                turn  == kept \o added
                cont(turns) == is_continuation /\ turns # <<>>
                track(turns, items) == IF cont(turns) THEN ExtendLast(turns, items)
                                       ELSE Append(turns, items)
                text  == SubSeq(messages[Len(messages)], 1,
                                Len(messages[Len(messages)]) - Len(token_ids)) \o turn
            IN  /\ messages' = [messages EXCEPT ![Len(messages)] = text]
                /\ open' = (next = "continue")
                /\ response_token_ids' = IF scheduler.returns = "nothing"
                                         THEN response_token_ids
                                         ELSE track(response_token_ids, turn)
                /\ response_loss_mask' = IF scheduler.returns # "ids_and_mask"
                                         THEN response_loss_mask
                                         ELSE track(response_loss_mask, StepMask(kept, added))
                /\ rollout_logprobs' = IF Logprobs = <<>> THEN rollout_logprobs
                                       ELSE track(rollout_logprobs, kept)
      BY <2>3 DEF Step
    <3> DEFINE kept  == SubSeq(token_ids, 1, keep)
               added == [i \in 1..more |-> <<current_turn, 0>>]
               turn  == kept \o added
               mask  == StepMask(kept, added)
               last  == messages[Len(messages)]
               head  == SubSeq(last, 1, Len(last) - Len(token_ids))
    <3>2. pc = "check" /\ pc' = "infer" /\ UNCHANGED <<scheduler, token_ids, is_continuation, sample>>
          /\ current_turn' = current_turn + 1 /\ MayContinue
      BY <2>3 DEF Step
    <3>3. kept \in Seq(Tokens) /\ turn \in Seq(Tokens) /\ mask \in Seq({0, 1})
      BY <3>2, StepFacts
    <3>4. /\ token_ids \in Seq(Tokens) /\ response_token_ids \in Seq(Seq(Tokens))
          /\ rollout_logprobs \in Seq(Seq(Tokens)) /\ response_loss_mask \in Seq(Seq({0, 1}))
          /\ messages \in Seq(Seq(Tokens)) /\ messages # <<>>
      BY <3>2 DEF TypeOK, TurnInv, TokenLists
    <3>5. last \in Seq(Tokens) /\ Len(messages) \in 1..Len(messages) /\ Len(token_ids) \in Nat
      <4>1. Len(messages) \in 1..Len(messages) BY <3>4, LenFacts
      <4> QED BY <3>4, <4>1, LenFacts
    <3> HIDE DEF last
    <3>6. head \in Seq(Tokens)
      <4>1. Len(last) \in Nat /\ \A i \in 1..Len(last) : last[i] \in Tokens BY <3>5, LenFacts
      <4>2. \A i \in 1..(Len(last) - Len(token_ids)) : last[i] \in Tokens BY <3>5, <4>1
      <4>3. Len(last) - Len(token_ids) \in Int /\ 1 \in Int BY <3>5, <4>1
      <4> QED BY <4>2, <4>3, SubSeqProperties
    <3> DEFINE text == head \o turn
    <3> HIDE DEF head, kept, added, turn, mask
    <3>7. text \in Seq(Tokens) BY <3>3, <3>6, ConcatProperties
    <3> HIDE DEF text
    <3>8. messages' = [messages EXCEPT ![Len(messages)] = text]
      BY <3>1 DEF text, head, last, turn, kept, added
    <3>9. messages' \in Seq(Seq(Tokens)) /\ Len(messages') = Len(messages)
      BY <3>4, <3>5, <3>7, <3>8, ExceptSeq
    <3>10. messages' # <<>> BY <3>4, <3>9, LenFacts
    <3>11. response_token_ids' \in Seq(Seq(Tokens))
      BY <3>1, <3>3, <3>4, TrackType DEF turn, kept, added
    <3>12. response_loss_mask' \in Seq(Seq({0, 1}))
      BY <3>1, <3>3, <3>4, TrackType DEF mask, kept, added
    <3>13. rollout_logprobs' \in Seq(Seq(Tokens))
      BY <3>1, <3>3, <3>4, TrackType DEF kept
    <3>14. current_turn' \in 1..TurnBound /\ (MaxTurns # 0 => current_turn' <= MaxTurns)
      BY <3>2, MultiTurnAssumption DEF MayContinue, TypeOK
    <3>15. open' \in BOOLEAN BY <3>1
    <3>16. TypeOK' BY <3>2, <3>9, <3>11, <3>12, <3>13, <3>14, <3>15 DEF TypeOK, TokenLists
    <3>17. TurnInv' BY <3>2, <3>10 DEF TurnInv
    <3> QED BY <3>16, <3>17
  <2>4. CASE Merge
    <3>1. FlattenSeq(rollout_logprobs) \in Seq(Tokens) BY TrainedType DEF TypeOK
    <3>2. Logprobs \in Seq(Tokens) /\ <<>> \in Seq(Tokens) BY FinalType
    <3>3. sample' \in [ids : TokenLists, mask : Seq(Seq({0, 1})), logprobs : Seq(Tokens),
                       loss : Seq(Tokens)]
      BY <2>4, <3>1, <3>2 DEF Merge, TypeOK
    <3>4. TypeOK' BY <2>4, <3>3 DEF Merge, TypeOK
    <3>5. TurnInv' BY <2>4 DEF Merge, TurnInv
    <3> QED BY <3>4, <3>5
  <2>5. CASE Encode
    <3> DEFINE ids  == ReplaceAssistantResponse(messages, sample.ids)
               kept == SubSeq(messages, 1, Len(messages) - Len(sample.ids))
               loss == (IF sample.mask = <<>> THEN FlattenSeq(ids)
                        ELSE FlattenSeq(kept) \o Trained(sample.ids, sample.mask))
    <3>1. messages \in TokenLists /\ sample.ids \in TokenLists BY DEF TypeOK
    <3>2. ids \in TokenLists /\ kept \in TokenLists BY <3>1, ReplaceType
    <3>3. FlattenSeq(ids) \in Seq(Tokens) /\ FlattenSeq(kept) \in Seq(Tokens)
      <4> HIDE DEF ids, kept
      <4> QED BY <3>2, TrainedType
    <3>4. Trained(sample.ids, sample.mask) \in Seq(Tokens) BY <3>1, TrainedType
    <3>5. loss \in Seq(Tokens)
      <4> HIDE DEF ids, kept
      <4> QED BY <3>3, <3>4, ConcatProperties
    <3>6. sample' = [sample EXCEPT !.ids = ids, !.loss = loss,
                       !.logprobs = IF Len(@) = Len(loss) THEN @ ELSE <<>>]
      BY <2>5 DEF Encode
    <3> HIDE DEF ids, kept, loss
    <3>7. <<>> \in Seq(Tokens) OBVIOUS
    <3>8. sample' \in [ids : TokenLists, mask : Seq(Seq({0, 1})), logprobs : Seq(Tokens),
                       loss : Seq(Tokens)]
      BY <3>2, <3>5, <3>6, <3>7 DEF TypeOK
    <3>9. pc = "encode" /\ pc' = "done" /\ UNCHANGED <<scheduler, turnVars, totalVars>>
      BY <2>5 DEF Encode
    <3>10. TypeOK' BY <3>8, <3>9 DEF TypeOK
    <3>11. TurnInv' BY <3>9 DEF TurnInv
    <3> QED BY <3>10, <3>11
  <2>6. CASE UNCHANGED vars BY <2>6 DEF vars, TypeOK, TurnInv
  <2> QED BY <2>1, <2>2, <2>3, <2>4, <2>5, <2>6 DEF Next
<1> QED BY <1>1, <1>2, PTL DEF Spec

-----------------------------------------------------------------------------
(* Rewriting the end of a list of turns: what the turn t has become.       *)
Rewritten(turns, t, u) ==
    LET last == turns[Len(turns)]
    IN  [turns EXCEPT ![Len(turns)] = SubSeq(last, 1, Len(last) - Len(t)) \o u]

(* The scheduler's message continues the last one ...                      *)
LEMMA RewriteExtended ==
    ASSUME NEW S, NEW turns \in Seq(Seq(S)), NEW t \in Seq(S), NEW u \in Seq(S), turns # <<>>
    PROVE  Rewritten(ExtendLast(turns, t), t, u) = ExtendLast(turns, u)
<1> DEFINE all  == ExtendLast(turns, t)
           last == all[Len(all)]
           head == SubSeq(last, 1, Len(last) - Len(t))
           new  == [all EXCEPT ![Len(all)] = head \o u]
<1>0. Len(turns) \in Nat /\ Len(t) \in Nat BY LenFacts
<1> DEFINE x == turns[Len(turns)]
<1>1. /\ all \in Seq(Seq(S)) /\ Len(all) = Len(turns) /\ Len(turns) \in Nat \ {0}
      /\ \A i \in 1..Len(turns) : all[i] = IF i = Len(turns) THEN turns[i] \o t ELSE turns[i]
  <2>1. all \in Seq(Seq(S)) BY ExtendFacts
  <2>2. Len(all) = Len(turns) /\ Len(turns) \in Nat \ {0} BY ExtendFacts
  <2>3. ASSUME NEW i \in 1..Len(turns)
        PROVE  all[i] = IF i = Len(turns) THEN turns[i] \o t ELSE turns[i]
    BY ExtendFacts
  <2> HIDE DEF all
  <2> QED BY <2>1, <2>2, <2>3
<1>2. Len(turns) \in 1..Len(turns) BY <1>1
<1>3. x \in Seq(S) BY <1>2, LenFacts
<1>4. last = x \o t BY <1>1, <1>2
<1>5. head = x
  <2>1. /\ x \o t \in Seq(S) /\ Len(x \o t) = Len(x) + Len(t) /\ Len(x) \in Nat
        /\ \A i \in 1..Len(x) + Len(t) : (x \o t)[i] = IF i <= Len(x) THEN x[i] ELSE t[i - Len(x)]
    BY <1>3, ConcatProperties, LenFacts
  <2> DEFINE y == x \o t
  <2>2. Len(y) - Len(t) = Len(x) BY <1>0, <2>1
  <2>3. \A i \in 1..Len(x) : y[i] = x[i] /\ y[i] \in S BY <1>0, <1>3, <2>1, LenFacts
  <2> HIDE DEF y, x
  <2>4. SubSeq(y, 1, Len(x)) \in Seq(S) /\ Len(SubSeq(y, 1, Len(x))) = Len(x)
    <3>1. 1 \in Int /\ Len(x) \in Int BY <2>1
    <3>2. /\ SubSeq(y, 1, Len(x)) \in Seq(S)
          /\ Len(SubSeq(y, 1, Len(x))) = IF 1 <= Len(x) THEN Len(x) - 1 + 1 ELSE 0
      BY <2>3, <3>1, SubSeqProperties
    <3> QED BY <2>1, <3>2
  <2>5. \A i \in 1..Len(x) : SubSeq(y, 1, Len(x))[i] = x[i]
    <3>1. 1 \in Int /\ Len(x) \in Int BY <2>1
    <3>2. \A i \in 1..Len(x) - 1 + 1 : SubSeq(y, 1, Len(x))[i] = y[1 + i - 1]
      BY <2>3, <3>1, SubSeqProperties
    <3>3. ASSUME NEW i \in 1..Len(x) PROVE SubSeq(y, 1, Len(x))[i] = x[i]
      <4>1. i \in 1..Len(x) - 1 + 1 /\ 1 + i - 1 = i BY <2>1
      <4> QED BY <2>3, <3>2, <4>1
    <3> QED BY <3>3
  <2>6. SubSeq(y, 1, Len(x)) = x BY <1>3, <2>4, <2>5, SeqEqual
  <2> QED BY <1>4, <2>2, <2>6 DEF y
<1> HIDE DEF x, head
<1>6. x \o u \in Seq(S) BY <1>3, ConcatProperties
<1>7. new = [all EXCEPT ![Len(turns)] = x \o u] BY <1>1, <1>5
<1> DEFINE w == x \o u
<1> HIDE DEF w
<1>8. /\ [all EXCEPT ![Len(turns)] = w] \in Seq(Seq(S))
      /\ Len([all EXCEPT ![Len(turns)] = w]) = Len(turns)
      /\ \A i \in 1..Len(turns) : [all EXCEPT ![Len(turns)] = w][i]
                                    = IF i = Len(turns) THEN w ELSE all[i]
  BY <1>1, <1>2, <1>6, ExceptSeq DEF w
<1>9. /\ ExtendLast(turns, u) \in Seq(Seq(S)) /\ Len(ExtendLast(turns, u)) = Len(turns)
      /\ \A i \in 1..Len(turns) : ExtendLast(turns, u)[i]
                                    = IF i = Len(turns) THEN turns[i] \o u ELSE turns[i]
  <2> DEFINE v == ExtendLast(turns, u)
  <2>1. v \in Seq(Seq(S)) BY ExtendFacts
  <2>2. Len(v) = Len(turns) BY ExtendFacts
  <2>3. ASSUME NEW i \in 1..Len(turns)
        PROVE  v[i] = IF i = Len(turns) THEN turns[i] \o u ELSE turns[i]
    BY ExtendFacts
  <2> HIDE DEF v
  <2>4. v \in Seq(Seq(S)) /\ Len(v) = Len(turns)
        /\ \A i \in 1..Len(turns) : v[i] = IF i = Len(turns) THEN turns[i] \o u ELSE turns[i]
    BY <2>1, <2>2, <2>3
  <2> QED BY <2>4 DEF v
<1>10. \A i \in 1..Len(turns) : [all EXCEPT ![Len(turns)] = w][i] = ExtendLast(turns, u)[i]
  BY <1>1, <1>8, <1>9 DEF w, x
<1>11. [all EXCEPT ![Len(turns)] = w] = ExtendLast(turns, u)
  <2> DEFINE a == [all EXCEPT ![Len(turns)] = w]
             b == ExtendLast(turns, u)
  <2>1. a \in Seq(Seq(S)) /\ b \in Seq(Seq(S)) /\ Len(a) = Len(b) BY <1>8, <1>9
  <2>2. \A i \in 1..Len(a) : a[i] = b[i] BY <1>8, <1>10
  <2> HIDE DEF a, b
  <2>3. a = b BY <2>1, <2>2, SeqEqual
  <2> QED BY <2>3 DEF a, b
<1>12. new = ExtendLast(turns, u)
  <2> HIDE DEF all
  <2> QED BY <1>7, <1>11 DEF w
<1> QED BY <1>12 DEF head, Rewritten

(* ... or is one of its own.                                               *)
LEMMA RewriteAppended ==
    ASSUME NEW S, NEW turns \in Seq(Seq(S)), NEW t \in Seq(S), NEW u \in Seq(S)
    PROVE  Rewritten(Append(turns, t), t, u) = Append(turns, u)
<1> DEFINE all  == Append(turns, t)
           last == all[Len(all)]
           head == SubSeq(last, 1, Len(last) - Len(t))
           new  == [all EXCEPT ![Len(all)] = head \o u]
<1>0. Len(turns) \in Nat /\ Len(t) \in Nat BY LenFacts
<1>1. /\ all \in Seq(Seq(S)) /\ Len(all) = Len(turns) + 1 /\ all[Len(turns) + 1] = t
      /\ \A i \in 1..Len(turns) : all[i] = turns[i]
  BY AppendFacts
<1>2. last = t BY <1>1
<1>3. head \o u = u
  <2>1. Len(t) - Len(t) = 0 BY <1>0
  <2>2. SubSeq(t, 1, 0) = <<>> BY SubSeqEmpty
  <2>3. head = <<>> BY <1>2, <2>1, <2>2
  <2> QED BY <2>3, ConcatEmptySeq
<1>4. new = [all EXCEPT ![Len(turns) + 1] = u] BY <1>1, <1>3
<1> HIDE DEF new
<1>5. Len(turns) + 1 \in 1..Len(all) BY <1>0, <1>1
<1>6. /\ new \in Seq(Seq(S)) /\ Len(new) = Len(all)
      /\ \A i \in 1..Len(all) : new[i] = IF i = Len(turns) + 1 THEN u ELSE all[i]
  <2> HIDE DEF all
  <2> QED BY <1>1, <1>4, <1>5, ExceptSeq
<1> DEFINE b == Append(turns, u)
<1>7. /\ b \in Seq(Seq(S)) /\ Len(b) = Len(turns) + 1 /\ b[Len(turns) + 1] = u
      /\ \A i \in 1..Len(turns) : b[i] = turns[i]
  BY AppendFacts
<1> HIDE DEF b
<1>8. ASSUME NEW i \in 1..Len(new) PROVE new[i] = b[i]
  <2>1. i = Len(turns) + 1 \/ (i \in 1..Len(turns) /\ i # Len(turns) + 1) BY <1>0, <1>1, <1>6
  <2> QED BY <1>1, <1>6, <1>7, <2>1
<1>9. new = b BY <1>1, <1>6, <1>7, <1>8, SeqEqual
<1> QED BY <1>9 DEF b, new, Rewritten

(* With the mask of generated tokens the tokens with loss are these; their *)
(* log-probabilities are as many as the mask has ones and stay.            *)
LEMMA ValidWithMask ==
    ASSUME NEW ids \in TokenLists, ids # <<>>
    PROVE  /\ Masks(ids) # <<>> /\ GeneratedOf(ids) # <<>>
           /\ Trained(ids, Masks(ids)) = Generated(FlattenSeq(ids))
           /\ Trained(ids, Masks(ids)) = FlattenSeq(GeneratedOf(ids))
           /\ ValidLogprobs(ids, Masks(ids), GeneratedOf(ids)) = GeneratedOf(ids)
<1> DEFINE f == FlattenSeq(ids)
           m == Masks(ids)
           g == GeneratedOf(ids)
<1>1. f \in Seq(Tokens) /\ FlattenSeq(m) = ByModel(f) /\ FlattenSeq(g) = Generated(f)
  BY FlattenTurns
<1>2. m \in Seq(Seq({0, 1})) /\ Len(m) = Len(ids) /\ g \in TokenLists /\ Len(g) = Len(ids)
  <2>1. <<>> \in Seq(Tokens) OBVIOUS
  <2>2. m \in Seq(Seq({0, 1})) /\ Len(m) = Len(ids) BY <2>1, MasksGrow
  <2>3. g \in TokenLists /\ Len(g) = Len(ids) BY <2>1, GeneratedGrow
  <2> QED BY <2>2, <2>3
<1>3. Len(ids) # 0 BY LenFacts DEF TokenLists
<1>4. m # <<>> /\ g # <<>> BY <1>2, <1>3
<1> HIDE DEF f, m, g
<1>5. Trained(ids, m) = Generated(f) BY <1>1, <1>4 DEF Trained, Generated, f
<1>6. Len(Masked(ByModel(f), ByModel(f))) = Len(Generated(f))
  <2> DEFINE o == ByModel(f)
  <2>1. o \in Seq({0, 1}) /\ Len(o) = Len(f) BY <1>1, ByModelFacts
  <2> HIDE DEF o
  <2>2. Len(Masked(o, o)) = Len(Masked(f, o)) BY <1>1, <2>1, MaskedFacts
  <2> QED BY <2>2 DEF o, Generated
<1>7. ValidLogprobs(ids, m, g) = g BY <1>1, <1>4, <1>6 DEF ValidLogprobs
<1> QED BY <1>1, <1>4, <1>5, <1>7 DEF f, m, g

(* Without a mask: what is left of the log-probabilities is that of all    *)
(* tokens, and the last turn alone is shorter than the dialogue.           *)
LEMMA ValidWithoutMask ==
    ASSUME NEW turns \in TokenLists, turns # <<>>, \A i \in 1..Len(turns) : turns[i] # <<>>,
           NEW t \in Seq(Tokens)
    PROVE  LET ids  == ExtendLast(turns, t)
               left == ValidLogprobs(ids, <<>>, GeneratedOf(ids))
           IN  /\ left # <<>> => FlattenSeq(left) = FlattenSeq(ids)
               /\ Len(t) # Len(FlattenSeq(ids))
<1> USE DEF TokenLists
<1> DEFINE ids == ExtendLast(turns, t)
           g   == GeneratedOf(ids)
           f   == FlattenSeq(ids)
<1>1. ids \in TokenLists BY ExtendFacts
<1> HIDE DEF ids
<1>2. f \in Seq(Tokens) /\ FlattenSeq(g) = Generated(f) BY <1>1, FlattenTurns
<1>3. Len(Generated(f)) = Len(f) => Generated(f) = f
  <2> HIDE DEF f
  <2> QED BY <1>2, GeneratedFacts
<1>4. LET left == ValidLogprobs(ids, <<>>, g) IN left # <<>> => FlattenSeq(left) = f
  <2> HIDE DEF g
  <2> QED BY <1>2, <1>3 DEF ValidLogprobs
<1>5. PICK s \in TokenLists, x \in Seq(Tokens) : turns = Append(s, x)
  BY SequenceEmptyOrAppend
<1>6. /\ Len(s) \in Nat /\ Len(turns) = Len(s) + 1 /\ turns[Len(s) + 1] = x
      /\ \A i \in 1..Len(s) : turns[i] = s[i]
  BY <1>5, AppendFacts
<1>7. x # <<>> /\ Len(x) \in Nat /\ Len(x) # 0 /\ Len(t) \in Nat
  <2>1. Len(s) + 1 \in 1..Len(turns) BY <1>6
  <2>2. x # <<>> BY <1>6, <2>1
  <2> QED BY <2>2, LenFacts
<1>8. ids = Append(s, x \o t)
  <2> DEFINE y == x \o t
             b == Append(s, y)
  <2>1. y \in Seq(Tokens) BY ConcatProperties
  <2>2. ids = [turns EXCEPT ![Len(turns)] = y] BY <1>6 DEF ids, ExtendLast
  <2> HIDE DEF y
  <2>3. Len(turns) \in 1..Len(turns) BY <1>6
  <2>4. /\ ids \in Seq(Seq(Tokens)) /\ Len(ids) = Len(turns)
        /\ \A i \in 1..Len(turns) : ids[i] = IF i = Len(turns) THEN y ELSE turns[i]
    BY <2>1, <2>2, <2>3, ExceptSeq
  <2>5. /\ b \in Seq(Seq(Tokens)) /\ Len(b) = Len(s) + 1 /\ b[Len(s) + 1] = y
        /\ \A i \in 1..Len(s) : b[i] = s[i]
    BY <2>1, AppendFacts
  <2> HIDE DEF b
  <2>6. ASSUME NEW i \in 1..Len(ids) PROVE ids[i] = b[i]
    <3>1. i = Len(s) + 1 \/ (i \in 1..Len(s) /\ i # Len(turns)) BY <1>6, <2>4
    <3> QED BY <1>6, <2>4, <2>5, <3>1
  <2>7. ids = b BY <1>6, <2>4, <2>5, <2>6, SeqEqual
  <2> QED BY <2>7 DEF b, y
<1>9. FlattenSeq(s) \in Seq(Tokens) /\ f = FlattenSeq(s) \o (x \o t)
  <2> DEFINE y == x \o t
  <2>1. y \in Seq(Tokens) BY ConcatProperties
  <2> HIDE DEF y
  <2>2. FlattenSeq(Append(s, y)) = FlattenSeq(s) \o y /\ FlattenSeq(s) \in Seq(Tokens)
    BY <2>1, FlattenAppend
  <2> QED BY <1>8, <2>2 DEF y
<1>10. Len(f) = Len(FlattenSeq(s)) + (Len(x) + Len(t)) /\ Len(FlattenSeq(s)) \in Nat
  <2>1. x \o t \in Seq(Tokens) /\ Len(x \o t) = Len(x) + Len(t) BY ConcatProperties
  <2> QED BY <1>9, <2>1, ConcatProperties, LenFacts
<1>11. Len(t) # Len(f)
  <2> HIDE DEF f
  <2> QED BY <1>7, <1>10
<1> QED BY <1>4, <1>11 DEF ids

(* Messages replaced by themselves, all of them or the last one.           *)
LEMMA ReplaceFacts ==
    ASSUME NEW text \in TokenLists, text # <<>>
    PROVE  /\ ReplaceAssistantResponse(text, text) = text
           /\ ReplaceAssistantResponse(text, <<text[Len(text)]>>) = text
           /\ SubSeq(text, 1, Len(text) - Len(text)) = <<>>
<1> USE DEF TokenLists
<1>1. /\ Len(text) \in Nat /\ Len(text) # 0 /\ text = [i \in 1..Len(text) |-> text[i]]
  BY LenFacts, LenProperties
<1>2. ReplaceAssistantResponse(text, text) = text
  <2>1. ASSUME NEW i \in 1..Len(text)
        PROVE  (IF Len(text) - i < Len(text) THEN text[Len(text) - (Len(text) - i)] ELSE text[i])
                 = text[i]
    <3>1. Len(text) - (Len(text) - i) = i BY <1>1
    <3> QED BY <3>1
  <2> QED BY <1>1, <2>1 DEF ReplaceAssistantResponse
<1>3. ReplaceAssistantResponse(text, <<text[Len(text)]>>) = text
  <2> DEFINE ids == <<text[Len(text)]>>
  <2>1. Len(ids) = 1 /\ ids[1] = text[Len(text)] OBVIOUS
  <2> HIDE DEF ids
  <2>2. ASSUME NEW i \in 1..Len(text)
        PROVE  (IF Len(text) - i < Len(ids) THEN ids[Len(ids) - (Len(text) - i)] ELSE text[i])
                 = text[i]
    <3>1. Len(text) - i < Len(ids) => i = Len(text) /\ Len(ids) - (Len(text) - i) = 1
      BY <1>1, <2>1
    <3> QED BY <2>1, <3>1
  <2>3. ReplaceAssistantResponse(text, ids) = text BY <1>1, <2>2 DEF ReplaceAssistantResponse
  <2> QED BY <2>3 DEF ids
<1>4. SubSeq(text, 1, Len(text) - Len(text)) = <<>>
  <2>1. Len(text) - Len(text) = 0 BY <1>1
  <2>2. SubSeq(text, 1, 0) = <<>> BY SubSeqEmpty
  <2> QED BY <2>1, <2>2
<1> QED BY <1>2, <1>3, <1>4

-----------------------------------------------------------------------------
(* What the supported schedulers have in common.                           *)
LEMMA SupportedFacts ==
    ASSUME Schedulers \subseteq Supported, TypeOK
    PROVE  /\ scheduler.returns \in {"nothing", "ids", "ids_and_mask"}
           /\ scheduler.mode \in {"server", "colocate"} /\ scheduler.logprobs \in BOOLEAN
           /\ scheduler.returns = "nothing" => scheduler.next = {"user"}
           /\ scheduler.returns = "ids" => scheduler.next = {"continue"}
           /\ (scheduler.returns = "ids_and_mask" /\ scheduler.mode = "server") =>
                 scheduler.next = {"continue"}
BY DEF Supported, WithTokens, WithoutMask, TextOnly, Scheduler, TypeOK

(* The dialogue with its last turn: the tokens are those of the messages,  *)
(* masks and log-probabilities go with them.                               *)
LEMMA FinalFacts ==
    ASSUME Schedulers \subseteq Supported, TypeOK, TurnInv, DialogueInv, pc = "check"
    PROVE  /\ FinalIds = IF scheduler.returns = "nothing" THEN <<token_ids>> ELSE messages
           /\ FinalIds \in TokenLists /\ FinalIds # <<>>
           /\ \/ FinalMask = Masks(FinalIds)
              \/ /\ FinalMask = <<>> /\ scheduler.returns = "ids"
                 /\ ExtendTurn /\ FinalIds = ExtendLast(response_token_ids, token_ids)
           /\ scheduler.logprobs => FinalLogprobs = GeneratedOf(FinalIds)
<1> DEFINE R == response_token_ids
           M == response_loss_mask
           L == rollout_logprobs
           t == token_ids
<1>0. /\ R \in TokenLists /\ R \in Seq(Seq(Tokens)) /\ t \in Seq(Tokens) /\ t # <<>>
      /\ M \in Seq(Seq({0, 1})) /\ L \in Seq(Seq(Tokens))
  BY DEF TypeOK, TurnInv, TokenLists
<1>1. /\ scheduler.returns \in {"nothing", "ids", "ids_and_mask"}
      /\ scheduler.mode \in {"server", "colocate"} /\ scheduler.logprobs \in BOOLEAN
      /\ scheduler.returns = "ids" => scheduler.next = {"continue"}
      /\ (scheduler.returns = "ids_and_mask" /\ scheduler.mode = "server") =>
            scheduler.next = {"continue"}
  BY SupportedFacts
<1>2. Ones(t) = ByModel(t) /\ Generated(t) = t
  <2>1. \A i \in 1..Len(t) : t[i][2] # 0 BY DEF TurnInv
  <2>2. <<>> \in Seq(Tokens) /\ \A i \in 1..Len(<<>>) : <<>>[i][2] = 0 OBVIOUS
  <2> QED BY <1>0, <2>1, <2>2, TurnFacts
<1>3. scheduler.logprobs => Logprobs = t /\ Logprobs # <<>> BY <1>0 DEF Logprobs
<1>4. R = <<>> => FinalIds = <<t>> /\ FinalMask = <<ByModel(t)>>
                  /\ (scheduler.logprobs => FinalLogprobs = <<t>>)
  BY <1>2, <1>3 DEF FinalIds, FinalMask, FinalLogprobs, Started, ExtendTurn, AppendTurn
<1>5. ASSUME R = <<>> PROVE Masks(<<t>>) = <<ByModel(t)>> /\ GeneratedOf(<<t>>) = <<t>>
  <2>1. Len(<<t>>) = 1 /\ <<t>>[1] = t OBVIOUS
  <2> QED BY <1>2, <2>1 DEF Masks, GeneratedOf
<1>6. CASE R = <<>>
  <2>1. scheduler.returns # "nothing" => messages = Append(<<>>, t)
    BY <1>6 DEF DialogueInv, ReturningInv, WithTurn
  <2>2. Append(<<>>, t) = <<t>> OBVIOUS
  <2>3. <<t>> \in TokenLists /\ <<t>> # <<>> BY <1>0 DEF TokenLists
  <2> QED BY <1>4, <1>5, <1>6, <2>1, <2>2, <2>3
<1>7. CASE R # <<>>
  <2>1. scheduler.returns # "nothing" BY <1>7 DEF DialogueInv, TextInv
  <2>2. messages = WithTurn(R) BY <2>1 DEF DialogueInv, ReturningInv
  <2>3. M = IF scheduler.returns = "ids_and_mask" THEN Masks(R) ELSE <<>>
    BY DEF DialogueInv, CollectingInv
  <2>4. scheduler.logprobs => L = GeneratedOf(R) BY <2>1 DEF DialogueInv, CollectingInv
  <2>5. scheduler.returns = "ids_and_mask" => M # <<>> BY <1>0, <1>7, <2>3, ValidWithMask
  <2>6. scheduler.logprobs => L # <<>> BY <1>0, <1>7, <2>4, ValidWithMask
  <2>7. CASE is_continuation
    <3>1. ExtendTurn /\ Started /\ ~AppendTurn
      BY <1>7, <2>7 DEF AppendTurn, ExtendTurn, Started
    <3>2. FinalIds = ExtendLast(R, t) /\ FinalIds = messages
      BY <2>2, <2>7, <3>1 DEF FinalIds, WithTurn
    <3>3. FinalMask = IF M = <<>> THEN <<>> ELSE ExtendLast(M, ByModel(t))
      BY <1>2, <3>1 DEF FinalMask
    <3>4. scheduler.logprobs => FinalLogprobs = ExtendLast(L, t)
      BY <1>3, <2>6, <3>1 DEF FinalLogprobs
    <3>5. ExtendLast(R, t) \in TokenLists /\ ExtendLast(R, t) # <<>>
      BY <1>0, <1>7, ExtendFacts DEF TokenLists
    <3>6. Masks(ExtendLast(R, t)) = ExtendLast(Masks(R), ByModel(t)) BY <1>0, <1>7, MasksGrow
    <3>7. GeneratedOf(ExtendLast(R, t)) = ExtendLast(GeneratedOf(R), t)
      BY <1>0, <1>2, <1>7, GeneratedGrow
    <3> HIDE DEF R, M, L, t
    <3> QED BY <1>1, <2>1, <2>3, <2>4, <2>5, <3>1, <3>2, <3>3, <3>4, <3>5, <3>6, <3>7
          DEF R, t
  <2>8. CASE ~is_continuation
    <3>1. scheduler.next # {"continue"} BY <1>7, <2>1, <2>8 DEF DialogueInv, ReturningInv
    <3>2. scheduler.returns = "ids_and_mask" /\ scheduler.mode = "colocate" BY <1>1, <2>1, <3>1
    <3>3. AppendTurn /\ Started /\ ~ExtendTurn
      BY <1>7, <2>8, <3>2 DEF AppendTurn, Started, ExtendTurn
    <3>4. FinalIds = Append(R, t) /\ FinalIds = messages
      BY <2>2, <2>8, <3>3 DEF FinalIds, WithTurn
    <3>5. FinalMask = Append(M, ByModel(t)) BY <1>2, <3>3 DEF FinalMask
    <3>6. scheduler.logprobs => FinalLogprobs = Append(L, t) BY <1>3, <3>3 DEF FinalLogprobs
    <3>7. Append(R, t) \in TokenLists /\ Append(R, t) # <<>>
      <4> DEFINE B == Seq(Tokens)
      <4>0. R \in Seq(B) /\ t \in B BY <1>0
      <4> HIDE DEF R, t, B
      <4>1. Append(R, t) \in Seq(Seq(Tokens)) BY <4>0, AppendFacts DEF B
      <4>2. Append(R, t) # <<>> BY <4>0, AppendFacts
      <4> QED BY <4>1, <4>2 DEF TokenLists
    <3>8. Masks(Append(R, t)) = Append(Masks(R), ByModel(t)) BY <1>0, MasksGrow
    <3>9. GeneratedOf(Append(R, t)) = Append(GeneratedOf(R), t) BY <1>0, <1>2, GeneratedGrow
    <3> HIDE DEF R, M, L, t
    <3> QED BY <2>1, <2>3, <2>4, <3>2, <3>4, <3>5, <3>6, <3>7, <3>8, <3>9
  <2> QED BY <2>7, <2>8
<1> QED BY <1>6, <1>7

(* A turn tracked: masks and log-probabilities follow the tokens.          *)
LEMMA TrackFacts ==
    ASSUME NEW turns \in TokenLists, NEW t \in Seq(Tokens), t # <<>>,
           \A i \in 1..Len(turns) : turns[i] # <<>>
    PROVE  LET cont == is_continuation /\ turns # <<>>
               new  == IF cont THEN ExtendLast(turns, t) ELSE Append(turns, t)
           IN  /\ \A i \in 1..Len(new) : new[i] # <<>>
               /\ Masks(new) = IF is_continuation /\ Masks(turns) # <<>>
                               THEN ExtendLast(Masks(turns), ByModel(t))
                               ELSE Append(Masks(turns), ByModel(t))
               /\ GeneratedOf(new) = IF is_continuation /\ GeneratedOf(turns) # <<>>
                                     THEN ExtendLast(GeneratedOf(turns), Generated(t))
                                     ELSE Append(GeneratedOf(turns), Generated(t))
<1> USE DEF TokenLists
<1>1. turns # <<>> => Masks(turns) # <<>> /\ GeneratedOf(turns) # <<>> BY ValidWithMask
<1>2. turns = <<>> => Masks(turns) = <<>> /\ GeneratedOf(turns) = <<>>
  BY DEF Masks, GeneratedOf
<1>3. CASE is_continuation /\ turns # <<>>
  <2> DEFINE new == ExtendLast(turns, t)
  <2>1. Masks(new) = ExtendLast(Masks(turns), ByModel(t)) BY <1>3, MasksGrow
  <2>2. GeneratedOf(new) = ExtendLast(GeneratedOf(turns), Generated(t)) BY <1>3, GeneratedGrow
  <2>3. ASSUME NEW i \in 1..Len(new) PROVE new[i] # <<>>
    <3>1. Len(new) = Len(turns) BY <1>3, ExtendFacts
    <3>2. new[i] = IF i = Len(turns) THEN turns[i] \o t ELSE turns[i] BY <1>3, <3>1, ExtendFacts
    <3>3. turns[i] \in Seq(Tokens) BY <3>1, LenFacts
    <3>4. turns[i] \o t \in Seq(Tokens) /\ Len(turns[i] \o t) = Len(turns[i]) + Len(t)
      BY <3>3, ConcatProperties
    <3>5. Len(turns[i]) \in Nat /\ Len(t) \in Nat /\ Len(t) # 0 BY <3>3, LenFacts
    <3>6. turns[i] \o t # <<>>
      <4> DEFINE y == turns[i] \o t
                 x == turns[i]
      <4>1. Len(y) = Len(x) + Len(t) /\ y \in Seq(Tokens) /\ Len(x) \in Nat BY <3>4, <3>5
      <4> HIDE DEF x, y
      <4>2. Len(y) # 0 BY <3>5, <4>1
      <4>3. y # <<>> BY <4>1, <4>2, LenFacts
      <4> QED BY <4>3 DEF y
    <3> QED BY <3>1, <3>2, <3>6
  <2> HIDE DEF new
  <2> QED BY <1>1, <1>3, <2>1, <2>2, <2>3 DEF new
<1>4. CASE ~(is_continuation /\ turns # <<>>)
  <2> DEFINE new == Append(turns, t)
  <2>1. Masks(new) = Append(Masks(turns), ByModel(t)) BY MasksGrow
  <2>2. GeneratedOf(new) = Append(GeneratedOf(turns), Generated(t)) BY GeneratedGrow
  <2>3. ASSUME NEW i \in 1..Len(new) PROVE new[i] # <<>>
    <3>1. Len(new) = Len(turns) + 1 /\ new[Len(turns) + 1] = t /\ Len(turns) \in Nat
          /\ \A j \in 1..Len(turns) : new[j] = turns[j]
      BY AppendFacts, LenFacts
    <3> HIDE DEF new
    <3>2. i \in 1..Len(turns) \/ i = Len(turns) + 1 BY <3>1
    <3> QED BY <3>1, <3>2
  <2> HIDE DEF new
  <2> QED BY <1>2, <1>4, <2>1, <2>2, <2>3 DEF new
<1> QED BY <1>3, <1>4

(* The inductive step, action by action.                                   *)
LEMMA DialogueStep ==
    ASSUME Schedulers \subseteq Supported, TypeOK, TypeOK', TurnInv, TurnInv', DialogueInv,
           [Next]_vars
    PROVE  DialogueInv'
<1> USE DEF turnVars, totalVars
<1> DEFINE R == response_token_ids
           M == response_loss_mask
           L == rollout_logprobs
<1>0. /\ R \in TokenLists /\ R \in Seq(Seq(Tokens)) /\ token_ids \in Seq(Tokens)
      /\ messages \in TokenLists
  BY DEF TypeOK, TokenLists
<1>s. /\ scheduler.returns \in {"nothing", "ids", "ids_and_mask"}
      /\ scheduler.returns = "nothing" => scheduler.next = {"user"}
      /\ scheduler.logprobs \in BOOLEAN
  BY SupportedFacts
<1>1. CASE InferTurn
  <2>1. /\ pc = "infer" /\ pc' = "check" /\ is_continuation' = open
        /\ messages' = IF open THEN ExtendLast(messages, token_ids')
                       ELSE Append(messages, token_ids')
        /\ UNCHANGED <<scheduler, current_turn, open, totalVars, sample>>
    BY <1>1 DEF InferTurn
  <2>2. token_ids' \in Seq(Tokens) BY DEF TypeOK
  <2>3. ReturningInv'
    <3>1. CASE scheduler.returns # "nothing"
      <4>1. messages = R BY <2>1, <3>1 DEF DialogueInv, ReturningInv
      <4>2. (messages = WithTurn(response_token_ids))' BY <2>1, <4>1 DEF WithTurn
      <4>3. open => R # <<>> BY <4>1 DEF TurnInv
      <4>4. (scheduler.next = {"continue"} /\ ~open) => R = <<>>
        BY <2>1, <3>1 DEF DialogueInv, ReturningInv
      <4>5. \A i \in 1..Len(R) : R[i] # <<>> BY <2>1, <3>1 DEF DialogueInv, ReturningInv
      <4> QED BY <2>1, <4>2, <4>3, <4>4, <4>5 DEF ReturningInv
    <3>2. CASE scheduler.returns = "nothing" BY <2>1, <3>2 DEF ReturningInv
    <3> QED BY <3>1, <3>2
  <2>4. CollectingInv' BY <2>1 DEF DialogueInv, CollectingInv
  <2>5. TextInv'
    <3>1. CASE scheduler.returns = "nothing"
      <4>1. ~open /\ R = <<>> BY <2>1, <3>1 DEF DialogueInv, TextInv
      <4>2. messages' = Append(messages, token_ids') BY <2>1, <4>1
      <4>3. messages'[Len(messages')] = token_ids'
        BY <1>0, <2>2, <4>2, AppendFacts DEF TokenLists
      <4> QED BY <2>1, <4>1, <4>3 DEF TextInv
    <3>2. CASE scheduler.returns # "nothing" BY <2>1, <3>2 DEF TextInv
    <3> QED BY <3>1, <3>2
  <2>6. CollectedInv' /\ LogprobsInv' BY <2>1 DEF CollectedInv, LogprobsInv
  <2> QED BY <2>3, <2>4, <2>5, <2>6 DEF DialogueInv
<1>2. CASE Stop
  <2>1. /\ pc = "check" /\ pc' = "merge" /\ UNCHANGED <<scheduler, turnVars, sample>>
        /\ response_token_ids' = FinalIds /\ response_loss_mask' = FinalMask
        /\ rollout_logprobs' = ValidLogprobs(FinalIds, FinalMask, FinalLogprobs)
    BY <1>2 DEF Stop
  <2>2. /\ FinalIds = IF scheduler.returns = "nothing" THEN <<token_ids>> ELSE messages
        /\ FinalIds \in TokenLists /\ FinalIds # <<>>
        /\ \/ FinalMask = Masks(FinalIds)
           \/ /\ FinalMask = <<>> /\ scheduler.returns = "ids"
              /\ ExtendTurn /\ FinalIds = ExtendLast(R, token_ids)
        /\ scheduler.logprobs => FinalLogprobs = GeneratedOf(FinalIds)
    BY <2>1, FinalFacts
  <2>3. ReturningInv' /\ CollectingInv' BY <2>1 DEF ReturningInv, CollectingInv
  <2>4. TextInv' BY <2>1 DEF DialogueInv, TextInv
  <2>5. CollectedInv' BY <2>1, <2>2 DEF CollectedInv
  <2>6. LogprobsInv'
    <3>1. SUFFICES ASSUME scheduler.logprobs PROVE LogprobsInv' BY <2>1 DEF LogprobsInv
    <3> DEFINE I == FinalIds
               G == GeneratedOf(FinalIds)
    <3>2. CASE FinalMask = Masks(FinalIds)
      <4>1. /\ Masks(I) # <<>> /\ G # <<>> /\ Trained(I, Masks(I)) = FlattenSeq(G)
            /\ ValidLogprobs(I, Masks(I), G) = G
        <5> HIDE DEF I
        <5>1. I \in TokenLists /\ I # <<>> BY <2>2 DEF I
        <5> QED BY <5>1, ValidWithMask DEF I
      <4>2. rollout_logprobs' = G BY <2>1, <2>2, <3>1, <3>2, <4>1
      <4>3. GivenLogprobs' = FlattenSeq(G) BY <2>1, <4>1, <4>2 DEF GivenLogprobs
      <4>4. response_loss_mask' = Masks(I) /\ response_token_ids' = I BY <2>1, <3>2
      <4> HIDE DEF I, G
      <4> QED BY <2>1, <3>1, <4>1, <4>3, <4>4 DEF LogprobsInv
    <3>3. CASE FinalMask # Masks(FinalIds)
      <4>1. FinalMask = <<>> /\ scheduler.returns = "ids" /\ ExtendTurn
            /\ I = ExtendLast(R, token_ids)
        BY <2>2, <3>3
      <4>2. R # <<>> BY <4>1 DEF ExtendTurn, Started
      <4>3. \A i \in 1..Len(R) : R[i] # <<>> BY <2>1, <4>1 DEF DialogueInv, ReturningInv
      <4> DEFINE left == ValidLogprobs(I, <<>>, G)
      <4>4. left # <<>> => FlattenSeq(left) = FlattenSeq(I)
        BY <1>0, <4>1, <4>2, <4>3, ValidWithoutMask
      <4>5. Len(token_ids) # Len(FlattenSeq(I))
        BY <1>0, <4>1, <4>2, <4>3, ValidWithoutMask
      <4>6. rollout_logprobs' = left BY <2>1, <2>2, <3>1, <4>1
      <4>7. GivenLogprobs' = IF left # <<>> THEN FlattenSeq(left) ELSE token_ids
        BY <2>1, <3>1, <4>6 DEF GivenLogprobs, Logprobs
      <4>8. response_loss_mask' = <<>> /\ response_token_ids' = I BY <2>1, <4>1
      <4> HIDE DEF I, left
      <4> QED BY <2>1, <4>4, <4>5, <4>7, <4>8 DEF LogprobsInv
    <3> QED BY <3>2, <3>3
  <2> QED BY <2>3, <2>4, <2>5, <2>6 DEF DialogueInv
<1>3. CASE Step
  <2>1. PICK next \in scheduler.next, keep \in 1..Len(token_ids), more \in 0..1 :
          LET kept  == SubSeq(token_ids, 1, keep)
              added == [i \in 1..more |-> <<current_turn, 0>>]
              turn  == kept \o added
              cont(turns) == is_continuation /\ turns # <<>>
              track(turns, items) == IF cont(turns) THEN ExtendLast(turns, items)
                                     ELSE Append(turns, items)
              text  == SubSeq(messages[Len(messages)], 1,
                              Len(messages[Len(messages)]) - Len(token_ids)) \o turn
          IN  /\ messages' = [messages EXCEPT ![Len(messages)] = text]
              /\ open' = (next = "continue")
              /\ response_token_ids' = IF scheduler.returns = "nothing"
                                       THEN response_token_ids
                                       ELSE track(response_token_ids, turn)
              /\ response_loss_mask' = IF scheduler.returns # "ids_and_mask"
                                       THEN response_loss_mask
                                       ELSE track(response_loss_mask, StepMask(kept, added))
              /\ rollout_logprobs' = IF Logprobs = <<>> THEN rollout_logprobs
                                     ELSE track(rollout_logprobs, kept)
    BY <1>3 DEF Step
  <2> DEFINE kept  == SubSeq(token_ids, 1, keep)
             added == [i \in 1..more |-> <<current_turn, 0>>]
             turn  == kept \o added
  <2>2. pc = "check" /\ pc' = "infer" /\ UNCHANGED <<scheduler, token_ids, is_continuation, sample>>
    BY <1>3 DEF Step
  <2>3. /\ kept \in Seq(Tokens) /\ added \in Seq(Tokens)
        /\ turn \in Seq(Tokens) /\ turn # <<>>
        /\ \A i \in 1..Len(kept) : kept[i][2] # 0
        /\ \A i \in 1..Len(added) : added[i][2] = 0
    BY <2>2, StepFacts
  <2>4. ByModel(turn) = StepMask(kept, added) /\ Generated(turn) = kept
    <3> HIDE DEF kept, added
    <3> QED BY <2>3, TurnFacts
  <2> DEFINE last == messages[Len(messages)]
             text == SubSeq(last, 1, Len(last) - Len(token_ids)) \o turn
  <2>5. messages' = [messages EXCEPT ![Len(messages)] = text] /\ open' = (next = "continue")
    BY <2>1
  <2>6. R' = IF scheduler.returns = "nothing" THEN R
             ELSE IF is_continuation /\ R # <<>> THEN ExtendLast(R, turn) ELSE Append(R, turn)
    BY <2>1
  <2>7. M' = IF scheduler.returns # "ids_and_mask" THEN M
             ELSE IF is_continuation /\ M # <<>> THEN ExtendLast(M, ByModel(turn))
             ELSE Append(M, ByModel(turn))
    BY <2>1, <2>4
  <2>8. scheduler.logprobs =>
          L' = IF is_continuation /\ L # <<>> THEN ExtendLast(L, Generated(turn))
               ELSE Append(L, Generated(turn))
    <3>1. scheduler.logprobs => Logprobs # <<>> BY <2>2 DEF Logprobs, TurnInv
    <3> QED BY <2>1, <2>4, <3>1
  <2> HIDE DEF turn
  <2>9. CASE scheduler.returns = "nothing"
    <3>1. R = <<>> /\ ~is_continuation BY <2>2, <2>9 DEF DialogueInv, TextInv
    <3>2. ~open' BY <1>s, <2>5, <2>9
    <3>3. M = <<>> BY <2>2, <2>9 DEF DialogueInv, CollectingInv
    <3>4. ReturningInv' /\ CollectedInv' /\ LogprobsInv'
      BY <2>2, <2>9 DEF ReturningInv, CollectedInv, LogprobsInv
    <3>5. CollectingInv' BY <2>2, <2>7, <2>9, <3>3 DEF CollectingInv
    <3>6. TextInv' BY <2>2, <2>6, <2>9, <3>1, <3>2 DEF TextInv
    <3> QED BY <3>4, <3>5, <3>6 DEF DialogueInv
  <2>10. CASE scheduler.returns # "nothing"
    <3>1. /\ messages = WithTurn(R)
          /\ is_continuation => R # <<>>
          /\ \A i \in 1..Len(R) : R[i] # <<>>
      BY <2>2, <2>10 DEF DialogueInv, ReturningInv
    <3>2. messages' = R'
      <4>1. CASE is_continuation
        <5>1. R # <<>> /\ messages = ExtendLast(R, token_ids) BY <3>1, <4>1 DEF WithTurn
        <5>2. R' = ExtendLast(R, turn) BY <2>6, <2>10, <4>1, <5>1
        <5>3. Rewritten(messages, token_ids, turn) = ExtendLast(R, turn)
          BY <1>0, <2>3, <5>1, RewriteExtended
        <5>4. messages' = ExtendLast(R, turn) BY <2>5, <5>3 DEF Rewritten
        <5> QED BY <5>2, <5>4
      <4>2. CASE ~is_continuation
        <5>1. messages = Append(R, token_ids) BY <3>1, <4>2 DEF WithTurn
        <5>2. R' = Append(R, turn) BY <2>6, <2>10, <4>2
        <5>3. Rewritten(messages, token_ids, turn) = Append(R, turn)
          BY <1>0, <2>3, <5>1, RewriteAppended
        <5>4. messages' = Append(R, turn) BY <2>5, <5>3 DEF Rewritten
        <5> QED BY <5>2, <5>4
      <4> QED BY <4>1, <4>2
    <3> DEFINE new == IF is_continuation /\ R # <<>> THEN ExtendLast(R, turn) ELSE Append(R, turn)
    <3>3. /\ R' = new /\ \A i \in 1..Len(new) : new[i] # <<>>
          /\ Masks(new) = IF is_continuation /\ Masks(R) # <<>>
                          THEN ExtendLast(Masks(R), ByModel(turn))
                          ELSE Append(Masks(R), ByModel(turn))
          /\ GeneratedOf(new) = IF is_continuation /\ GeneratedOf(R) # <<>>
                                THEN ExtendLast(GeneratedOf(R), Generated(turn))
                                ELSE Append(GeneratedOf(R), Generated(turn))
      BY <1>0, <2>3, <2>6, <2>10, <3>1, TrackFacts
    <3> HIDE DEF new
    <3>4. M = IF scheduler.returns = "ids_and_mask" THEN Masks(R) ELSE <<>>
      BY <2>2 DEF DialogueInv, CollectingInv
    <3>5. scheduler.logprobs => L = GeneratedOf(R)
      BY <2>2, <2>10 DEF DialogueInv, CollectingInv
    <3>6. M' = IF scheduler.returns = "ids_and_mask" THEN Masks(new) ELSE <<>>
      BY <2>7, <3>3, <3>4
    <3>7. scheduler.logprobs => L' = GeneratedOf(new) BY <2>8, <3>3, <3>5
    <3>8. CollectingInv' BY <2>2, <3>3, <3>6, <3>7 DEF CollectingInv
    <3>9. scheduler.next = {"continue"} => open' BY <2>1
    <3>10. ReturningInv' BY <2>2, <3>2, <3>3, <3>9 DEF ReturningInv
    <3>11. TextInv' BY <2>2, <2>10 DEF TextInv
    <3>12. CollectedInv' /\ LogprobsInv' BY <2>2 DEF CollectedInv, LogprobsInv
    <3> QED BY <3>8, <3>10, <3>11, <3>12 DEF DialogueInv
  <2> QED BY <2>9, <2>10
<1>4. CASE Merge
  <2>1. /\ pc = "merge" /\ pc' = "encode" /\ UNCHANGED <<scheduler, turnVars, totalVars>>
        /\ sample' = [ids |-> R, mask |-> M, loss |-> <<>>,
                      logprobs |-> IF L # <<>> THEN FlattenSeq(L) ELSE Logprobs]
    BY <1>4 DEF Merge
  <2>2. ReturningInv' /\ CollectingInv' BY <2>1 DEF ReturningInv, CollectingInv
  <2>3. TextInv' BY <2>1 DEF DialogueInv, TextInv
  <2>4. CollectedInv' BY <2>1 DEF DialogueInv, CollectedInv
  <2>5. GivenLogprobs' = GivenLogprobs BY <2>1 DEF GivenLogprobs
  <2>6. LogprobsInv' BY <2>1, <2>5 DEF DialogueInv, LogprobsInv
  <2> QED BY <2>2, <2>3, <2>4, <2>6 DEF DialogueInv
<1>5. CASE Encode
  <2>1. pc = "encode" /\ pc' = "done" /\ UNCHANGED <<scheduler, turnVars, totalVars>>
    BY <1>5 DEF Encode
  <2>2. TextInv' BY <2>1 DEF DialogueInv, TextInv
  <2> QED BY <2>1, <2>2 DEF DialogueInv, ReturningInv, CollectingInv, CollectedInv, LogprobsInv
<1>6. CASE UNCHANGED vars
  BY <1>6 DEF vars, DialogueInv, ReturningInv, CollectingInv, TextInv, CollectedInv,
              LogprobsInv, WithTurn, GivenLogprobs, Logprobs
<1> QED BY <1>1, <1>2, <1>3, <1>4, <1>5, <1>6 DEF Next

(* The invariant of the supported schedulers.                              *)
LEMMA DialogueInvariance ==
    ASSUME Schedulers \subseteq Supported
    PROVE  Spec => [](TypeOK /\ TurnInv /\ DialogueInv)
<1>1. Init => DialogueInv
  <2>1. Masks(<<>>) = <<>> /\ GeneratedOf(<<>>) = <<>> BY DEF Masks, GeneratedOf
  <2> QED BY <2>1 DEF Init, DialogueInv, ReturningInv, CollectingInv, TextInv, CollectedInv,
                      LogprobsInv
<1>2. TypeOK /\ TurnInv /\ TypeOK' /\ TurnInv' /\ DialogueInv /\ [Next]_vars => DialogueInv'
  BY DialogueStep
<1> QED BY <1>1, <1>2, TypeInvariance, PTL DEF Spec

-----------------------------------------------------------------------------
(* What the trainer gets.  The properties speak of the encoded sample:     *)
(* they hold after Encode, and nothing happens to the sample later.        *)
LEMMA EncodeFacts ==
    ASSUME Schedulers \subseteq Supported, TypeOK, TurnInv, DialogueInv, Encode
    PROVE  /\ sample'.ids = messages
           /\ scheduler.returns = "ids_and_mask" =>
                 sample'.loss = Generated(FlattenSeq(messages))
           /\ scheduler.logprobs =>
                 \/ sample'.logprobs = sample'.loss
                 \/ sample'.logprobs = <<>> /\ scheduler.returns # "ids_and_mask"
<1> DEFINE I    == sample.ids
           M    == sample.mask
           G    == sample.logprobs
           ids  == ReplaceAssistantResponse(messages, I)
           kept == SubSeq(messages, 1, Len(messages) - Len(I))
           loss == (IF M = <<>> THEN FlattenSeq(ids) ELSE FlattenSeq(kept) \o Trained(I, M))
<1>1. /\ pc = "encode" /\ sample' = [sample EXCEPT !.ids = ids, !.loss = loss,
                                       !.logprobs = IF Len(@) = Len(loss) THEN @ ELSE <<>>]
  BY DEF Encode
<1>2. /\ messages \in TokenLists /\ messages # <<>> /\ token_ids \in Seq(Tokens)
      /\ I \in TokenLists /\ G \in Seq(Tokens)
  BY <1>1 DEF TypeOK, TurnInv
<1>3. scheduler.returns \in {"nothing", "ids", "ids_and_mask"} BY SupportedFacts
<1>4. /\ I = (IF scheduler.returns = "nothing" THEN <<token_ids>> ELSE messages)
      /\ I # <<>> /\ M = response_loss_mask /\ I = response_token_ids
      /\ M = Masks(I) \/ (M = <<>> /\ scheduler.returns = "ids")
  BY <1>1 DEF DialogueInv, CollectedInv
<1>5. scheduler.returns = "nothing" => token_ids = messages[Len(messages)]
  BY <1>1 DEF DialogueInv, TextInv
<1>6. ids = messages BY <1>2, <1>4, <1>5, ReplaceFacts
<1>7. Masks(I) # <<>> /\ Trained(I, Masks(I)) = Generated(FlattenSeq(I))
  BY <1>2, <1>4, ValidWithMask
<1>8. scheduler.logprobs => IF M = <<>> THEN G = FlattenSeq(I) \/ Len(G) # Len(FlattenSeq(I))
                            ELSE G = Trained(I, M)
  BY <1>1, <1>4 DEF DialogueInv, LogprobsInv, GivenLogprobs
<1>9. /\ sample'.ids = messages /\ sample'.loss = loss
      /\ sample'.logprobs = IF Len(G) = Len(loss) THEN G ELSE <<>>
  <2>1. sample \in [ids : TokenLists, mask : Seq(Seq({0, 1})), logprobs : Seq(Tokens),
                    loss : Seq(Tokens)]
    BY DEF TypeOK
  <2> HIDE DEF loss
  <2> QED BY <1>1, <1>6, <2>1
<1>10. CASE scheduler.returns = "ids"
  <2>1. I = messages BY <1>4, <1>10
  <2>2. kept = <<>> BY <1>2, <2>1, ReplaceFacts
  <2>3. M = <<>> => loss = FlattenSeq(I) BY <1>6, <2>1
  <2>4. M # <<>> => loss = Trained(I, M)
    <3>1. FlattenSeq(<<>>) = <<>> /\ Trained(I, M) \in Seq(Tokens)
      BY <1>2, FlattenAppend, TrainedType DEF TypeOK
    <3> HIDE DEF ids, kept
    <3> QED BY <2>2, <3>1, ConcatEmptySeq
  <2> HIDE DEF loss
  <2> QED BY <1>8, <1>9, <1>10, <2>3, <2>4
<1>11. CASE scheduler.returns = "ids_and_mask"
  <2>1. I = messages /\ M = Masks(I) /\ M # <<>> BY <1>4, <1>7, <1>11
  <2>2. kept = <<>> BY <1>2, <2>1, ReplaceFacts
  <2>3. loss = Trained(I, M)
    <3>1. FlattenSeq(<<>>) = <<>> /\ Trained(I, M) \in Seq(Tokens)
      BY <1>2, FlattenAppend, TrainedType DEF TypeOK
    <3> HIDE DEF ids, kept
    <3> QED BY <2>1, <2>2, <3>1, ConcatEmptySeq
  <2> HIDE DEF loss
  <2> QED BY <1>7, <1>8, <1>9, <1>11, <2>1, <2>3
<1>12. CASE scheduler.returns = "nothing"
  <2>1. M # <<>> BY <1>4, <1>7, <1>12
  <2> DEFINE F == FlattenSeq(kept)
             T == Trained(I, M)
  <2>2. F \in Seq(Tokens)
    <3>1. kept \in TokenLists BY <1>2, ReplaceType
    <3> HIDE DEF kept
    <3> QED BY <3>1, TrainedType
  <2>3. T \in Seq(Tokens) BY <1>2, TrainedType DEF TypeOK
  <2>4. loss = F \o T BY <2>1
  <2>5. scheduler.logprobs => G = T BY <1>8, <2>1
  <2> HIDE DEF F, T, loss
  <2>6. Len(loss) = Len(T) => loss = T
    <3>1. Len(F \o T) = Len(F) + Len(T) /\ Len(F) \in Nat /\ Len(T) \in Nat
      BY <2>2, <2>3, ConcatProperties, LenFacts
    <3>2. Len(loss) = Len(T) => Len(F) = 0 BY <2>4, <3>1
    <3>3. Len(F) = 0 => F = <<>> BY <2>2, LenFacts
    <3> QED BY <2>3, <2>4, <3>2, <3>3, ConcatEmptySeq
  <2> QED BY <1>9, <1>12, <2>5, <2>6
<1> QED BY <1>3, <1>10, <1>11, <1>12

(* What holds of the encoded sample.                                       *)
EncodedInv == TrainedOnOwnTokens /\ LossOnGenerated /\ LogprobsFollowLoss

(* The three properties of the sample.                                     *)
LEMMA EncodedInvariance ==
    ASSUME Schedulers \subseteq Supported
    PROVE  Spec => []EncodedInv
<1> USE DEF turnVars, totalVars
<1>1. Init => EncodedInv
  BY DEF Init, EncodedInv, TrainedOnOwnTokens, LossOnGenerated, LogprobsFollowLoss
<1>2. TypeOK /\ TurnInv /\ DialogueInv /\ (TypeOK /\ TurnInv /\ DialogueInv)' /\ EncodedInv
        /\ [Next]_vars => EncodedInv'
  <2> SUFFICES ASSUME TypeOK, TurnInv, DialogueInv, TypeOK', DialogueInv', EncodedInv, [Next]_vars
               PROVE  EncodedInv'
    OBVIOUS
  <2>1. CASE Encode
    <3>1. pc' = "done" /\ UNCHANGED <<scheduler, turnVars, totalVars>> BY <2>1 DEF Encode
    <3> QED BY <2>1, <3>1, EncodeFacts
          DEF EncodedInv, TrainedOnOwnTokens, LossOnGenerated, LogprobsFollowLoss
  <2>2. CASE Merge
    <3>1. pc' = "encode" BY <2>2 DEF Merge
    <3> DEFINE I == sample.ids'
    <3>2. sample.ids' \in TokenLists BY DEF TypeOK
    <3>3. sample.mask' = Masks(sample.ids') \/ sample.mask' = <<>>
      BY <3>1 DEF DialogueInv, CollectedInv
    <3>4. Aligned(sample.ids', Masks(sample.ids'))
      <4> HIDE DEF I
      <4>1. I \in Seq(Seq(Tokens)) BY <3>2 DEF I, TokenLists
      <4>2. Len(Masks(I)) = Len(I) BY <4>1 DEF Masks
      <4>3. ASSUME NEW i \in 1..Len(I) PROVE Len(I[i]) = Len(Masks(I)[i])
        <5>1. I[i] \in Seq(Tokens) BY <4>1, LenFacts
        <5>2. Len(ByModel(I[i])) = Len(I[i]) BY <5>1, ByModelFacts
        <5> QED BY <5>2 DEF Masks
      <4>4. Aligned(I, Masks(I)) BY <4>2, <4>3 DEF Aligned
      <4> QED BY <4>4 DEF I
    <3>5. Aligned(sample.ids', sample.mask') BY <3>3, <3>4 DEF Aligned
    <3> QED BY <3>1, <3>5 DEF EncodedInv, TrainedOnOwnTokens, LossOnGenerated, LogprobsFollowLoss
  <2>3. CASE InferTurn \/ Stop \/ Step
    <3>1. pc' \in {"infer", "check", "merge"} BY <2>3 DEF InferTurn, Stop, Step
    <3> QED BY <3>1 DEF EncodedInv, TrainedOnOwnTokens, LossOnGenerated, LogprobsFollowLoss
  <2>4. CASE UNCHANGED vars
    BY <2>4 DEF vars, EncodedInv, TrainedOnOwnTokens, LossOnGenerated, LogprobsFollowLoss
  <2> QED BY <2>1, <2>2, <2>3, <2>4 DEF Next
<1> QED BY <1>1, <1>2, DialogueInvariance, PTL DEF Spec

(* For the supported schedulers, the token ids put into the messages are   *)
(* the tokens of these messages (replace_assistant_response_with_ids):     *)
(* continued, truncated and extended turns in any number.                  *)
THEOREM DialogueIsTrainedOn ==
    ASSUME Schedulers \subseteq Supported
    PROVE  Spec => []TrainedOnOwnTokens
<1>1. EncodedInv => TrainedOnOwnTokens BY DEF EncodedInv
<1> QED BY <1>1, EncodedInvariance, PTL

(* Ids and loss mask have the same shape, so that the assertion of the     *)
(* encoding holds; and the loss is on the generated tokens, in their       *)
(* order, and on none that the scheduler added.                            *)
THEOREM LossIsOnGenerated ==
    ASSUME Schedulers \subseteq Supported
    PROVE  Spec => []LossOnGenerated
<1>1. EncodedInv => LossOnGenerated BY DEF EncodedInv
<1> QED BY <1>1, EncodedInvariance, PTL

(* The log-probabilities of a sample are those of its tokens with loss, or *)
(* there are none; with a loss mask they are all there.                    *)
THEOREM LogprobsAreOfLoss ==
    ASSUME Schedulers \subseteq Supported
    PROVE  Spec => []LogprobsFollowLoss
<1>1. EncodedInv => LogprobsFollowLoss BY DEF EncodedInv
<1> QED BY <1>1, EncodedInvariance, PTL
=============================================================================
