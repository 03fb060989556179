----------------------- MODULE TransformersEngineProofs -----------------------
(***************************************************************************)
(* Machine-checked proofs about TransformersEngine, for any number of      *)
(* requests, request_configs and adapters, every max_batch_size, and any   *)
(* bounds on chunks and exceptions.                                        *)
(***************************************************************************)
EXTENDS TransformersEngineInvariant, BasicFacts, TLAPS

-----------------------------------------------------------------------------
(* The results of a batch.                                                 *)

(* The function by which AddErrorList is defined.                          *)
Inserting(f, outputs, errors) ==
    f = [k \in 0..Len(errors) |->
           IF k = 0 THEN outputs ELSE InsertAt(f[k - 1], errors[k].at, errors[k].error)]

(* There is such a function, for one more error it is longer.              *)
LEMMA InsertingExists ==
    ASSUME NEW S, NEW outputs, NEW errors \in Seq(S)
    PROVE  \E f : Inserting(f, outputs, errors)
<1> DEFINE A == {s \in Seq(S) : \E f : Inserting(f, outputs, s)}
<1>1. <<>> \in A
  <2> DEFINE f == [k \in 0..0 |-> outputs]
  <2>1. Inserting(f, outputs, <<>>) BY DEF Inserting
  <2> QED BY <2>1
<1>2. ASSUME NEW s \in Seq(S), NEW e \in S, s \in A PROVE Append(s, e) \in A
  <2> DEFINE t == Append(s, e)
             n == Len(s)
  <2>1. /\ n \in Nat /\ t \in Seq(S) /\ Len(t) = n + 1 /\ t[n + 1] = e
        /\ \A i \in 1..n : t[i] = s[i]
    BY AppendFacts
  <2> HIDE DEF t
  <2>2. PICK f : Inserting(f, outputs, s) BY <1>2
  <2> DEFINE g == [i \in 0..(n + 1) |->
                     IF i = n + 1 THEN InsertAt(f[n], e.at, e.error) ELSE f[i]]
  <2>3. ASSUME NEW i \in 0..(n + 1)
        PROVE g[i] = IF i = 0 THEN outputs ELSE InsertAt(g[i - 1], t[i].at, t[i].error)
    <3>1. CASE i = n + 1
      <4>1. i - 1 \in 0..(n + 1) /\ i - 1 # n + 1 /\ i # 0 /\ i - 1 = n BY <3>1, <2>1
      <4>2. g[i - 1] = f[n] BY <4>1
      <4>3. g[i] = InsertAt(f[n], e.at, e.error) BY <3>1
      <4> QED BY <3>1, <4>1, <4>2, <4>3, <2>1
    <3>2. CASE i # n + 1
      <4>1. i \in 0..n /\ (i # 0 => i \in 1..n) BY <3>2, <2>1
      <4>2. f[i] = IF i = 0 THEN outputs ELSE InsertAt(f[i - 1], s[i].at, s[i].error)
        BY <4>1, <2>2 DEF Inserting
      <4>3. i # 0 => i - 1 \in 0..(n + 1) /\ i - 1 # n + 1 BY <4>1, <2>1
      <4>4. i # 0 => g[i - 1] = f[i - 1] BY <4>3
      <4>5. g[i] = f[i] BY <3>2
      <4> QED BY <4>1, <4>2, <4>4, <4>5, <2>1
    <3> QED BY <3>1, <3>2
  <2>4. g = [i \in 0..(n + 1) |-> g[i]] OBVIOUS
  <2> HIDE DEF g
  <2>5. Inserting(g, outputs, t) BY <2>1, <2>3, <2>4 DEF Inserting
  <2> QED BY <2>1, <2>5 DEF t
<1>3. \A s \in Seq(S) : s \in A
  <2> HIDE DEF A
  <2> QED BY <1>1, <1>2, SeqInduction
<1> QED BY <1>3

(* AddErrorList is its last value.                                         *)
LEMMA AddErrorListByInserting ==
    ASSUME NEW S, NEW outputs, NEW errors \in Seq(S)
    PROVE  \E f : Inserting(f, outputs, errors) /\ AddErrorList(outputs, errors) = f[Len(errors)]
<1> DEFINE f == CHOOSE g : Inserting(g, outputs, errors)
<1>1. Inserting(f, outputs, errors) BY InsertingExists
<1>2. AddErrorList(outputs, errors) = f[Len(errors)] BY Zenon DEF AddErrorList, Inserting
<1> QED BY <1>1, <1>2

(* AddErrorList, by recursion on the errors.                               *)
LEMMA AddErrorListAppend ==
    ASSUME NEW S, NEW outputs, NEW errors \in Seq(S), NEW e \in S
    PROVE  AddErrorList(outputs, Append(errors, e)) =
             InsertAt(AddErrorList(outputs, errors), e.at, e.error)
<1> DEFINE t == Append(errors, e)
           n == Len(errors)
<1>1. /\ n \in Nat /\ t \in Seq(S) /\ Len(t) = n + 1 /\ t[n + 1] = e
      /\ \A i \in 1..n : t[i] = errors[i]
  BY AppendFacts
<1> HIDE DEF t
<1>2. PICK f : Inserting(f, outputs, t) /\ AddErrorList(outputs, t) = f[n + 1]
  BY <1>1, AddErrorListByInserting
<1>3. PICK h : Inserting(h, outputs, errors) /\ AddErrorList(outputs, errors) = h[n]
  BY AddErrorListByInserting
<1> HIDE DEF n
<1>4. /\ \A i \in 0..(n + 1) : f[i] = IF i = 0 THEN outputs
                                      ELSE InsertAt(f[i - 1], t[i].at, t[i].error)
      /\ \A i \in 0..n : h[i] = IF i = 0 THEN outputs
                                ELSE InsertAt(h[i - 1], errors[i].at, errors[i].error)
  BY <1>1, <1>2, <1>3 DEF Inserting, n
<1> DEFINE A == {i \in Nat : i <= n => f[i] = h[i]}
<1>5. 0 \in A
  <2>1. 0 \in 0..n /\ 0 \in 0..(n + 1) BY <1>1
  <2>2. f[0] = h[0] BY <1>4, <2>1
  <2> QED BY <2>2
<1>6. ASSUME NEW i \in Nat, i \in A PROVE i + 1 \in A
  <2>1. SUFFICES ASSUME i + 1 <= n PROVE f[i + 1] = h[i + 1] BY <1>1
  <2>2. f[i] = h[i] BY <1>1, <1>6, <2>1
  <2> DEFINE j == i + 1
  <2>3. j \in 0..n /\ j \in 0..(n + 1) /\ j # 0 /\ j - 1 = i /\ j \in 1..n BY <1>1, <2>1
  <2> HIDE DEF j
  <2>4. f[j] = h[j] BY <1>1, <1>4, <2>2, <2>3
  <2> QED BY <2>4 DEF j
<1>7. \A i \in Nat : i \in A
  <2> HIDE DEF A
  <2> QED BY <1>5, <1>6, SetInduction
<1>8. f[n] = h[n] BY <1>1, <1>7
<1>9. n + 1 \in 0..(n + 1) /\ n + 1 # 0 /\ (n + 1) - 1 = n BY <1>1
<1>10. f[n + 1] = InsertAt(f[n], t[n + 1].at, t[n + 1].error) BY <1>4, <1>9
<1> QED BY <1>1, <1>2, <1>3, <1>8, <1>10 DEF t, n

(* AddErrorList without errors.                                            *)
LEMMA AddErrorListEmpty == ASSUME NEW outputs PROVE AddErrorList(outputs, <<>>) = outputs
<1>1. <<>> \in Seq({}) /\ Len(<<>>) = 0 OBVIOUS
<1>2. PICK f : Inserting(f, outputs, <<>>) /\ AddErrorList(outputs, <<>>) = f[Len(<<>>)]
  BY <1>1, AddErrorListByInserting
<1>3. f[0] = outputs BY <1>1, <1>2 DEF Inserting
<1> QED BY <1>1, <1>2, <1>3

(* The two pieces of a concatenation.                                      *)
LEMMA Pieces ==
    ASSUME NEW T, NEW s \in Seq(T), NEW w \in Seq(T), NEW u, u = s \o w
    PROVE  SubSeq(u, 1, (Len(s) + 1) - 1) = s /\ SubSeq(u, Len(s) + 1, Len(u)) = w
<1> DEFINE n == Len(s)
           m == Len(w)
<1>1. u \in Seq(T) /\ Len(u) = n + m /\ n \in Nat /\ m \in Nat
  <2>1. u \in Seq(T) BY ConcatProperties
  <2>2. Len(u) = n + m BY ConcatProperties
  <2> QED BY <2>1, <2>2, LenFacts
<1>2. \A i \in 1..n : u[i] = s[i] BY ConcatProperties
<1>3. \A i \in 1..m : u[n + i] = w[i]
  <2>1. ASSUME NEW i \in 1..m PROVE u[n + i] = w[i]
    <3>1. n + i \in 1..(n + m) /\ n + i > n /\ (n + i) - n = i BY <1>1
    <3> QED BY <3>1, ConcatProperties
  <2> QED BY <2>1
<1>4. SubSeq(u, 1, (n + 1) - 1) = s
  <2>1. (n + 1) - 1 = n BY <1>1
  <2>2. \A i \in 1..n : 1 + i - 1 \in 1..Len(u) BY <1>1
  <2>3. SubSeq(u, 1, n) \in Seq(T) /\ Len(SubSeq(u, 1, n)) = n
    BY <1>1, SubSeqProperties
  <2>4. \A i \in 1..n : SubSeq(u, 1, n)[i] = u[i] BY <1>1, SubSeqProperties
  <2>5. SubSeq(u, 1, n) = s BY <1>2, <2>3, <2>4, SeqEqual
  <2> QED BY <2>1, <2>5
<1>5. SubSeq(u, n + 1, Len(u)) = w
  <2> DEFINE v == SubSeq(u, n + 1, Len(u))
  <2>1. v \in Seq(T) /\ Len(v) = m BY <1>1, SubSeqProperties
  <2>2. \A i \in 1..m : v[i] = w[i]
    <3>1. ASSUME NEW i \in 1..m PROVE v[i] = w[i]
      <4>1. (n + 1) + i - 1 = n + i /\ i \in 1..(Len(u) - (n + 1) + 1) BY <1>1
      <4>2. v[i] = u[n + i] BY <1>1, <4>1, SubSeqProperties
      <4> QED BY <1>3, <4>2
    <3> QED BY <3>1
  <2> HIDE DEF v
  <2>3. v = w BY <2>1, <2>2, SeqEqual
  <2> QED BY <2>3 DEF v
<1> QED BY <1>4, <1>5

(* Whatever is left out of a list and inserted at its places again, in     *)
(* order, gives the list.                                                  *)
LEMMA InsertedAtPlaces ==
    ASSUME NEW T, NEW full \in Seq(T), NEW mask, NEW other, NEW E,
           \A i \in 1..Len(full) :
              /\ mask[i] = 1 <=> other[i] # 1
              /\ E[i].at = i
              /\ other[i] = 1 => E[i].error = full[i]
    PROVE  AddErrorList(Masked(full, mask), Masked([i \in 1..Len(full) |-> E[i]], other)) = full
<1> DEFINE R == {E[i] : i \in Nat}
           Places(s) == [i \in 1..Len(s) |-> E[i]]
           H(s) == \A i \in 1..Len(s) : /\ mask[i] = 1 <=> other[i] # 1
                                        /\ E[i].at = i
                                        /\ other[i] = 1 => E[i].error = s[i]
           P(s) == H(s) => \A w \in Seq(T) :
                     AddErrorList(Masked(s, mask) \o w, Masked(Places(s), other)) = s \o w
           A == {s \in Seq(T) : P(s)}
<1>1. <<>> \in A
  <2>1. Len(Places(<<>>)) = 0 /\ Places(<<>>) = <<>> OBVIOUS
  <2> HIDE DEF Places
  <2>2. Masked(<<>>, mask) = <<>> /\ Masked(Places(<<>>), other) = <<>> BY <2>1, MaskedEmpty
  <2>3. ASSUME NEW w \in Seq(T)
        PROVE  AddErrorList(Masked(<<>>, mask) \o w, Masked(Places(<<>>), other)) = <<>> \o w
    BY <2>2, AddErrorListEmpty, ConcatEmptySeq
  <2> QED BY <2>3
<1>2. ASSUME NEW s \in Seq(T), NEW e \in T, s \in A PROVE Append(s, e) \in A
  <2> DEFINE t == Append(s, e)
             n == Len(s)
  <2>1. /\ t \in Seq(T) /\ Len(t) = n + 1 /\ n \in Nat /\ t[n + 1] = e
        /\ \A i \in 1..n : t[i] = s[i]
    BY AppendFacts
  <2>2. t = s \o <<e>> BY AppendIsConcat
  <2>3. Masked(t, mask) = IF mask[n + 1] = 1 THEN Append(Masked(s, mask), e) ELSE Masked(s, mask)
    BY MaskedAppend
  <2>4. Places(s) \in Seq(R) /\ Len(Places(s)) = n /\ E[n + 1] \in R BY <2>1
  <2> HIDE DEF t
  <2>5. Places(t) = Append(Places(s), E[n + 1])
    <3>1. /\ Append(Places(s), E[n + 1]) \in Seq(R) /\ Len(Append(Places(s), E[n + 1])) = n + 1
          /\ \A i \in 1..n : Append(Places(s), E[n + 1])[i] = Places(s)[i]
          /\ Append(Places(s), E[n + 1])[n + 1] = E[n + 1]
      <4> HIDE DEF Places, R
      <4> QED BY <2>4, AppendFacts
    <3>2. Places(t) \in Seq(R) /\ Len(Places(t)) = n + 1
      <4>1. \A i \in 1..(n + 1) : E[i] \in R BY <2>1
      <4> HIDE DEF R
      <4> QED BY <2>1, <4>1
    <3>3. \A i \in 1..(n + 1) : Places(t)[i] = E[i] BY <2>1
    <3>4. \A i \in 1..n : Places(s)[i] = E[i] OBVIOUS
    <3>5. \A i \in 1..(n + 1) : Places(t)[i] = Append(Places(s), E[n + 1])[i]
      <4> HIDE DEF Places, R
      <4>1. \A i \in 1..(n + 1) : i \in 1..n \/ i = n + 1 BY <2>1
      <4> QED BY <4>1, <3>1, <3>3, <3>4
    <3> HIDE DEF Places, R
    <3> QED BY <3>1, <3>2, <3>5, SeqEqual
  <2>6. Masked(Places(t), other) = IF other[n + 1] = 1
                                   THEN Append(Masked(Places(s), other), E[n + 1])
                                   ELSE Masked(Places(s), other)
    <3> DEFINE p == Places(s)
               x == E[n + 1]
    <3>1. p \in Seq(R) /\ Len(p) = n /\ x \in R BY <2>4
    <3>2. Places(t) = Append(p, x) BY <2>5
    <3> HIDE DEF p, x, R, n
    <3>3. Masked(Append(p, x), other) = IF other[Len(p) + 1] = 1 THEN Append(Masked(p, other), x)
                                        ELSE Masked(p, other)
      BY <3>1, MaskedAppend
    <3> HIDE DEF Places
    <3> QED BY <3>1, <3>2, <3>3 DEF p, x
  <2>7. Masked(s, mask) \in Seq(T) /\ Masked(Places(s), other) \in Seq(R)
    <3> HIDE DEF Places, R
    <3> QED BY <2>4, MaskedRange
  <2>8. ASSUME H(t), NEW w \in Seq(T)
        PROVE  AddErrorList(Masked(t, mask) \o w, Masked(Places(t), other)) = t \o w
    <3>1. /\ mask[n + 1] = 1 <=> other[n + 1] # 1
          /\ E[n + 1].at = n + 1
          /\ other[n + 1] = 1 => E[n + 1].error = e
      BY <2>1, <2>8
    <3>2. H(s)
      <4>1. \A i \in 1..n : i \in 1..(n + 1) BY <2>1
      <4> QED BY <2>1, <2>8, <4>1
    <3>3. \A v \in Seq(T) :
             AddErrorList(Masked(s, mask) \o v, Masked(Places(s), other)) = s \o v
      BY <1>2, <3>2
    <3> HIDE DEF Places, R, H
    <3>4. CASE mask[n + 1] = 1
      <4>1. <<e>> \in Seq(T) /\ <<e>> \o w \in Seq(T) BY ConcatProperties
      <4>2. Masked(t, mask) = Masked(s, mask) \o <<e>> BY <2>3, <2>7, <3>4, AppendIsConcat
      <4>3. Masked(t, mask) \o w = Masked(s, mask) \o (<<e>> \o w)
        BY <2>7, <4>1, <4>2, ConcatAssociative
      <4>4. Masked(Places(t), other) = Masked(Places(s), other) BY <2>6, <3>1, <3>4
      <4>5. s \o (<<e>> \o w) = t \o w BY <2>2, <4>1, ConcatAssociative
      <4> QED BY <3>3, <4>1, <4>3, <4>4, <4>5
    <3>5. CASE mask[n + 1] # 1
      <4>1. Masked(t, mask) = Masked(s, mask) BY <2>3, <3>5
      <4>2. Masked(Places(t), other) = Append(Masked(Places(s), other), E[n + 1])
        BY <2>6, <3>1, <3>5
      <4>3. AddErrorList(Masked(t, mask) \o w, Masked(Places(t), other)) =
              InsertAt(AddErrorList(Masked(s, mask) \o w, Masked(Places(s), other)),
                       E[n + 1].at, E[n + 1].error)
        BY <2>4, <2>7, <4>1, <4>2, AddErrorListAppend
      <4>4. E[n + 1].at = n + 1 /\ E[n + 1].error = e BY <3>1, <3>5
      <4>5. InsertAt(s \o w, n + 1, e) = t \o w
        <5> DEFINE u == s \o w
        <5>1. u = s \o w OBVIOUS
        <5> HIDE DEF u, A, P
        <5>2. SubSeq(u, 1, (n + 1) - 1) = s /\ SubSeq(u, n + 1, Len(u)) = w BY <5>1, Pieces
        <5>3. InsertAt(u, n + 1, e) = (s \o <<e>>) \o w BY Zenon, <5>2 DEF InsertAt
        <5> QED BY Zenon, <2>2, <5>1, <5>3
      <4> QED BY <3>3, <4>3, <4>4, <4>5
    <3> QED BY <3>4, <3>5
  <2>9. P(t) BY <2>8
  <2> HIDE DEF P
  <2> QED BY <2>1, <2>9 DEF t
<1>3. \A s \in Seq(T) : s \in A
  <2> HIDE DEF A
  <2> QED BY <1>1, <1>2, SeqInduction
<1>4. H(full) OBVIOUS
<1>5. <<>> \in Seq(T) OBVIOUS
<1>6. AddErrorList(Masked(full, mask) \o <<>>, Masked(Places(full), other)) = full \o <<>>
  <2> HIDE DEF H, Places
  <2> QED BY <1>3, <1>4, <1>5
<1>7. Masked(full, mask) \o <<>> = Masked(full, mask) /\ full \o <<>> = full
  BY MaskedRange, ConcatEmptySeq
<1> QED BY <1>6, <1>7

(* What request r gets when the requests rs have new text.                 *)
Result(rs) ==
    [r \in Ids |-> IF request[r].bad THEN Item("error", r, 0)
                   ELSE IF r \in rs THEN Item("chunk", r, Len(sent[r]) + 1) ELSE None]

(* The requests of the batch that encode, and no others.                   *)
LEMMA GoodRequests ==
    ASSUME batch \in Seq(Ids)
    PROVE  /\ Good \in Seq(Ids) /\ Len(Good) <= Len(batch)
           /\ \A r \in Ids : r \in Range(Good) <=> InBatch(r) /\ ~request[r].bad
           /\ \A k \in 1..Len(Good) : ~request[Good[k]].bad
<1>1. \A i \in 1..Len(batch) : Encodes[i] = 1 <=> ~request[batch[i]].bad BY DEF Encodes
<1>2. Good \in Seq(Ids) /\ Len(Good) <= Len(batch) BY MaskedRange DEF Good
<1>3. /\ \A k \in 1..Len(Good) : \E i \in 1..Len(batch) : Encodes[i] = 1 /\ batch[i] = Good[k]
      /\ \A i \in 1..Len(batch) : Encodes[i] = 1 => \E k \in 1..Len(Good) : Good[k] = batch[i]
  <2> DEFINE sel == Good
             m == Encodes
  <2>1. sel = Masked(batch, m) BY DEF Good
  <2> HIDE DEF sel, m
  <2>2. /\ \A k \in 1..Len(sel) : \E i \in 1..Len(batch) : m[i] = 1 /\ batch[i] = sel[k]
        /\ \A i \in 1..Len(batch) : m[i] = 1 => \E k \in 1..Len(sel) : sel[k] = batch[i]
    BY <2>1, MaskedHas, SMTT(30)
  <2> QED BY <2>2 DEF sel, m
<1>4. \A r : r \in Range(Good) <=> \E k \in 1..Len(Good) : Good[k] = r
  <2>1. Range(Good) = {Good[k] : k \in 1..Len(Good)} BY <1>2, RangeEquality
  <2> QED BY <2>1
<1>5. \A k \in 1..Len(Good) : ~request[Good[k]].bad BY <1>1, <1>3
<1>6. ASSUME NEW r \in Ids PROVE r \in Range(Good) <=> InBatch(r) /\ ~request[r].bad
  <2> DEFINE g == Good
  <2>1. ASSUME NEW k \in 1..Len(g), g[k] = r PROVE InBatch(r) /\ ~request[r].bad
    <3>1. PICK i \in 1..Len(batch) : Encodes[i] = 1 /\ batch[i] = Good[k] BY <1>3
    <3>2. batch[i] = r BY <2>1, <3>1
    <3>3. ~request[r].bad BY <1>1, <3>1, <3>2
    <3> QED BY <3>1, <3>2, <3>3 DEF InBatch
  <2>2. ASSUME InBatch(r), ~request[r].bad PROVE \E k \in 1..Len(g) : g[k] = r
    BY <1>1, <1>3, <2>2 DEF InBatch
  <2>3. r \in Range(g) <=> \E k \in 1..Len(g) : g[k] = r BY <1>4
  <2> HIDE DEF g
  <2>4. r \in Range(g) <=> InBatch(r) /\ ~request[r].bad BY <2>1, <2>2, <2>3
  <2> QED BY <2>4 DEF g
<1> QED BY <1>2, <1>5, <1>6

(* Whatever does not encode, every request of the batch gets its own       *)
(* result.                                                                 *)
LEMMA OutputsByRequest ==
    ASSUME batch \in Seq(Ids), NEW rs
    PROVE  Outputs(rs) = [i \in 1..Len(batch) |-> Result(rs)[batch[i]]]
<1> DEFINE F == Result(rs)
           T == {F[r] : r \in Ids}
           n == Len(batch)
           full == [i \in 1..n |-> F[batch[i]]]
           E == [i \in 1..n |-> [at |-> i, error |-> Item("error", batch[i], 0)]]
<1>1. n \in Nat /\ \A i \in 1..n : batch[i] \in Ids BY LenFacts
<1>2. F \in [Ids -> T] BY DEF Result
<1>3. /\ \A r \in Ids : request[r].bad => F[r] = Item("error", r, 0)
      /\ \A r \in Ids : ~request[r].bad =>
            F[r] = IF r \in rs THEN Item("chunk", r, Len(sent[r]) + 1) ELSE None
  BY DEF Result
<1> HIDE DEF F, T
<1>4. full \in Seq(T) /\ Len(full) = n BY <1>1, <1>2
<1>5. ASSUME NEW i \in 1..Len(full)
      PROVE  /\ Encodes[i] = 1 <=> Fails[i] # 1
             /\ E[i].at = i
             /\ Fails[i] = 1 => E[i].error = full[i]
  <2>1. i \in 1..n /\ batch[i] \in Ids BY <1>1, <1>4
  <2>2. Encodes[i] = 1 <=> Fails[i] # 1 BY <2>1 DEF Encodes, Fails
  <2>3. E[i].at = i /\ E[i].error = Item("error", batch[i], 0) BY <2>1
  <2>4. Fails[i] = 1 => request[batch[i]].bad BY <2>1 DEF Fails
  <2>5. full[i] = F[batch[i]] BY <2>1
  <2> QED BY <1>3, <2>1, <2>2, <2>3, <2>4, <2>5
<1>6. AddErrorList(Masked(full, Encodes), Masked([i \in 1..Len(full) |-> E[i]], Fails)) = full
  <2> HIDE DEF full, E
  <2> QED BY <1>4, <1>5, InsertedAtPlaces
<1>7. Masked([i \in 1..Len(full) |-> E[i]], Fails) = ErrorList
  <2>1. [i \in 1..Len(full) |-> E[i]] = E BY <1>4
  <2> HIDE DEF full, E
  <2> QED BY <2>1 DEF ErrorList, E
<1>8. Masked(full, Encodes) = [i \in 1..Len(Good) |-> F[Good[i]]]
  <2> DEFINE m == Encodes
  <2> HIDE DEF m
  <2>1. Masked(Mapped(F, batch), m) = Mapped(F, Masked(batch, m)) BY MaskedMap
  <2> QED BY <2>1 DEF Good, m, Mapped
<1>9. \A i \in 1..Len(Good) : F[Good[i]] = IF Good[i] \in rs
                                           THEN Item("chunk", Good[i], Len(sent[Good[i]]) + 1)
                                           ELSE None
  <2>1. \A i \in 1..Len(Good) : Good[i] \in Ids /\ ~request[Good[i]].bad
    BY GoodRequests, LenFacts
  <2> QED BY <1>3, <2>1
<1>10. Outputs(rs) = AddErrorList([i \in 1..Len(Good) |-> F[Good[i]]], ErrorList)
  BY <1>9 DEF Outputs
<1> HIDE DEF full
<1>11. Outputs(rs) = full BY <1>6, <1>7, <1>8, <1>10
<1> QED BY <1>11 DEF full, F

(* Delivery, request by request.                                           *)
LEMMA DeliverByRequest ==
    ASSUME batch \in Seq(Ids), NEW F, Deliver([i \in 1..Len(batch) |-> F[batch[i]]])
    PROVE  outbox' = [r \in Ids |-> IF InBatch(r) THEN Append(outbox[r], F[r]) ELSE outbox[r]]
<1> DEFINE res == [i \in 1..Len(batch) |-> F[batch[i]]]
           At(r) == {i \in 1..Len(batch) : batch[i] = r}
<1>1. outbox' = [r \in Ids |-> IF At(r) = {} THEN outbox[r]
                               ELSE Append(outbox[r], res[CHOOSE i \in At(r) : TRUE])]
  BY DEF Deliver
<1>2. ASSUME NEW r \in Ids
      PROVE  (IF At(r) = {} THEN outbox[r] ELSE Append(outbox[r], res[CHOOSE i \in At(r) : TRUE]))
               = IF InBatch(r) THEN Append(outbox[r], F[r]) ELSE outbox[r]
  <2>1. At(r) = {} <=> ~InBatch(r) BY DEF InBatch
  <2>2. ASSUME At(r) # {} PROVE res[CHOOSE i \in At(r) : TRUE] = F[r]
    <3>1. (CHOOSE i \in At(r) : TRUE) \in At(r) BY <2>2
    <3> DEFINE c == CHOOSE i \in At(r) : TRUE
    <3>2. c \in 1..Len(batch) /\ batch[c] = r BY <3>1
    <3> HIDE DEF c, At
    <3>3. res[c] = F[r] BY <3>2
    <3> QED BY <3>3 DEF c
  <2> HIDE DEF At, res
  <2> QED BY <2>1, <2>2
<1> HIDE DEF At, res
<1> QED BY <1>1, <1>2

-----------------------------------------------------------------------------
(* The text on an asyncio queue.                                           *)

(* The text of a queue to which an item was added.                         *)
LEMMA TextAppend ==
    ASSUME NEW S, NEW q \in Seq(S), NEW x \in S
    PROVE  /\ Text(<<>>) = <<>> /\ Text(q) \in Seq(S)
           /\ Text(Append(q, x)) = IF x = None THEN Text(q) ELSE Append(Text(q), x)
<1> DEFINE M(p) == [i \in 1..Len(p) |-> IF p[i] = None THEN 0 ELSE 1]
           t == Append(q, x)
           n == Len(q)
<1>1. Text(<<>>) = <<>> BY MaskedEmpty DEF Text
<1>2. /\ t \in Seq(S) /\ Len(t) = n + 1 /\ n \in Nat /\ t[n + 1] = x
      /\ \A i \in 1..n : t[i] = q[i]
  BY AppendFacts
<1>3. Text(q) \in Seq(S) BY MaskedRange DEF Text
<1> HIDE DEF t
<1>4. M(t)[n + 1] = (IF x = None THEN 0 ELSE 1) /\ \A i \in 1..n : M(t)[i] = M(q)[i]
  <2>1. n + 1 \in 1..Len(t) /\ \A i \in 1..n : i \in 1..Len(t) BY <1>2
  <2> QED BY <1>2, <2>1
<1> HIDE DEF M
<1>5. Masked(t, M(t)) = IF M(t)[n + 1] = 1 THEN Append(Masked(q, M(t)), x) ELSE Masked(q, M(t))
  BY MaskedAppend DEF t
<1>6. Masked(q, M(t)) = Masked(q, M(q)) BY <1>4, MaskedAgrees
<1>7. Text(t) = Masked(t, M(t)) /\ Text(q) = Masked(q, M(q)) BY DEF Text, M
<1> QED BY <1>1, <1>3, <1>4, <1>5, <1>6, <1>7 DEF t

(* The text of a queue from which an item is taken.                        *)
LEMMA TextTail ==
    ASSUME NEW S, NEW q \in Seq(S), q # <<>>
    PROVE  /\ Text(Tail(q)) \in Seq(S)
           /\ Text(q) = IF Head(q) = None THEN Text(Tail(q)) ELSE <<Head(q)>> \o Text(Tail(q))
<1> DEFINE P(s) == s # <<>> =>
                     Text(s) = IF Head(s) = None THEN Text(Tail(s))
                               ELSE <<Head(s)>> \o Text(Tail(s))
           A == {s \in Seq(S) : P(s)}
<1>1. <<>> \in A OBVIOUS
<1>2. ASSUME NEW s \in Seq(S), NEW e \in S, s \in A PROVE Append(s, e) \in A
  <2> DEFINE t == Append(s, e)
  <2>1. t \in Seq(S) BY AppendFacts
  <2>2. Text(t) = IF e = None THEN Text(s) ELSE Append(Text(s), e) BY TextAppend
  <2>3. /\ Head(t) = IF s = <<>> THEN e ELSE Head(s)
        /\ Tail(t) = IF s = <<>> THEN <<>> ELSE Append(Tail(s), e)
    BY HeadTailAppend
  <2>4. Text(<<>>) = <<>> BY TextAppend
  <2> HIDE DEF t
  <2>5. CASE s = <<>>
    <3>1. Append(<<>>, e) = <<e>> /\ <<e>> \o <<>> = <<e>> OBVIOUS
    <3> QED BY <2>1, <2>2, <2>3, <2>4, <2>5, <3>1 DEF t
  <2>6. CASE s # <<>>
    <3> DEFINE u == Tail(s)
               h == Head(s)
    <3>1. u \in Seq(S) /\ h \in S BY <2>6, TailFacts
    <3>2. Text(s) = IF h = None THEN Text(u) ELSE <<h>> \o Text(u) BY <1>2, <2>6
    <3>3. Head(t) = h /\ Tail(t) = Append(u, e) BY <2>3, <2>6
    <3> HIDE DEF u, h
    <3>4. Text(u) \in Seq(S) /\ Text(Append(u, e)) = IF e = None THEN Text(u)
                                                     ELSE Append(Text(u), e)
      BY <3>1, TextAppend
    <3>5. <<h>> \in Seq(S) BY <3>1
    <3>6. <<h>> \o Append(Text(u), e) = Append(<<h>> \o Text(u), e) BY <3>4, <3>5, ConcatAppend
    <3>7. Text(t) = IF h = None THEN Text(Tail(t)) ELSE <<h>> \o Text(Tail(t))
      <4>1. CASE h = None BY <2>2, <3>2, <3>3, <3>4, <4>1
      <4>2. CASE h # None BY <2>2, <3>2, <3>3, <3>4, <3>6, <4>2
      <4> QED BY <4>1, <4>2
    <3> QED BY <2>1, <3>3, <3>7 DEF t
  <2> QED BY <2>5, <2>6
<1>3. \A s \in Seq(S) : s \in A
  <2> HIDE DEF A
  <2> QED BY <1>1, <1>2, SeqInduction
<1>4. Tail(q) \in Seq(S) BY TailFacts
<1>5. Text(Tail(q)) \in Seq(S)
  <2> DEFINE u == Tail(q)
  <2>1. u \in Seq(S) BY <1>4
  <2> HIDE DEF u
  <2>2. Text(u) \in Seq(S) BY <2>1, MaskedRange DEF Text
  <2> QED BY <2>2 DEF u
<1> QED BY <1>3, <1>5

-----------------------------------------------------------------------------
(* What a running batch hands out.                                         *)

(* The requests of a running batch were submitted with its request_config, *)
(* and their next chunk has a number within the bound.                     *)
LEMMA BatchFacts ==
    ASSUME IInv, thread \in {"infer", "stream", "stop"}
    PROVE  /\ kwargs \in Kwargs /\ batch \in Seq(Ids)
           /\ \A r \in Ids : InBatch(r) =>
                 /\ r \in 1..Len(request) /\ request[r] \in Request
                 /\ request[r].config = kwargs.config
                 /\ <<request[r].config, kwargs.adapter>> \in NamedWith
                 /\ sent[r] \in Seq(Items) /\ Len(sent[r]) \in Nat
                 /\ thread # "stop" => Len(sent[r]) + 1 \in 0..(MaxChunks + 1)
<1>1. kwargs \in Kwargs /\ batch \in Seq(Ids) BY DEF IInv, BatchOfConfig, Types
<1>2. ASSUME NEW r \in Ids, InBatch(r)
      PROVE  /\ r \in 1..Len(request) /\ request[r] \in Request
             /\ request[r].config = kwargs.config
             /\ <<request[r].config, kwargs.adapter>> \in NamedWith
             /\ sent[r] \in Seq(Items) /\ Len(sent[r]) \in Nat
             /\ thread # "stop" => Len(sent[r]) + 1 \in 0..(MaxChunks + 1)
  <2>1. PICK i \in 1..Len(batch) : batch[i] = r BY <1>2 DEF InBatch
  <2>2. r <= Len(request) BY <1>2 DEF IInv, Submitted, Pending
  <2>3. request \in Seq(Request) /\ r \in Nat /\ r >= 1 BY EngineAssumption DEF IInv, Types, Ids
  <2>4. r \in 1..Len(request) /\ request[r] \in Request
    <3>1. Len(request) \in Nat BY <2>3, LenFacts
    <3>2. r \in 1..Len(request) BY <2>2, <2>3, <3>1
    <3> QED BY <2>3, <3>2, LenFacts
  <2>5. /\ request[r].config = kwargs.config
        /\ <<request[r].config, kwargs.adapter>> \in NamedWith
    BY <2>1 DEF IInv, BatchOfConfig
  <2>6. sent[r] \in Seq(Items) BY DEF IInv, Types
  <2>7. Len(sent[r]) \in Nat BY <2>6, LenFacts
  <2>8. chunks \in 0..MaxChunks /\ MaxChunks \in Nat BY EngineAssumption DEF IInv, Types
  <2>9. CASE thread = "infer"
    <3>1. sent[r] = <<>> BY <2>1, <2>9 DEF IInv, NotYet
    <3>2. Len(sent[r]) = 0 BY <2>6, <3>1, LenFacts
    <3> QED BY <2>4, <2>5, <2>6, <2>8, <3>2
  <2>10. CASE thread = "stream"
    <3>1. Len(sent[r]) <= chunks BY <2>1, <2>10 DEF IInv, NotYet
    <3> QED BY <2>4, <2>5, <2>6, <2>7, <2>8, <3>1
  <2>11. CASE thread = "stop" BY <2>4, <2>5, <2>6, <2>7, <2>11
  <2> QED BY <2>9, <2>10, <2>11
<1> QED BY <1>1, <1>2

(* The result of a request of the batch is right for it, and is text       *)
(* exactly if there is new text for it.                                    *)
LEMMA ResultFacts ==
    ASSUME IInv, thread \in {"infer", "stream"}, NEW rs, NEW r \in Ids, InBatch(r)
    PROVE  /\ Result(rs)[r] \in Items \cup {None}
           /\ Result(rs)[r] = None <=> (~request[r].bad /\ r \notin rs)
           /\ Result(rs)[r] # None => Fits(r, Result(rs)[r])
           /\ (~request[r].bad /\ r \in rs) =>
                 Result(rs)[r] = Item("chunk", r, Len(sent[r]) + 1)
<1> DEFINE n == Len(sent[r]) + 1
<1>1. /\ kwargs \in Kwargs /\ request[r] \in Request /\ request[r].config = kwargs.config
      /\ <<request[r].config, kwargs.adapter>> \in NamedWith
      /\ n \in 0..(MaxChunks + 1)
  BY BatchFacts
<1>2. 0 \in 0..(MaxChunks + 1) BY EngineAssumption
<1>3. kwargs.config \in Configs /\ kwargs.adapter \in Adapters BY <1>1 DEF Kwargs
<1>4. ASSUME NEW k \in {"chunk", "error"}, NEW m \in 0..(MaxChunks + 1)
      PROVE  /\ Item(k, r, m) \in Items /\ Item(k, r, m) # None
             /\ Item(k, r, m).kind = k /\ Item(k, r, m).of = r
             /\ Item(k, r, m).config = kwargs.config
             /\ Item(k, r, m).adapter = kwargs.adapter
  <2>1. Item(k, r, m) \in Items BY <1>3, <1>4 DEF Items, Item
  <2>2. Item(k, r, m).kind = k /\ None.kind = "none" BY DEF Item, None
  <2> QED BY <2>1, <2>2 DEF Item
<1>5. Result(rs)[r] = IF request[r].bad THEN Item("error", r, 0)
                      ELSE IF r \in rs THEN Item("chunk", r, n) ELSE None
  BY DEF Result
<1> HIDE DEF n
<1>6. request[r].bad \in BOOLEAN BY <1>1 DEF Request
<1>7. CASE request[r].bad
  <2>1. Result(rs)[r] = Item("error", r, 0) BY <1>5, <1>7
  <2>2. Fits(r, Item("error", r, 0)) BY <1>1, <1>2, <1>4, <1>7 DEF Fits
  <2> QED BY <1>2, <1>4, <1>7, <2>1, <2>2
<1>8. CASE ~request[r].bad /\ r \in rs
  <2>1. Result(rs)[r] = Item("chunk", r, n) BY <1>5, <1>8
  <2>2. Fits(r, Item("chunk", r, n)) BY <1>1, <1>4, <1>8 DEF Fits
  <2> QED BY <1>1, <1>4, <1>8, <2>1, <2>2 DEF n
<1>9. CASE ~request[r].bad /\ r \notin rs
  <2>1. Result(rs)[r] = None BY <1>5, <1>9
  <2> QED BY <1>9, <2>1
<1> QED BY <1>7, <1>8, <1>9

(* The queues and the texts after a round in which rs have new text.       *)
LEMMA RoundFacts ==
    ASSUME IInv, thread \in {"infer", "stream"}, NEW rs, rs \subseteq Range(Good),
           Deliver(Outputs(rs)), Generated(rs), request' = request, got' = got
    PROVE  /\ outbox' = [r \in Ids |-> IF InBatch(r) THEN Append(outbox[r], Result(rs)[r])
                                       ELSE outbox[r]]
           /\ outbox' \in [Ids -> Seq(Items \cup {None})]
           /\ sent' \in [Ids -> Seq(Items)]
           /\ \A r \in Ids : r \in rs => InBatch(r) /\ ~request[r].bad
           /\ \A r \in Ids : ~InBatch(r) => outbox'[r] = outbox[r] /\ sent'[r] = sent[r]
           /\ \A r \in Ids : InBatch(r) => Len(sent'[r]) <= Len(sent[r]) + 1
           /\ NothingLost'
<1>1. kwargs \in Kwargs /\ batch \in Seq(Ids) BY BatchFacts
<1>2. /\ outbox \in [Ids -> Seq(Items \cup {None})] /\ sent \in [Ids -> Seq(Items)]
      /\ got \in [Ids -> Seq(Items)]
  BY DEF IInv, Types
<1>3. outbox' = [r \in Ids |-> IF InBatch(r) THEN Append(outbox[r], Result(rs)[r])
                               ELSE outbox[r]]
  <2> DEFINE F == Result(rs)
  <2>1. Deliver([i \in 1..Len(batch) |-> F[batch[i]]]) BY <1>1, OutputsByRequest
  <2> HIDE DEF F
  <2>2. outbox' = [r \in Ids |-> IF InBatch(r) THEN Append(outbox[r], F[r]) ELSE outbox[r]]
    BY <1>1, <2>1, DeliverByRequest
  <2> QED BY <2>2 DEF F
<1>4. ASSUME NEW r \in Ids, r \in rs PROVE InBatch(r) /\ ~request[r].bad
  BY <1>1, <1>4, GoodRequests
<1>5. sent' = [r \in Ids |-> IF r \in rs THEN Append(sent[r], Item("chunk", r, Len(sent[r]) + 1))
                             ELSE sent[r]]
  BY DEF Generated
<1>6. ASSUME NEW r \in Ids
      PROVE  /\ outbox'[r] = IF InBatch(r) THEN Append(outbox[r], Result(rs)[r]) ELSE outbox[r]
             /\ sent'[r] = IF r \in rs THEN Append(sent[r], Item("chunk", r, Len(sent[r]) + 1))
                           ELSE sent[r]
  BY <1>3, <1>5
<1>7. ASSUME NEW r \in Ids
      PROVE  /\ outbox'[r] \in Seq(Items \cup {None}) /\ sent'[r] \in Seq(Items)
             /\ Len(sent'[r]) <= Len(sent[r]) + 1
  <2>1. outbox[r] \in Seq(Items \cup {None}) /\ sent[r] \in Seq(Items) BY <1>2
  <2>2. outbox'[r] \in Seq(Items \cup {None})
    <3>1. CASE InBatch(r)
      <4> DEFINE x == Result(rs)[r]
      <4>1. x \in Items \cup {None} BY <3>1, ResultFacts
      <4>2. outbox'[r] = Append(outbox[r], x) BY <1>6, <3>1
      <4> HIDE DEF x
      <4> QED BY <2>1, <4>1, <4>2, AppendFacts
    <3>2. CASE ~InBatch(r) BY <1>6, <2>1, <3>2
    <3> QED BY <3>1, <3>2
  <2>3. sent'[r] \in Seq(Items) /\ Len(sent'[r]) <= Len(sent[r]) + 1
    <3>0. Len(sent[r]) \in Nat BY <2>1, LenFacts
    <3>1. CASE r \in rs
      <4> DEFINE x == Item("chunk", r, Len(sent[r]) + 1)
      <4>1. x \in Items
        <5>1. InBatch(r) /\ ~request[r].bad BY <1>4, <3>1
        <5>2. Result(rs)[r] = x /\ Result(rs)[r] # None /\ Result(rs)[r] \in Items \cup {None}
          BY <3>1, <5>1, ResultFacts
        <5> QED BY <5>2
      <4>2. sent'[r] = Append(sent[r], x) BY <1>6, <3>1
      <4> HIDE DEF x
      <4>3. Append(sent[r], x) \in Seq(Items) /\ Len(Append(sent[r], x)) = Len(sent[r]) + 1
        BY <2>1, <4>1, AppendFacts
      <4> QED BY <3>0, <4>2, <4>3
    <3>2. CASE r \notin rs BY <1>6, <2>1, <3>0, <3>2
    <3> QED BY <3>1, <3>2
  <2> QED BY <2>2, <2>3
<1>8. outbox' \in [Ids -> Seq(Items \cup {None})] BY <1>3, <1>7
<1>9. sent' \in [Ids -> Seq(Items)] BY <1>5, <1>7
<1>10. \A r \in Ids : ~InBatch(r) => outbox'[r] = outbox[r] /\ sent'[r] = sent[r] BY <1>4, <1>6
<1>11. NothingLost'
  <2>1. SUFFICES ASSUME NEW r \in 1..Len(request), ~request[r].bad
                 PROVE  got[r] \o Text(outbox'[r]) = sent'[r]
    BY Zenon DEF NothingLost, Text, None
  <2>2. r \in Ids
    <3>1. Len(request) \in Nat /\ Len(request) <= NumRequests BY LenFacts DEF IInv, Types
    <3> QED BY <3>1, EngineAssumption DEF Ids
  <2>3. got[r] \o Text(outbox[r]) = sent[r] BY <2>1 DEF IInv, NothingLost
  <2>4. /\ outbox[r] \in Seq(Items \cup {None}) /\ sent[r] \in Seq(Items)
        /\ got[r] \in Seq(Items \cup {None})
    <3>1. got[r] \in Seq(Items) BY <1>2, <2>2
    <3>2. got[r] \in Seq(Items \cup {None}) BY <3>1
    <3> QED BY <1>2, <2>2, <3>2
  <2>5. CASE InBatch(r)
    <3> DEFINE x == Result(rs)[r]
    <3>1. /\ x \in Items \cup {None} /\ (x = None <=> r \notin rs)
          /\ r \in rs => x = Item("chunk", r, Len(sent[r]) + 1)
      <4>1. /\ x \in Items \cup {None} /\ (x = None <=> (~request[r].bad /\ r \notin rs))
            /\ (~request[r].bad /\ r \in rs) => x = Item("chunk", r, Len(sent[r]) + 1)
        BY <2>2, <2>5, ResultFacts
      <4> HIDE DEF x
      <4> QED BY <2>1, <4>1
    <3>2. outbox'[r] = Append(outbox[r], x) BY <1>6, <2>2, <2>5
    <3>3. sent'[r] = IF x = None THEN sent[r] ELSE Append(sent[r], x) BY <1>6, <2>2, <3>1
    <3> HIDE DEF x
    <3>4. /\ Text(outbox[r]) \in Seq(Items \cup {None})
          /\ Text(Append(outbox[r], x)) = IF x = None THEN Text(outbox[r])
                                          ELSE Append(Text(outbox[r]), x)
      BY <2>4, <3>1, TextAppend
    <3>5. got[r] \o Append(Text(outbox[r]), x) = Append(got[r] \o Text(outbox[r]), x)
      <4> DEFINE B == Items \cup {None}
                 u == Text(outbox[r])
                 g == got[r]
      <4>1. u \in Seq(B) /\ x \in B /\ g \in Seq(B) BY <2>4, <3>1, <3>4
      <4> HIDE DEF B, u, g
      <4>2. g \o Append(u, x) = Append(g \o u, x) BY <4>1, ConcatAppend
      <4> QED BY <4>2 DEF u, g
    <3> QED BY <2>3, <3>2, <3>3, <3>4, <3>5
  <2>6. CASE ~InBatch(r) BY <1>10, <2>2, <2>3, <2>6
  <2> QED BY <2>5, <2>6
<1> QED BY <1>3, <1>4, <1>7, <1>8, <1>9, <1>10, <1>11

-----------------------------------------------------------------------------
(* How the worker moves a request.                                         *)

(* PoolRequest adds request r to entry k, which may be new.                *)
AddedTo(k, r) ==
    /\ k \in 1..Len(pool') /\ Len(pool) \in Nat /\ Len(pool') \in Nat
    /\ \A l \in 1..Len(pool) : l \in 1..Len(pool')
    /\ \A l \in 1..Len(pool') : l # k => l \in 1..Len(pool) /\ pool'[l] = pool[l]
    /\ pool'[k].key = PoolKey(r) /\ pool'[k].kwargs.config = PoolKey(r)
    /\ IF k \in 1..Len(pool)
       THEN /\ pool[k].key = PoolKey(r) /\ pool'[k].data = Append(pool[k].data, r)
            /\ pool'[k].kwargs = pool[k].kwargs
       ELSE /\ \A l \in 1..Len(pool) : pool[l].key # PoolKey(r)
            /\ pool'[k].data = <<r>> /\ pool'[k].kwargs.adapter = request[r].adapter

(* So it does, and the request leaves the queue.                           *)
LEMMA PoolRequestFacts ==
    ASSUME IInv, PoolRequest
    PROVE  /\ inbox # <<>> /\ Head(inbox) \in Ids /\ Head(inbox) \in 1..Len(request)
           /\ inbox' = Tail(inbox)
           /\ pool' \in Seq(Entry)
           /\ \E k : AddedTo(k, Head(inbox))
<1> DEFINE r == Head(inbox)
           known == {i \in 1..Len(pool) : pool[i].key = PoolKey(r)}
           new == [key |-> PoolKey(r),
                   kwargs |-> [config |-> request[r].config, adapter |-> request[r].adapter],
                   data |-> <<r>>]
<1>1. /\ inbox \in Seq(Ids) /\ pool \in Seq(Entry) /\ request \in Seq(Request)
      /\ Len(pool) \in Nat /\ Len(request) \in Nat
  <2>1. inbox \in Seq(Ids) /\ pool \in Seq(Entry) /\ request \in Seq(Request) BY DEF IInv, Types
  <2> QED BY <2>1, LenFacts
<1>2. inbox # <<>> /\ inbox' = Tail(inbox) BY DEF PoolRequest
<1>3. r \in Ids /\ Len(inbox) >= 1 /\ inbox[1] = r BY <1>1, <1>2, TailFacts
<1>4. r \in 1..Len(request) /\ request[r] \in Request
  <2>1. InInbox(r) BY <1>3, LenFacts, <1>1 DEF InInbox
  <2>2. r <= Len(request) BY <1>3, <2>1 DEF IInv, Submitted, Pending
  <2>3. r \in 1..Len(request) BY <1>1, <1>3, <2>2, EngineAssumption DEF Ids
  <2> QED BY <1>1, <2>3, LenFacts
<1>5. pool' = IF known = {} THEN Append(pool, new)
              ELSE [i \in 1..Len(pool) |->
                      IF i \in known THEN [pool[i] EXCEPT !.data = Append(@, r)] ELSE pool[i]]
  BY DEF PoolRequest
<1>6. /\ new \in Entry /\ new.key = PoolKey(r) /\ new.kwargs.config = PoolKey(r) /\ new.data = <<r>>
      /\ new.kwargs.adapter = request[r].adapter
  <2>1. <<r>> \in Seq(Ids) BY <1>3
  <2>2. request[r].config \in Configs /\ request[r].adapter \in Adapters BY <1>4 DEF Request
  <2> QED BY <2>1, <2>2 DEF Entry, Kwargs, PoolKey
<1>7. \A l \in 1..Len(pool) : pool[l] \in Entry BY <1>1, LenFacts
<1>8. pool' \in Seq(Entry) /\ \E k : AddedTo(k, r)
  <2>1. CASE known = {}
    <3> DEFINE k == Len(pool) + 1
    <3>1. pool' = Append(pool, new) BY <1>5, <2>1
    <3>2. \A l \in 1..Len(pool) : pool[l].key # PoolKey(r) BY <2>1
    <3> HIDE DEF new, known
    <3>3. /\ pool' \in Seq(Entry) /\ Len(pool') = k /\ pool'[k] = new
          /\ \A l \in 1..Len(pool) : pool'[l] = pool[l]
      BY <1>1, <1>6, <3>1, AppendFacts
    <3>4. k \in 1..Len(pool') /\ k \notin 1..Len(pool) BY <1>1, <3>3
    <3>5. /\ \A l \in 1..Len(pool) : l \in 1..Len(pool')
          /\ \A l \in 1..Len(pool') : l # k => l \in 1..Len(pool)
      BY <1>1, <3>3
    <3>6. AddedTo(k, r)
      <4> HIDE DEF k, r
      <4> QED BY <1>1, <1>6, <3>2, <3>3, <3>4, <3>5 DEF AddedTo, k
    <3> QED BY <3>3, <3>6
  <2>2. CASE known # {}
    <3>1. PICK k \in 1..Len(pool) : pool[k].key = PoolKey(r) BY <2>2
    <3>2. \A l \in 1..Len(pool) : l \in known <=> l = k
      BY <3>1 DEF IInv, PoolOfKeys
    <3>3. pool' = [i \in 1..Len(pool) |->
                     IF i \in known THEN [pool[i] EXCEPT !.data = Append(@, r)] ELSE pool[i]]
      BY <1>5, <2>2
    <3> HIDE DEF known
    <3>4. /\ pool'[k] = [pool[k] EXCEPT !.data = Append(@, r)]
          /\ \A l \in 1..Len(pool) : l # k => pool'[l] = pool[l]
      BY <3>2, <3>3
    <3>5. /\ [pool[k] EXCEPT !.data = Append(@, r)] \in Entry
          /\ pool'[k].key = PoolKey(r) /\ pool'[k].kwargs = pool[k].kwargs
          /\ pool'[k].data = Append(pool[k].data, r)
      <4>1. pool[k] \in Entry BY <1>7
      <4>2. pool[k].data \in Seq(Ids) BY <4>1 DEF Entry
      <4>3. Append(pool[k].data, r) \in Seq(Ids) BY <1>3, <4>2, AppendFacts
      <4> HIDE DEF r
      <4> QED BY <3>1, <3>4, <4>1, <4>3 DEF Entry
    <3>6. \A l \in 1..Len(pool) : pool'[l] \in Entry BY <1>7, <3>4, <3>5
    <3>7. pool' \in Seq(Entry) /\ Len(pool') = Len(pool)
      <4>1. pool' = [i \in 1..Len(pool) |-> pool'[i]] BY <3>3
      <4>2. [i \in 1..Len(pool) |-> pool'[i]] \in Seq(Entry) BY <1>1, <3>6
      <4>3. Len([i \in 1..Len(pool) |-> pool'[i]]) = Len(pool) BY <1>1
      <4> QED BY Zenon, <4>1, <4>2, <4>3
    <3>8. pool[k].kwargs.config = PoolKey(r) BY <3>1 DEF IInv, PoolOfKeys
    <3>9. AddedTo(k, r)
      <4> HIDE DEF r
      <4> QED BY <1>1, <3>1, <3>4, <3>5, <3>7, <3>8 DEF AddedTo
    <3> QED BY <3>7, <3>9
  <2> QED BY <2>1, <2>2
<1> QED BY <1>2, <1>3, <1>4, <1>8

(* FetchBatch takes the first n requests of the first entry, and the entry *)
(* with them if these were all it had (s = 1).                             *)
Offset(l, s, n) == IF s = 0 /\ l = 1 THEN n ELSE 0

TakenFrom(s, n) ==
    /\ s \in {0, 1} /\ n \in Nat
    /\ n >= 1 /\ pool # <<>> /\ n <= Len(pool[1].data)
    /\ max_batch_size > 0 => n <= max_batch_size
    /\ Len(batch') = n /\ \A i \in 1..n : batch'[i] = pool[1].data[i]
    /\ s = 0 => n < Len(pool[1].data)
    /\ Len(pool) \in Nat /\ Len(pool') = Len(pool) - s
    /\ \A l \in 1..Len(pool') :
          /\ l + s \in 1..Len(pool)
          /\ pool'[l].key = pool[l + s].key /\ pool'[l].kwargs = pool[l + s].kwargs
          /\ Len(pool'[l].data) = Len(pool[l + s].data) - Offset(l, s, n)
          /\ \A i \in 1..Len(pool'[l].data) :
                pool'[l].data[i] = pool[l + s].data[i + Offset(l, s, n)]

(* So it does.                                                             *)
LEMMA FetchBatchFacts ==
    ASSUME IInv, FetchBatch
    PROVE  /\ batch' \in Seq(Ids) /\ pool' \in Seq(Entry)
           /\ kwargs' = pool[1].kwargs /\ kwargs' \in Kwargs
           /\ \E s, n : TakenFrom(s, n)
<1> DEFINE data == pool[1].data
           limit == IF max_batch_size <= 0 THEN Len(data) ELSE max_batch_size
           size == IF limit < Len(data) THEN limit ELSE Len(data)
<1>1. pool \in Seq(Entry) /\ pool # <<>> BY DEF IInv, Types, FetchBatch
<1>2. Head(pool) = pool[1] /\ Len(pool) \in Nat /\ 1 \in 1..Len(pool) /\ pool[1] \in Entry
  BY <1>1, TailFacts
<1>3. data \in Seq(Ids) /\ pool[1].kwargs \in Kwargs BY <1>2 DEF Entry
<1>4. data # <<>> BY <1>2 DEF IInv, PoolOfKeys
<1>5. Len(data) \in Nat /\ Len(data) >= 1 BY <1>3, <1>4, LenFacts
<1>6. max_batch_size \in Int BY EngineAssumption DEF IInv, Types
<1>7. /\ batch' = SubSeq(data, 1, size) /\ kwargs' = pool[1].kwargs
      /\ pool' = IF size < Len(data) THEN [pool EXCEPT ![1].data = SubSeq(@, size + 1, Len(@))]
                 ELSE Tail(pool)
  BY Zenon, <1>2 DEF FetchBatch
<1>8. /\ size \in 1..Len(data) /\ size \in Nat
      /\ max_batch_size > 0 => size <= max_batch_size
  <2> HIDE DEF data
  <2> QED BY <1>5, <1>6
<1> HIDE DEF size
<1>9. /\ batch' \in Seq(Ids) /\ Len(batch') = size
      /\ \A i \in 1..size : batch'[i] = data[i]
  <2> HIDE DEF data
  <2>1. \A i \in 1..size : data[i] \in Ids BY <1>3, <1>8, LenFacts
  <2>2. SubSeq(data, 1, size) \in Seq(Ids) /\ Len(SubSeq(data, 1, size)) = size
    BY <1>8, <2>1, SubSeqProperties
  <2>3. \A i \in 1..size : SubSeq(data, 1, size)[i] = data[i] BY <1>8, <2>1, SubSeqProperties
  <2> QED BY <1>7, <2>2, <2>3
<1>10. CASE size < Len(data)
  <2> DEFINE rest == SubSeq(data, size + 1, Len(data))
  <2>1. pool' = [pool EXCEPT ![1] = [pool[1] EXCEPT !.data = rest]]
    BY <1>2, <1>7, <1>10
  <2>2. /\ rest \in Seq(Ids) /\ Len(rest) = Len(data) - size
        /\ \A i \in 1..Len(rest) : rest[i] = data[i + size]
    <3> HIDE DEF data
    <3>1. \A i \in (size + 1)..Len(data) : data[i] \in Ids BY <1>3, <1>8, LenFacts
    <3>2. /\ rest \in Seq(Ids) /\ Len(rest) = Len(data) - size
          /\ \A i \in 1..(Len(data) - (size + 1) + 1) : rest[i] = data[(size + 1) + i - 1]
      BY <1>5, <1>8, <1>10, <3>1, SubSeqProperties
    <3>3. ASSUME NEW i \in 1..Len(rest) PROVE rest[i] = data[i + size]
      <4>1. i \in 1..(Len(data) - (size + 1) + 1) /\ (size + 1) + i - 1 = i + size
        BY <1>5, <1>8, <3>2
      <4> QED BY <3>2, <4>1
    <3> QED BY <3>2, <3>3
  <2> HIDE DEF rest
  <2>3. /\ [pool[1] EXCEPT !.data = rest] \in Entry
        /\ [pool[1] EXCEPT !.data = rest].data = rest
        /\ [pool[1] EXCEPT !.data = rest].key = pool[1].key
        /\ [pool[1] EXCEPT !.data = rest].kwargs = pool[1].kwargs
    BY <1>2, <2>2 DEF Entry
  <2> DEFINE head == [pool[1] EXCEPT !.data = rest]
  <2> HIDE DEF head
  <2>4. /\ pool' \in Seq(Entry) /\ Len(pool') = Len(pool) /\ pool'[1] = head
        /\ \A l \in 1..Len(pool) : l # 1 => pool'[l] = pool[l]
    BY <1>1, <1>2, <2>1, <2>3, ExceptSeq DEF head
  <2>5. ASSUME NEW l \in 1..Len(pool')
        PROVE  /\ l + 0 \in 1..Len(pool)
               /\ pool'[l].key = pool[l + 0].key /\ pool'[l].kwargs = pool[l + 0].kwargs
               /\ Len(pool'[l].data) = Len(pool[l + 0].data) - Offset(l, 0, size)
               /\ \A i \in 1..Len(pool'[l].data) :
                     pool'[l].data[i] = pool[l + 0].data[i + Offset(l, 0, size)]
    <3>1. l + 0 = l /\ l \in 1..Len(pool) BY <2>4
    <3>2. CASE l = 1
      <4>1. Offset(l, 0, size) = size BY <3>2 DEF Offset
      <4>2. pool'[l].data = rest /\ pool'[l].key = pool[1].key /\ pool'[l].kwargs = pool[1].kwargs
        BY <2>3, <2>4, <3>2 DEF head
      <4>3. pool[l + 0] = pool[1] BY <3>2
      <4>4. l + 0 \in 1..Len(pool) BY <3>1
      <4> HIDE DEF TakenFrom, size
      <4> QED BY Zenon, <2>2, <4>1, <4>2, <4>3, <4>4
    <3>3. CASE l # 1
      <4>1. Offset(l, 0, size) = 0 BY <3>3 DEF Offset
      <4>2. pool'[l] = pool[l] BY <2>4, <3>1, <3>3
      <4>3. pool[l].data \in Seq(Ids)
        <5>1. pool[l] \in Entry BY <1>1, <3>1, LenFacts
        <5> QED BY <5>1 DEF Entry
      <4>4. Len(pool[l].data) \in Nat BY <4>3, LenFacts
      <4>5. \A i \in 1..Len(pool[l].data) : i + 0 = i BY <4>4
      <4> QED BY <3>1, <4>1, <4>2, <4>4, <4>5
    <3> QED BY <3>2, <3>3
  <2>6. Len(pool') = Len(pool) - 0 BY <1>2, <2>4
  <2>7. TakenFrom(0, size)
    BY <1>1, <1>2, <1>8, <1>9, <1>10, <2>5, <2>6 DEF TakenFrom
  <2> QED BY <1>3, <1>7, <1>9, <2>4, <2>7
<1>11. CASE ~(size < Len(data))
  <2>1. pool' = Tail(pool) BY <1>7, <1>11
  <2>2. /\ pool' \in Seq(Entry) /\ Len(pool') = Len(pool) - 1
        /\ \A l \in 1..Len(pool') : pool'[l] = pool[l + 1] /\ l + 1 \in 1..Len(pool)
    BY <1>1, <2>1, TailFacts
  <2>3. ASSUME NEW l \in 1..Len(pool')
        PROVE  /\ l + 1 \in 1..Len(pool)
               /\ pool'[l].key = pool[l + 1].key /\ pool'[l].kwargs = pool[l + 1].kwargs
               /\ Len(pool'[l].data) = Len(pool[l + 1].data) - Offset(l, 1, size)
               /\ \A i \in 1..Len(pool'[l].data) :
                     pool'[l].data[i] = pool[l + 1].data[i + Offset(l, 1, size)]
    <3>1. Offset(l, 1, size) = 0 BY DEF Offset
    <3>2. l + 1 \in 1..Len(pool) /\ pool'[l] = pool[l + 1] BY <2>2
    <3>3. pool[l + 1].data \in Seq(Ids)
      <4>1. pool[l + 1] \in Entry BY <1>1, <3>2, LenFacts
      <4> QED BY <4>1 DEF Entry
    <3>4. Len(pool[l + 1].data) \in Nat BY <3>3, LenFacts
    <3>5. \A i \in 1..Len(pool[l + 1].data) : i + 0 = i BY <3>4
    <3> QED BY <3>1, <3>2, <3>4, <3>5
  <2>4. size <= Len(data) BY <1>8
  <2>5. TakenFrom(1, size)
    BY <1>1, <1>2, <1>8, <1>9, <2>2, <2>3, <2>4 DEF TakenFrom
  <2> QED BY <1>3, <1>7, <1>9, <2>2, <2>5
<1> QED BY <1>10, <1>11

-----------------------------------------------------------------------------
(* A request is in one place.                                              *)

(* After PoolRequest the pool holds what it held, where it held it, and r. *)
LEMMA PoolAfterAdd ==
    ASSUME IInv, NEW k, NEW r \in Ids, AddedTo(k, r), NEW a \in 1..Len(pool'),
           NEW i \in 1..Len(pool'[a].data)
    PROVE  \/ a = k /\ i = Len(pool'[k].data) /\ pool'[a].data[i] = r
           \/ /\ a \in 1..Len(pool) /\ i \in 1..Len(pool[a].data)
              /\ pool'[a].data[i] = pool[a].data[i]
<1>1. CASE a # k
  <2>1. a \in 1..Len(pool) /\ pool'[a] = pool[a] BY <1>1 DEF AddedTo
  <2> QED BY <2>1
<1>2. CASE a = k /\ k \in 1..Len(pool)
  <2>1. pool[k].data \in Seq(Ids)
    <3>1. pool \in Seq(Entry) BY DEF IInv, Types
    <3>2. pool[k] \in Entry BY <1>2, <3>1, LenFacts
    <3> QED BY <3>2 DEF Entry
  <2>2. pool'[k].data = Append(pool[k].data, r) BY <1>2 DEF AddedTo
  <2> DEFINE d == pool[k].data
  <2>3. /\ Len(Append(d, r)) = Len(d) + 1 /\ Len(d) \in Nat /\ Append(d, r)[Len(d) + 1] = r
        /\ \A j \in 1..Len(d) : Append(d, r)[j] = d[j]
    BY <2>1, AppendFacts
  <2>4. i \in 1..Len(Append(d, r)) /\ pool'[a].data[i] = Append(d, r)[i] BY <1>2, <2>2
  <2>5. i \in 1..Len(d) \/ i = Len(d) + 1 BY <2>3, <2>4
  <2> HIDE DEF d
  <2> QED BY <1>2, <2>2, <2>3, <2>4, <2>5 DEF d
<1>3. CASE a = k /\ k \notin 1..Len(pool)
  <2>1. pool'[k].data = <<r>> BY <1>3 DEF AddedTo
  <2>2. Len(<<r>>) = 1 /\ <<r>>[1] = r OBVIOUS
  <2>3. i = 1 BY <1>3, <2>1, <2>2
  <2> QED BY <1>3, <2>1, <2>2, <2>3
<1> QED BY <1>1, <1>2, <1>3

(* PoolRequest moves the first request of the queue to the pool.           *)
LEMMA PoolRequestPlaces ==
    ASSUME IInv, PoolRequest
    PROVE  /\ Once'
           /\ \A q \in Ids : /\ InInbox(q)' => InInbox(q) /\ q # Head(inbox)
                             /\ InPool(q)' => InPool(q) \/ q = Head(inbox)
                             /\ ~InBatch(q)'
<1> DEFINE r == Head(inbox)
<1>1. inbox # <<>> /\ r \in Ids /\ inbox' = Tail(inbox) BY PoolRequestFacts
<1>2. PICK k : AddedTo(k, r) BY PoolRequestFacts
<1>3. inbox \in Seq(Ids) BY DEF IInv, Types
<1>4. /\ Len(inbox') = Len(inbox) - 1 /\ Len(inbox) \in Nat /\ Len(inbox) >= 1 /\ inbox[1] = r
      /\ \A i \in 1..Len(inbox') : inbox'[i] = inbox[i + 1] /\ i + 1 \in 1..Len(inbox)
  BY <1>1, <1>3, TailFacts
<1>5. batch = <<>> /\ batch' = batch BY DEF PoolRequest, IInv, BatchOfConfig, batchVars
<1> HIDE DEF r
<1>6. InInbox(r) BY <1>4 DEF InInbox
<1>7. ~InPool(r) BY <1>1, <1>6 DEF IInv, Once
<1>8. /\ \A i, j \in 1..Len(inbox) : inbox[i] = inbox[j] => i = j
      /\ \A a, b \in 1..Len(pool) :
            \A i \in 1..Len(pool[a].data), j \in 1..Len(pool[b].data) :
               pool[a].data[i] = pool[b].data[j] => a = b /\ i = j
      /\ \A q \in Ids : ~(InInbox(q) /\ InPool(q))
  BY DEF IInv, Once
<1>9. ASSUME NEW q \in Ids, InInbox(q)' PROVE InInbox(q) /\ q # r
  <2>1. PICK i \in 1..Len(inbox') : inbox'[i] = q BY <1>9 DEF InInbox
  <2>2. inbox[i + 1] = q /\ i + 1 \in 1..Len(inbox) /\ i + 1 # 1 /\ 1 \in 1..Len(inbox)
    BY <1>4, <2>1
  <2> QED BY <1>4, <1>8, <2>2 DEF InInbox
<1>10. ASSUME NEW q \in Ids, InPool(q)' PROVE InPool(q) \/ q = r
  <2>1. PICK a \in 1..Len(pool') : \E i \in 1..Len(pool'[a].data) : pool'[a].data[i] = q
    BY <1>10 DEF InPool
  <2>9. PICK i \in 1..Len(pool'[a].data) : pool'[a].data[i] = q BY <2>1
  <2> QED BY <1>1, <1>2, <2>9, PoolAfterAdd DEF InPool
<1>11. \A q : ~InBatch(q)'
  <2>1. Len(batch') = 0 BY <1>5
  <2> QED BY <2>1 DEF InBatch
<1>12. \A i, j \in 1..Len(inbox') : inbox'[i] = inbox'[j] => i = j
  <2>1. ASSUME NEW i \in 1..Len(inbox'), NEW j \in 1..Len(inbox'), inbox'[i] = inbox'[j]
        PROVE  i = j
    <3>1. i + 1 = j + 1 BY <1>4, <1>8, <2>1
    <3> QED BY <3>1
  <2> QED BY <2>1
<1>13. ASSUME NEW a \in 1..Len(pool'), NEW b \in 1..Len(pool'),
              NEW i \in 1..Len(pool'[a].data), NEW j \in 1..Len(pool'[b].data),
              pool'[a].data[i] = pool'[b].data[j]
       PROVE  a = b /\ i = j
  <2> DEFINE New(c, l) == c = k /\ l = Len(pool'[k].data) /\ pool'[c].data[l] = r
             Old(c, l) == /\ c \in 1..Len(pool) /\ l \in 1..Len(pool[c].data)
                          /\ pool'[c].data[l] = pool[c].data[l]
  <2>1. New(a, i) \/ Old(a, i) BY <1>1, <1>2, PoolAfterAdd
  <2>2. New(b, j) \/ Old(b, j) BY <1>1, <1>2, PoolAfterAdd
  <2>3. ASSUME NEW c, NEW l, Old(c, l) PROVE pool'[c].data[l] # r
    BY <1>7, <2>3 DEF InPool
  <2>4. CASE New(a, i) /\ New(b, j) BY <2>4
  <2>5. CASE Old(a, i) /\ Old(b, j)
    <3>1. /\ a \in 1..Len(pool) /\ b \in 1..Len(pool)
          /\ i \in 1..Len(pool[a].data) /\ j \in 1..Len(pool[b].data)
          /\ pool[a].data[i] = pool[b].data[j]
      BY <1>13, <2>5
    <3> HIDE DEF Old, New
    <3> QED BY <1>8, <3>1
  <2>6. CASE New(a, i) /\ Old(b, j) BY <1>13, <2>3, <2>6
  <2>7. CASE Old(a, i) /\ New(b, j) BY <1>13, <2>3, <2>7
  <2> QED BY <2>1, <2>2, <2>4, <2>5, <2>6, <2>7
<1>14. \A i, j \in 1..Len(batch') : batch'[i] = batch'[j] => i = j
  <2>1. Len(batch') = 0 BY <1>5
  <2> QED BY <2>1
<1>15. \A q \in Ids : /\ ~(InInbox(q)' /\ InPool(q)') /\ ~(InInbox(q)' /\ InBatch(q)')
                      /\ ~(InPool(q)' /\ InBatch(q)')
  BY <1>8, <1>9, <1>10, <1>11
<1>16. Once' BY <1>12, <1>13, <1>14, <1>15 DEF Once
<1> QED BY <1>9, <1>10, <1>11, <1>16 DEF r

(* FetchBatch moves requests from the pool to the batch.                   *)
LEMMA FetchBatchPlaces ==
    ASSUME IInv, FetchBatch
    PROVE  /\ Once'
           /\ \A q \in Ids : /\ ~InInbox(q)'
                             /\ InPool(q)' => InPool(q)
                             /\ InBatch(q)' => InPool(q)
<1>1. PICK s, n : TakenFrom(s, n) BY FetchBatchFacts
<1>2. inbox = <<>> /\ inbox' = inbox BY DEF FetchBatch
<1>3. Len(inbox') = 0 BY <1>2
<1>4. \A a, b \in 1..Len(pool) : \A i \in 1..Len(pool[a].data), j \in 1..Len(pool[b].data) :
         pool[a].data[i] = pool[b].data[j] => a = b /\ i = j
  BY DEF IInv, Once
<1>5. \A a \in 1..Len(pool) : pool[a].data \in Seq(Ids) /\ Len(pool[a].data) \in Nat
  <2>1. pool \in Seq(Entry) BY DEF IInv, Types
  <2>2. ASSUME NEW a \in 1..Len(pool)
        PROVE  pool[a].data \in Seq(Ids) /\ Len(pool[a].data) \in Nat
    <3>1. pool[a] \in Entry BY <2>1, LenFacts
    <3>2. pool[a].data \in Seq(Ids) BY <3>1 DEF Entry
    <3> QED BY <3>2, LenFacts
  <2> QED BY <2>2
<1>6. /\ s \in {0, 1} /\ n \in Nat /\ n >= 1 /\ n <= Len(pool[1].data)
      /\ Len(batch') = n /\ \A i \in 1..n : batch'[i] = pool[1].data[i]
      /\ Len(pool) \in Nat /\ Len(pool) >= 1 /\ Len(pool') = Len(pool) - s
  <2>1. pool \in Seq(Entry) /\ pool # <<>> BY <1>1 DEF IInv, Types, TakenFrom
  <2>2. Len(pool) # 0 BY <2>1, LenFacts
  <2> QED BY <1>1, <2>2 DEF TakenFrom
<1>7. ASSUME NEW a \in 1..Len(pool'), NEW i \in 1..Len(pool'[a].data)
      PROVE  /\ a + s \in 1..Len(pool) /\ i + Offset(a, s, n) \in 1..Len(pool[a + s].data)
             /\ pool'[a].data[i] = pool[a + s].data[i + Offset(a, s, n)]
             /\ a + s = 1 => i + Offset(a, s, n) > n
  <2>1. /\ a + s \in 1..Len(pool)
        /\ Len(pool'[a].data) = Len(pool[a + s].data) - Offset(a, s, n)
        /\ pool'[a].data[i] = pool[a + s].data[i + Offset(a, s, n)]
    BY <1>1 DEF TakenFrom
  <2>2. Offset(a, s, n) \in Nat BY <1>6 DEF Offset
  <2>3. Len(pool[a + s].data) \in Nat BY <1>5, <2>1
  <2>4. i + Offset(a, s, n) \in 1..Len(pool[a + s].data)
    <3> DEFINE o == Offset(a, s, n)
               m == Len(pool[a + s].data)
    <3>1. i \in 1..(m - o) /\ o \in Nat /\ m \in Nat BY <2>1, <2>2, <2>3
    <3> HIDE DEF o, m
    <3>2. i + o \in 1..m BY <3>1
    <3> QED BY <3>2 DEF o, m
  <2>5. a + s = 1 => i + Offset(a, s, n) > n BY <1>6 DEF Offset
  <2> QED BY <2>1, <2>4, <2>5
<1>8. ASSUME NEW q \in Ids, InPool(q)' PROVE InPool(q)
  <2>1. PICK a \in 1..Len(pool') : \E i \in 1..Len(pool'[a].data) : pool'[a].data[i] = q
    BY <1>8 DEF InPool
  <2>9. PICK i \in 1..Len(pool'[a].data) : pool'[a].data[i] = q BY <2>1
  <2> QED BY <1>7, <2>9 DEF InPool
<1>9. ASSUME NEW q \in Ids, InBatch(q)' PROVE InPool(q)
  <2>1. PICK i \in 1..Len(batch') : batch'[i] = q BY <1>9 DEF InBatch
  <2>2. 1 \in 1..Len(pool) /\ i \in 1..Len(pool[1].data) /\ pool[1].data[i] = q
    BY <1>5, <1>6, <2>1
  <2> QED BY <2>2 DEF InPool
<1>10. \A q : ~InInbox(q)' BY <1>3 DEF InInbox
<1>11. ASSUME NEW a \in 1..Len(pool'), NEW b \in 1..Len(pool'),
              NEW i \in 1..Len(pool'[a].data), NEW j \in 1..Len(pool'[b].data),
              pool'[a].data[i] = pool'[b].data[j]
       PROVE  a = b /\ i = j
  <2>1. a + s = b + s /\ i + Offset(a, s, n) = j + Offset(b, s, n)
    <3> DEFINE c == a + s
               d == b + s
               u == i + Offset(a, s, n)
               v == j + Offset(b, s, n)
    <3>1. c \in 1..Len(pool) /\ u \in 1..Len(pool[c].data) /\ pool'[a].data[i] = pool[c].data[u]
      BY <1>7
    <3>2. d \in 1..Len(pool) /\ v \in 1..Len(pool[d].data) /\ pool'[b].data[j] = pool[d].data[v]
      BY <1>7
    <3> HIDE DEF c, d, u, v
    <3>3. pool[c].data[u] = pool[d].data[v] BY <1>11, <3>1, <3>2
    <3>4. c = d /\ u = v
      <4>1. \A x \in 1..Len(pool[c].data), y \in 1..Len(pool[d].data) :
               pool[c].data[x] = pool[d].data[y] => c = d /\ x = y
        BY <1>4, <3>1, <3>2
      <4> QED BY <3>1, <3>2, <3>3, <4>1
    <3> QED BY <3>4 DEF c, d, u, v
  <2>2. a = b BY <1>6, <2>1
  <2>3. Offset(a, s, n) \in Nat BY <1>6 DEF Offset
  <2> QED BY <2>1, <2>2, <2>3
<1>12. ASSUME NEW i \in 1..Len(batch'), NEW j \in 1..Len(batch'), batch'[i] = batch'[j]
       PROVE  i = j
  <2>1. 1 \in 1..Len(pool) /\ i \in 1..Len(pool[1].data) /\ j \in 1..Len(pool[1].data)
    BY <1>5, <1>6
  <2> QED BY <1>4, <1>6, <1>12, <2>1
<1>13. ASSUME NEW q \in Ids PROVE ~(InPool(q)' /\ InBatch(q)')
  <2>1. SUFFICES ASSUME InPool(q)', InBatch(q)' PROVE FALSE OBVIOUS
  <2>2. PICK a \in 1..Len(pool') : \E i \in 1..Len(pool'[a].data) : pool'[a].data[i] = q
    BY <2>1 DEF InPool
  <2>9. PICK i \in 1..Len(pool'[a].data) : pool'[a].data[i] = q BY <2>2
  <2>3. PICK j \in 1..Len(batch') : batch'[j] = q BY <2>1 DEF InBatch
  <2>4. 1 \in 1..Len(pool) /\ j \in 1..Len(pool[1].data) /\ pool[1].data[j] = q /\ j <= n
    BY <1>5, <1>6, <2>3
  <2>5. a + s = 1 /\ i + Offset(a, s, n) = j
    <3> DEFINE c == a + s
               u == i + Offset(a, s, n)
    <3>1. c \in 1..Len(pool) /\ u \in 1..Len(pool[c].data) /\ pool'[a].data[i] = pool[c].data[u]
      BY <1>7
    <3> HIDE DEF c, u
    <3>2. c = 1 /\ u = j BY <1>4, <2>9, <2>4, <3>1
    <3> QED BY <3>2 DEF c, u
  <2>6. i + Offset(a, s, n) > n BY <1>7, <2>5
  <2> QED BY <1>6, <2>4, <2>5, <2>6
<1>14. \A i, j \in 1..Len(inbox') : inbox'[i] = inbox'[j] => i = j BY <1>3
<1>15. Once'
  BY <1>10, <1>11, <1>12, <1>13, <1>14 DEF Once
<1> QED BY <1>8, <1>9, <1>10, <1>15

-----------------------------------------------------------------------------
(* The inductive invariant, action by action.                              *)

(* A number of a submitted request.                                        *)
LEMMA SubmittedIds ==
    ASSUME IInv
    PROVE  /\ Len(request) \in Nat /\ request \in Seq(Request) /\ NumRequests \in Nat
           /\ \A r : r \in 1..Len(request) <=> (r \in Ids /\ r <= Len(request))
           /\ \A r \in Ids : r > Len(request) \/ r \in 1..Len(request)
<1>1. request \in Seq(Request) /\ Len(request) <= NumRequests /\ NumRequests \in Nat
  BY EngineAssumption DEF IInv, Types
<1>2. Len(request) \in Nat BY <1>1, LenFacts
<1> QED BY <1>1, <1>2 DEF Ids

(* Without a new request no adapter is named anew.                         *)
LEMMA SameNames == ASSUME request' = request PROVE NamedWith' = NamedWith
BY DEF NamedWith

(* A request is submitted.                                                 *)
LEMMA InferAsyncStep == ASSUME IInv, InferAsync PROVE IInv'
<1> DEFINE n == Len(request) + 1
<1>1. PICK c \in Configs, a \in Adapters, bad \in BOOLEAN :
         request' = Append(request, [config |-> c, adapter |-> a, bad |-> bad])
  BY DEF InferAsync
<1>2. /\ inbox' = Append(inbox, n) /\ client' = [client EXCEPT ![n] = "put"]
      /\ Len(request) < NumRequests
      /\ UNCHANGED <<engineVars, got, batchVars, thread, adapters_pool, chunks, outbox, sent,
                     raises>>
  BY DEF InferAsync
<1> USE DEF engineVars, batchVars
<1>3. /\ Len(request) \in Nat /\ request \in Seq(Request) /\ n \in Ids /\ n > Len(request)
      /\ \A r : r \in 1..Len(request) <=> (r \in Ids /\ r <= Len(request))
      /\ \A r \in Ids : r > Len(request) \/ r \in 1..Len(request)
  BY <1>2, SubmittedIds, EngineAssumption DEF Ids
<1>4. /\ request' \in Seq(Request) /\ Len(request') = n
      /\ \A r \in 1..Len(request) : request'[r] = request[r]
  <2> DEFINE x == [config |-> c, adapter |-> a, bad |-> bad]
  <2>1. x \in Request BY DEF Request
  <2>2. request' = Append(request, x) BY <1>1
  <2> HIDE DEF x
  <2> QED BY <1>3, <2>1, <2>2, AppendFacts
<1>21. NamedWith \subseteq NamedWith'
  <2>1. ASSUME NEW s \in 1..Len(request) PROVE s \in 1..Len(request') /\ request'[s] = request[s]
    BY <1>3, <1>4
  <2> QED BY <2>1 DEF NamedWith
<1> HIDE DEF n
<1>5. Types'
  <2>1. inbox' \in Seq(Ids)
    <3>1. inbox \in Seq(Ids) BY DEF IInv, Types
    <3> QED BY <1>2, <1>3, <3>1, AppendFacts
  <2>2. client' \in [Ids -> {"new", "put", "waiting", "done"}] BY <1>2 DEF IInv, Types
  <2>3. Len(request') <= NumRequests BY <1>2, <1>3, <1>4, EngineAssumption DEF n
  <2> QED BY <1>2, <1>4, <2>1, <2>2, <2>3 DEF IInv, Types
<1>6. /\ ~Pending(n) /\ got[n] = <<>> /\ outbox[n] = <<>> /\ sent[n] = <<>>
      /\ \A r \in Ids : Pending(r) => r \in 1..Len(request)
      /\ \A r \in Ids : r > Len(request) =>
            client[r] = "new" /\ ~Pending(r) /\ got[r] = <<>> /\ outbox[r] = <<>> /\ sent[r] = <<>>
      /\ \A r \in 1..Len(request) : client[r] # "new"
  <2>1. \A r \in Ids : r > Len(request) <=> ~(r <= Len(request)) BY <1>3 DEF Ids
  <2> QED BY <1>3, <2>1 DEF IInv, Submitted
<1>7. /\ \A q : InPool(q)' <=> InPool(q)
      /\ \A q : InBatch(q)' <=> InBatch(q)
  BY <1>2 DEF InPool, InBatch
<1>8. /\ inbox \in Seq(Ids) /\ Len(inbox') = Len(inbox) + 1 /\ Len(inbox) \in Nat
      /\ inbox'[Len(inbox) + 1] = n
      /\ \A i \in 1..Len(inbox) : inbox'[i] = inbox[i]
  <2>1. inbox \in Seq(Ids) BY DEF IInv, Types
  <2> QED BY <1>2, <1>3, <2>1, AppendFacts
<1>9. \A i \in 1..Len(inbox') : i \in 1..Len(inbox) \/ i = Len(inbox) + 1 BY <1>8
<1>10. \A q : InInbox(q)' <=> InInbox(q) \/ q = n
  <2>1. ASSUME NEW q, InInbox(q)' PROVE InInbox(q) \/ q = n BY <1>8, <1>9, <2>1 DEF InInbox
  <2>2. ASSUME NEW q, InInbox(q) PROVE InInbox(q)'
    <3>1. PICK i \in 1..Len(inbox) : inbox[i] = q BY <2>2 DEF InInbox
    <3>2. i \in 1..Len(inbox') /\ inbox'[i] = q BY <1>8, <3>1
    <3> QED BY <3>2 DEF InInbox
  <2>3. ASSUME NEW q, q = n PROVE InInbox(q)'
    <3>1. Len(inbox) + 1 \in 1..Len(inbox') BY <1>8
    <3> QED BY <1>8, <2>3, <3>1 DEF InInbox
  <2> QED BY <2>1, <2>2, <2>3
<1>11. Once'
  <2>1. ASSUME NEW i \in 1..Len(inbox'), NEW j \in 1..Len(inbox'), inbox'[i] = inbox'[j]
        PROVE  i = j
    <3>1. \A l \in 1..Len(inbox) : inbox[l] # n BY <1>6 DEF Pending, InInbox
    <3>2. \A k, l \in 1..Len(inbox) : inbox[k] = inbox[l] => k = l BY DEF IInv, Once
    <3> QED BY <1>8, <1>9, <2>1, <3>1, <3>2
  <2>2. ASSUME NEW r \in Ids
        PROVE  ~(InInbox(r)' /\ InPool(r)') /\ ~(InInbox(r)' /\ InBatch(r)')
                 /\ ~(InPool(r)' /\ InBatch(r)')
    BY <1>6, <1>7, <1>10 DEF IInv, Once, Pending
  <2> QED BY <1>2, <2>1, <2>2 DEF IInv, Once
<1>12. PoolOfKeys'
  <2>1. ASSUME NEW k \in 1..Len(pool), NEW i \in 1..Len(pool[k].data)
        PROVE  request'[pool[k].data[i]] = request[pool[k].data[i]]
    <3>1. pool \in Seq(Entry) BY DEF IInv, Types
    <3>2. pool[k] \in Entry BY <3>1, LenFacts
    <3>3. pool[k].data \in Seq(Ids) BY <3>2 DEF Entry
    <3>4. pool[k].data[i] \in Ids BY <3>3, LenFacts
    <3>5. pool[k].data[i] \in 1..Len(request) BY <1>6, <3>4 DEF Pending, InPool
    <3> QED BY <1>4, <3>5
  <2>2. ASSUME NEW k \in 1..Len(pool)
        PROVE  /\ pool[k].data # <<>> /\ pool[k].kwargs.config = pool[k].key
               /\ <<pool[k].key, pool[k].kwargs.adapter>> \in NamedWith'
               /\ \A i \in 1..Len(pool[k].data) : request'[pool[k].data[i]].config = pool[k].key
    BY <1>21, <2>1 DEF IInv, PoolOfKeys
  <2>3. \A k, l \in 1..Len(pool) : pool[k].key = pool[l].key => k = l BY DEF IInv, PoolOfKeys
  <2> QED BY <1>2, <2>2, <2>3 DEF PoolOfKeys
<1>13. BatchOfConfig'
  <2>1. ASSUME NEW i \in 1..Len(batch) PROVE request'[batch[i]] = request[batch[i]]
    <3>1. batch \in Seq(Ids) BY DEF IInv, Types
    <3>2. batch[i] \in Ids BY <3>1, LenFacts
    <3>3. batch[i] \in 1..Len(request) BY <1>6, <3>2 DEF Pending, InBatch
    <3> QED BY <1>4, <3>3
  <2> QED BY <1>2, <1>21, <2>1 DEF IInv, BatchOfConfig
<1>14. Submitted'
  <2>1. ASSUME NEW r \in Ids
        PROVE  IF r <= Len(request') THEN client'[r] # "new"
               ELSE /\ client'[r] = "new" /\ ~Pending(r)'
                    /\ got'[r] = <<>> /\ outbox'[r] = <<>> /\ sent'[r] = <<>>
    <3>1. CASE r \in 1..Len(request)
      <4>1. r # n /\ r <= Len(request') BY <1>3, <1>4, <3>1 DEF n
      <4>2. client'[r] = client[r] BY <1>2, <1>3, <3>1, <4>1 DEF IInv, Types
      <4> QED BY <1>6, <3>1, <4>1, <4>2
    <3>2. CASE r = n
      <4>1. client'[n] = "put" BY <1>2, <1>3 DEF IInv, Types
      <4> QED BY <1>3, <1>4, <3>2, <4>1
    <3>3. CASE r > Len(request) /\ r # n
      <4>1. ~(r <= Len(request')) BY <1>3, <1>4, <3>3 DEF n, Ids
      <4>2. client'[r] = client[r] BY <1>2, <3>3 DEF IInv, Types
      <4>3. ~Pending(r)' BY <1>6, <1>7, <1>10, <3>3 DEF Pending
      <4> QED BY <1>2, <1>6, <3>3, <4>1, <4>2, <4>3
    <3> QED BY <1>3, <3>1, <3>2, <3>3
  <2> QED BY <2>1 DEF Submitted
<1>15. \A r \in Ids : r \in 1..Len(request) \/ (got[r] = <<>> /\ outbox[r] = <<>>)
  BY <1>3, <1>6
<1>16. OwnAnswer'
  <2>1. ASSUME NEW r \in Ids, NEW i \in 1..Len(got[r]) PROVE request'[r] = request[r]
    <3>1. Len(<<>>) = 0 OBVIOUS
    <3>2. r \in 1..Len(request) BY <1>15, <2>1, <3>1
    <3> QED BY <1>4, <3>2
  <2> QED BY <1>2, <1>21, <2>1 DEF IInv, OwnAnswer
<1>17. OwnOutbox'
  <2>1. ASSUME NEW r \in Ids, NEW i \in 1..Len(outbox[r]) PROVE request'[r] = request[r]
    <3>1. Len(<<>>) = 0 OBVIOUS
    <3>2. r \in 1..Len(request) BY <1>15, <2>1, <3>1
    <3> QED BY <1>4, <3>2
  <2>2. ASSUME NEW r \in Ids, NEW i \in 1..Len(outbox[r])
        PROVE  IF outbox[r][i] = None THEN request'[r].config \in Streams
               ELSE /\ outbox[r][i].of = r /\ outbox[r][i].config = request'[r].config
                    /\ <<request'[r].config, outbox[r][i].adapter>> \in NamedWith'
                    /\ (outbox[r][i].kind = "error") <=> request'[r].bad
    <3>1. IF outbox[r][i] = None THEN request[r].config \in Streams ELSE Fits(r, outbox[r][i])
      BY <2>2 DEF IInv, OwnOutbox
    <3> QED BY <1>21, <2>1, <3>1 DEF Fits
  <2>3. outbox' = outbox /\ None' = None BY <1>2 DEF None
  <2> QED BY SMT, <2>2, <2>3 DEF OwnOutbox, Fits
<1>18. NothingLost'
  <2>1. SUFFICES ASSUME NEW r \in 1..Len(request'), ~request'[r].bad
                 PROVE  got[r] \o Text(outbox[r]) = sent[r]
    BY <1>2 DEF NothingLost, Text, None
  <2>2. CASE r \in 1..Len(request) BY <1>4, <2>1, <2>2 DEF IInv, NothingLost
  <2>3. CASE r \notin 1..Len(request)
    <3>1. r = n BY <1>3, <1>4, <2>1, <2>3 DEF n
    <3>2. Text(<<>>) = <<>> /\ <<>> \o <<>> = <<>> BY MaskedEmpty DEF Text
    <3> QED BY <1>6, <3>1, <3>2
  <2> QED BY <2>2, <2>3
<1>19. NotYet'
  <2>1. \A r \in Ids : (InInbox(r)' \/ InPool(r)') => sent[r] = <<>>
    BY <1>6, <1>7, <1>10 DEF IInv, NotYet
  <2> QED BY <1>2, <2>1 DEF IInv, NotYet
<1>20. EndsOnce'
  <2>1. SUFFICES ASSUME max_batch_size = 1, NEW r \in 1..Len(request')
                 PROVE  /\ \A i \in 1..Len(outbox[r]) :
                              Ends(r, outbox[r][i])' => i = Len(outbox[r]) /\ ~Pending(r)'
                        /\ client'[r] = "done" => outbox[r] = <<>> /\ ~Pending(r)'
    BY <1>2 DEF EndsOnce, Ends, None
  <2>2. CASE r \in 1..Len(request)
    <3>1. request'[r] = request[r] /\ r # n /\ r \in Ids BY <1>3, <1>4, <2>2
    <3>2. Pending(r)' <=> Pending(r) BY <1>7, <1>10, <3>1 DEF Pending
    <3>3. client'[r] = client[r] BY <1>2, <3>1 DEF IInv, Types
    <3>4. \A x : Ends(r, x)' <=> Ends(r, x) BY <3>1 DEF Ends
    <3>5. /\ \A i \in 1..Len(outbox[r]) :
                Ends(r, outbox[r][i]) => i = Len(outbox[r]) /\ ~Pending(r)
          /\ client[r] = "done" => outbox[r] = <<>> /\ ~Pending(r)
      BY <2>1, <2>2 DEF IInv, EndsOnce
    <3> QED BY <1>2, <3>1, <3>2, <3>3, <3>5 DEF Ends, None
  <2>3. CASE r \notin 1..Len(request)
    <3>1. r = n BY <1>3, <1>4, <2>1, <2>3 DEF n
    <3>2. Len(<<>>) = 0 OBVIOUS
    <3>3. client'[n] = "put" BY <1>2, <1>3 DEF IInv, Types
    <3> QED BY <1>6, <3>1, <3>2, <3>3
  <2> QED BY <2>2, <2>3
<1> QED BY <1>5, <1>11, <1>12, <1>13, <1>14, <1>16, <1>17, <1>18, <1>19, <1>20 DEF IInv

(* A coroutine starts the worker.                                          *)
LEMMA StartInferWorkerStep ==
    ASSUME IInv, NEW r \in Ids, StartInferWorker(r) PROVE IInv'
<1>1. /\ client[r] = "put" /\ client' = [client EXCEPT ![r] = "waiting"]
      /\ thread' = IF thread = "none" THEN "fetch" ELSE thread
      /\ UNCHANGED <<max_batch_size, strict, request, got, inbox, pool, batch, kwargs,
                     adapters_pool, chunks, outbox, sent, raises>>
  BY DEF StartInferWorker, engineVars, batchVars
<1>13. NamedWith' = NamedWith BY <1>1, SameNames
<1>2. client \in [Ids -> {"new", "put", "waiting", "done"}] BY DEF IInv, Types
<1>3. /\ client'[r] = "waiting"
      /\ \A q \in Ids : q # r => client'[q] = client[q]
  BY <1>1, <1>2
<1>4. \A q : Pending(q)' <=> Pending(q) BY <1>1 DEF Pending, InInbox, InPool, InBatch
<1>5. Types' BY <1>1, <1>2 DEF IInv, Types
<1>6. Once' BY <1>1 DEF IInv, Once, InInbox, InPool, InBatch
<1>7. PoolOfKeys' BY <1>1, <1>13 DEF IInv, PoolOfKeys
<1>8. BatchOfConfig' BY <1>1, <1>13 DEF IInv, BatchOfConfig
<1>9. Submitted'
  <2>1. r <= Len(request) BY <1>1 DEF IInv, Submitted
  <2> QED BY <1>1, <1>3, <1>4, <2>1 DEF IInv, Submitted
<1>10. OwnAnswer' /\ OwnOutbox' /\ NothingLost'
  <2>1. OwnAnswer' BY <1>1, <1>13 DEF IInv, OwnAnswer
  <2>2. OwnOutbox' BY <1>1, <1>13 DEF IInv, OwnOutbox, Fits, None
  <2>3. NothingLost' BY <1>1 DEF IInv, NothingLost, Text, None
  <2> QED BY <2>1, <2>2, <2>3
<1>11. NotYet' BY <1>1 DEF IInv, NotYet, InInbox, InPool
<1>12. EndsOnce'
  <2>1. \A q \in 1..Len(request) : q \in Ids BY SubmittedIds
  <2>2. \A q \in 1..Len(request) : client'[q] = "done" => client[q] = "done"
    BY <1>3, <2>1
  <2> QED BY <1>1, <1>4, <2>2 DEF IInv, EndsOnce, Ends, None
<1> QED BY <1>5, <1>6, <1>7, <1>8, <1>9, <1>10, <1>11, <1>12 DEF IInv

(* A caller takes an item from its asyncio queue.                          *)
LEMMA ReceiveStep == ASSUME IInv, NEW r \in Ids, Receive(r) PROVE IInv'
<1> DEFINE item == Head(outbox[r])
<1>1. /\ client[r] = "waiting" /\ outbox[r] # <<>>
      /\ outbox' = [outbox EXCEPT ![r] = Tail(@)]
      /\ IF request[r].config \in Streams /\ item = None
         THEN client' = [client EXCEPT ![r] = "done"] /\ got' = got
         ELSE /\ got' = [got EXCEPT ![r] = Append(@, item)]
              /\ client' = IF request[r].config \in Streams THEN client
                           ELSE [client EXCEPT ![r] = "done"]
      /\ UNCHANGED <<max_batch_size, strict, request, inbox, pool, batch, kwargs, thread,
                     adapters_pool, chunks, sent, raises>>
  BY Zenon DEF Receive, engineVars, batchVars
<1>2. /\ client \in [Ids -> {"new", "put", "waiting", "done"}]
      /\ outbox \in [Ids -> Seq(Items \cup {None})] /\ got \in [Ids -> Seq(Items)]
      /\ sent \in [Ids -> Seq(Items)]
  BY DEF IInv, Types
<1>3. r \in 1..Len(request)
  <2>1. r <= Len(request) BY <1>1 DEF IInv, Submitted
  <2> QED BY <2>1, SubmittedIds
<1> DEFINE B == Items \cup {None}
           rest == Tail(outbox[r])
<1>4. outbox[r] \in Seq(B) BY <1>2
<1> HIDE DEF B
<1>5. /\ rest \in Seq(B) /\ Len(rest) = Len(outbox[r]) - 1
      /\ Len(outbox[r]) \in Nat /\ Len(outbox[r]) >= 1
      /\ item = outbox[r][1] /\ item \in B
      /\ \A i \in 1..Len(rest) : rest[i] = outbox[r][i + 1] /\ i + 1 \in 1..Len(outbox[r])
  BY <1>1, <1>4, TailFacts
<1>6. outbox'[r] = rest /\ \A q \in Ids : q # r => outbox'[q] = outbox[q] BY <1>1, <1>2
<1>7. /\ item = None => request[r].config \in Streams
      /\ item # None => item \in Items /\ Fits(r, item)
  <2>1. 1 \in 1..Len(outbox[r]) BY <1>5
  <2>2. IF item = None THEN request[r].config \in Streams ELSE Fits(r, item)
    BY <1>5, <2>1 DEF IInv, OwnOutbox
  <2> QED BY <1>5, <2>2 DEF B
<1> HIDE DEF item, rest
<1>8. /\ \A q \in Ids : q # r => got'[q] = got[q] /\ client'[q] = client[q]
      /\ got'[r] = IF item = None THEN got[r] ELSE Append(got[r], item)
      /\ client'[r] \in {"waiting", "done"}
      /\ client'[r] = "done" => Ends(r, item)
  BY <1>1, <1>2, <1>7 DEF Ends
<1>9. Types'
  <2>1. got'[r] \in Seq(Items) BY <1>2, <1>7, <1>8, AppendFacts
  <2>2. got' \in [Ids -> Seq(Items)] BY <1>1, <1>2, <1>8, <2>1
  <2>3. outbox' \in [Ids -> Seq(B)] BY <1>1, <1>2, <1>5, <1>6 DEF B
  <2>4. client' \in [Ids -> {"new", "put", "waiting", "done"}] BY <1>1, <1>2
  <2> QED BY <1>1, <2>2, <2>3, <2>4 DEF IInv, Types, B, Items, None
<1>20. NamedWith' = NamedWith BY <1>1, SameNames
<1>10. \A q : Pending(q)' <=> Pending(q) BY <1>1 DEF Pending, InInbox, InPool, InBatch
<1>11. Once' BY <1>1 DEF IInv, Once, InInbox, InPool, InBatch
<1>12. PoolOfKeys' BY <1>1, <1>20 DEF IInv, PoolOfKeys
<1>13. BatchOfConfig' BY <1>1, <1>20 DEF IInv, BatchOfConfig
<1>14. Submitted'
  <2>1. r <= Len(request) BY <1>3, SubmittedIds
  <2> QED BY <1>1, <1>6, <1>8, <1>10, <2>1 DEF IInv, Submitted
<1>15. OwnAnswer'
  <2>1. ASSUME NEW i \in 1..Len(got'[r])
        PROVE  /\ got'[r][i].of = r /\ got'[r][i].config = request[r].config
               /\ <<request[r].config, got'[r][i].adapter>> \in NamedWith
               /\ (got'[r][i].kind = "error") <=> request[r].bad
    <3>1. CASE item = None BY <1>8, <2>1, <3>1 DEF IInv, OwnAnswer
    <3>2. CASE item # None
      <4>1. /\ Len(got'[r]) = Len(got[r]) + 1 /\ Len(got[r]) \in Nat
            /\ got'[r][Len(got[r]) + 1] = item
            /\ \A j \in 1..Len(got[r]) : got'[r][j] = got[r][j]
        BY <1>2, <1>7, <1>8, <3>2, AppendFacts
      <4>2. CASE i = Len(got[r]) + 1 BY <1>7, <3>2, <4>1, <4>2 DEF Fits
      <4>3. CASE i # Len(got[r]) + 1
        <5>1. i \in 1..Len(got[r]) BY <2>1, <4>1, <4>3
        <5> QED BY <4>1, <5>1 DEF IInv, OwnAnswer
      <4> QED BY <4>2, <4>3
    <3> QED BY <3>1, <3>2
  <2>2. ASSUME NEW q \in Ids, NEW i \in 1..Len(got'[q])
        PROVE  /\ got'[q][i].of = q /\ got'[q][i].config = request[q].config
               /\ <<request[q].config, got'[q][i].adapter>> \in NamedWith
               /\ (got'[q][i].kind = "error") <=> request[q].bad
    <3>1. CASE q = r BY <2>1, <2>2, <3>1
    <3>2. CASE q # r
      <4>1. got'[q] = got[q] BY <1>8, <3>2
      <4> QED BY <2>2, <4>1 DEF IInv, OwnAnswer
    <3> QED BY <3>1, <3>2
  <2> QED BY <1>1, <1>20, <2>2 DEF OwnAnswer
<1>16. OwnOutbox'
  <2>1. ASSUME NEW i \in 1..Len(rest)
        PROVE  IF rest[i] = None THEN request[r].config \in Streams ELSE Fits(r, rest[i])
    BY <1>5, <2>1 DEF IInv, OwnOutbox
  <2>2. ASSUME NEW q \in Ids, NEW i \in 1..Len(outbox'[q])
        PROVE  IF outbox'[q][i] = None THEN request[q].config \in Streams
               ELSE Fits(q, outbox'[q][i])
    BY <1>6, <2>1, <2>2 DEF IInv, OwnOutbox
  <2>3. request' = request /\ None' = None BY <1>1 DEF None
  <2> QED BY SMT, <1>20, <2>2, <2>3 DEF OwnOutbox, Fits
<1>17. NothingLost'
  <2>1. ASSUME ~request[r].bad PROVE got'[r] \o Text(outbox'[r]) = sent[r]
    <3>1. got[r] \o Text(outbox[r]) = sent[r] BY <1>3, <2>1 DEF IInv, NothingLost
    <3>2. /\ Text(rest) \in Seq(B)
          /\ Text(outbox[r]) = IF item = None THEN Text(rest) ELSE <<item>> \o Text(rest)
      BY <1>1, <1>4, TextTail DEF item, rest
    <3>3. CASE item = None BY Zenon, <1>6, <1>8, <3>1, <3>2, <3>3
    <3>4. CASE item # None
      <4> DEFINE g == got[r]
                 u == Text(rest)
      <4>1. g \in Seq(B) /\ u \in Seq(B) /\ <<item>> \in Seq(B) BY <1>2, <1>5, <3>2 DEF B
      <4> HIDE DEF g, u
      <4>2. Append(g, item) = g \o <<item>> BY <1>5, <4>1, AppendIsConcat
      <4>3. (g \o <<item>>) \o u = g \o (<<item>> \o u) BY <4>1, ConcatAssociative
      <4>4. Append(g, item) \o u = g \o (<<item>> \o u) BY Zenon, <4>2, <4>3
      <4> QED BY Zenon, <1>6, <1>8, <3>1, <3>2, <3>4, <4>4 DEF g, u
    <3> QED BY <3>3, <3>4
  <2>2. ASSUME NEW q \in 1..Len(request), ~request[q].bad
        PROVE  got'[q] \o Text(outbox'[q]) = sent[q]
    <3>1. CASE q = r BY <2>1, <2>2, <3>1
    <3>2. CASE q # r
      <4>1. got'[q] = got[q] /\ outbox'[q] = outbox[q] BY <1>6, <1>8, <3>2, SubmittedIds
      <4> QED BY <2>2, <4>1 DEF IInv, NothingLost
    <3> QED BY <3>1, <3>2
  <2> QED BY Zenon, <1>1, <2>2 DEF NothingLost, Text, None
<1>18. NotYet' BY <1>1 DEF IInv, NotYet, InInbox, InPool
<1>19. EndsOnce'
  <2>1. SUFFICES ASSUME max_batch_size = 1, NEW q \in 1..Len(request)
                 PROVE  /\ \A i \in 1..Len(outbox'[q]) :
                              Ends(q, outbox'[q][i]) => i = Len(outbox'[q]) /\ ~Pending(q)
                        /\ client'[q] = "done" => outbox'[q] = <<>> /\ ~Pending(q)
    BY <1>1, <1>10 DEF EndsOnce, Ends, None
  <2>2. /\ \A i \in 1..Len(outbox[q]) :
              Ends(q, outbox[q][i]) => i = Len(outbox[q]) /\ ~Pending(q)
        /\ client[q] = "done" => outbox[q] = <<>> /\ ~Pending(q)
    BY <2>1 DEF IInv, EndsOnce
  <2>3. CASE q # r BY <1>6, <1>8, <2>2, <2>3, SubmittedIds
  <2>4. CASE q = r
    <3>1. ASSUME NEW i \in 1..Len(rest), Ends(r, rest[i])
          PROVE  i = Len(rest) /\ ~Pending(r)
      BY <1>5, <2>2, <2>4, <3>1
    <3>2. ASSUME client'[r] = "done" PROVE rest = <<>> /\ ~Pending(r)
      <4>1. Ends(r, outbox[r][1]) BY <1>5, <1>8, <3>2
      <4>2. 1 \in 1..Len(outbox[r]) BY <1>5
      <4>3. Len(outbox[r]) = 1 /\ ~Pending(r) BY <2>2, <2>4, <4>1, <4>2
      <4>4. Len(rest) = 0 BY <1>5, <4>3
      <4> QED BY <1>5, <4>3, <4>4
    <3> QED BY <1>6, <2>4, <3>1, <3>2
  <2> QED BY <2>3, <2>4
<1> QED BY <1>9, <1>11, <1>12, <1>13, <1>14, <1>15, <1>16, <1>17, <1>18, <1>19 DEF IInv

(* The worker moves a request from its queue to the pool.                  *)
LEMMA PoolRequestStep == ASSUME IInv, PoolRequest PROVE IInv'
<1> DEFINE r == Head(inbox)
<1>1. /\ inbox # <<>> /\ r \in Ids /\ r \in 1..Len(request) /\ inbox' = Tail(inbox)
      /\ pool' \in Seq(Entry)
  BY PoolRequestFacts
<1>2. PICK k : AddedTo(k, r) BY PoolRequestFacts
<1>3. /\ thread = "fetch"
      /\ UNCHANGED <<max_batch_size, strict, client, request, got, batch, kwargs, thread,
                     adapters_pool, chunks, outbox, sent, raises>>
  BY DEF PoolRequest, engineVars, clientVars
<1>16. NamedWith' = NamedWith BY <1>3, SameNames
<1>4. /\ Once'
      /\ \A q \in Ids : /\ InInbox(q)' => InInbox(q)
                        /\ InPool(q)' => InPool(q) \/ InInbox(q)
                        /\ ~InBatch(q)'
                        /\ Pending(q)' => Pending(q)
  <2>1. InInbox(r)
    <3>1. inbox \in Seq(Ids) BY DEF IInv, Types
    <3>2. Len(inbox) \in Nat /\ Len(inbox) >= 1 /\ r = inbox[1] BY <1>1, <3>1, TailFacts
    <3> QED BY <3>2 DEF InInbox
  <2>2. /\ Once'
        /\ \A q \in Ids : /\ InInbox(q)' => InInbox(q) /\ q # r
                          /\ InPool(q)' => InPool(q) \/ q = r
                          /\ ~InBatch(q)'
    BY PoolRequestPlaces
  <2>3. ASSUME NEW q \in Ids PROVE Pending(q)' => Pending(q)
    BY <2>1, <2>2 DEF Pending
  <2> QED BY <2>1, <2>2, <2>3
<1>5. Types'
  <2>1. inbox' \in Seq(Ids)
    <3>1. inbox \in Seq(Ids) BY DEF IInv, Types
    <3> QED BY <1>1, <3>1, TailFacts
  <2> QED BY <1>1, <1>3, <2>1 DEF IInv, Types
<1>6. /\ \A a, b \in 1..Len(pool) : pool[a].key = pool[b].key => a = b
      /\ \A a \in 1..Len(pool) :
            /\ pool[a].data # <<>> /\ pool[a].kwargs.config = pool[a].key
            /\ \A i \in 1..Len(pool[a].data) : request[pool[a].data[i]].config = pool[a].key
  BY DEF IInv, PoolOfKeys
<1>17. \A a \in 1..Len(pool) : <<pool[a].key, pool[a].kwargs.adapter>> \in NamedWith
  BY DEF IInv, PoolOfKeys
<1> HIDE DEF r
<1>7. /\ k \in 1..Len(pool')
      /\ \A a \in 1..Len(pool') : a # k => a \in 1..Len(pool) /\ pool'[a] = pool[a]
      /\ pool'[k].key = PoolKey(r) /\ pool'[k].kwargs.config = PoolKey(r)
      /\ k \in 1..Len(pool) => pool[k].key = PoolKey(r) /\ pool'[k].kwargs = pool[k].kwargs
      /\ k \notin 1..Len(pool) => /\ \A l \in 1..Len(pool) : pool[l].key # PoolKey(r)
                                  /\ pool'[k].kwargs.adapter = request[r].adapter
      /\ pool'[k].data = IF k \in 1..Len(pool) THEN Append(pool[k].data, r) ELSE <<r>>
  BY <1>2 DEF AddedTo
<1>8. PoolOfKeys'
  <2>1. ASSUME NEW b \in 1..Len(pool'), pool'[b].key = PoolKey(r) PROVE b = k
    BY <1>6, <1>7, <2>1
  <2>2. ASSUME NEW a \in 1..Len(pool'), NEW b \in 1..Len(pool'), pool'[a].key = pool'[b].key
        PROVE  a = b
    <3>1. CASE a = k BY <1>7, <2>1, <2>2, <3>1
    <3>2. CASE b = k BY <1>7, <2>1, <2>2, <3>2
    <3>3. CASE a # k /\ b # k BY <1>6, <1>7, <2>2, <3>3
    <3> QED BY <3>1, <3>2, <3>3
  <2>3. ASSUME NEW a \in 1..Len(pool')
        PROVE  pool'[a].data # <<>> /\ pool'[a].kwargs.config = pool'[a].key
    <3>1. CASE a # k BY <1>6, <1>7, <3>1
    <3>2. CASE a = k
      <4>1. CASE k \in 1..Len(pool)
        <5>1. pool \in Seq(Entry) BY DEF IInv, Types
        <5>2. pool[k] \in Entry BY <4>1, <5>1, LenFacts
        <5>3. pool[k].data \in Seq(Ids) BY <5>2 DEF Entry
        <5>4. Len(Append(pool[k].data, r)) >= 1 BY <1>1, <5>3, AppendFacts, LenFacts
        <5>5. Len(<<>>) = 0 OBVIOUS
        <5>6. Append(pool[k].data, r) # <<>> BY <5>4, <5>5
        <5> QED BY <1>7, <3>2, <4>1, <5>6
      <4>2. CASE k \notin 1..Len(pool)
        <5>1. Len(<<r>>) = 1 /\ Len(<<>>) = 0 OBVIOUS
        <5>2. <<r>> # <<>> BY <5>1
        <5>3. pool'[k].data = <<r>> BY <1>7, <4>2
        <5> QED BY <1>7, <3>2, <5>2, <5>3
      <4> QED BY <4>1, <4>2
    <3> QED BY <3>1, <3>2
  <2>4. ASSUME NEW a \in 1..Len(pool'), NEW i \in 1..Len(pool'[a].data)
        PROVE  request[pool'[a].data[i]].config = pool'[a].key
    <3>1. CASE a # k BY <1>6, <1>7, <2>4, <3>1
    <3>2. CASE a = k
      <4>1. \/ pool'[a].data[i] = r
            \/ /\ a \in 1..Len(pool) /\ i \in 1..Len(pool[a].data)
               /\ pool'[a].data[i] = pool[a].data[i]
        BY <1>1, <1>2, <2>4, PoolAfterAdd
      <4>2. CASE pool'[a].data[i] = r BY <1>7, <3>2, <4>2 DEF PoolKey
      <4>3. CASE /\ a \in 1..Len(pool) /\ i \in 1..Len(pool[a].data)
                 /\ pool'[a].data[i] = pool[a].data[i]
        <5>1. request[pool[a].data[i]].config = pool[a].key BY <1>6, <4>3
        <5>2. pool[a].key = pool'[a].key BY <1>7, <3>2, <4>3
        <5> QED BY Zenon, <4>3, <5>1, <5>2
      <4> QED BY <4>1, <4>2, <4>3
    <3> QED BY <3>1, <3>2
  <2>5. ASSUME NEW a \in 1..Len(pool')
        PROVE  <<pool'[a].key, pool'[a].kwargs.adapter>> \in NamedWith
    <3>1. CASE a # k BY <1>7, <1>17, <3>1
    <3>2. CASE a = k /\ k \in 1..Len(pool)
      <4>1. pool'[a].kwargs = pool[a].kwargs /\ pool'[a].key = pool[a].key
        BY <1>7, <3>2
      <4> QED BY <1>17, <3>2, <4>1
    <3>3. CASE a = k /\ k \notin 1..Len(pool)
      <4>1. pool'[a].key = request[r].config /\ pool'[a].kwargs.adapter = request[r].adapter
        BY <1>7, <3>3 DEF PoolKey
      <4> QED BY <1>1, <4>1 DEF NamedWith
    <3> QED BY <3>1, <3>2, <3>3
  <2> QED BY <1>3, <1>16, <2>2, <2>3, <2>4, <2>5 DEF PoolOfKeys
<1>9. BatchOfConfig' BY <1>3 DEF IInv, BatchOfConfig
<1>10. Submitted' BY <1>3, <1>4 DEF IInv, Submitted
<1>11. OwnAnswer' BY <1>3, <1>16 DEF IInv, OwnAnswer
<1>12. OwnOutbox' BY <1>3, <1>16 DEF IInv, OwnOutbox, Fits
<1>13. NothingLost' BY <1>3 DEF IInv, NothingLost, Text, None
<1>14. NotYet' BY <1>3, <1>4 DEF IInv, NotYet
<1>15. EndsOnce'
  <2>1. ASSUME NEW q \in 1..Len(request) PROVE ~Pending(q) => ~Pending(q)'
    <3>1. q \in Ids BY SubmittedIds
    <3> QED BY <1>4, <3>1
  <2> QED BY <1>3, <2>1 DEF IInv, EndsOnce, Ends, None
<1> QED BY <1>4, <1>5, <1>8, <1>9, <1>10, <1>11, <1>12, <1>13, <1>14, <1>15 DEF IInv

(* The worker takes a batch from the pool.                                 *)
LEMMA FetchBatchStep == ASSUME IInv, FetchBatch PROVE IInv'
<1>1. /\ batch' \in Seq(Ids) /\ pool' \in Seq(Entry)
      /\ kwargs' = pool[1].kwargs /\ kwargs' \in Kwargs
  BY FetchBatchFacts
<1>2. PICK s, n : TakenFrom(s, n) BY FetchBatchFacts
<1>3. /\ thread = "fetch" /\ thread' = "infer" /\ inbox' = inbox
      /\ UNCHANGED <<max_batch_size, strict, client, request, got,
                     adapters_pool, chunks, outbox, sent, raises>>
  BY DEF FetchBatch, engineVars, clientVars
<1>19. NamedWith' = NamedWith BY <1>3, SameNames
<1>4. /\ Once'
      /\ \A q \in Ids : /\ ~InInbox(q)'
                        /\ InPool(q)' => InPool(q)
                        /\ InBatch(q)' => InPool(q)
                        /\ Pending(q)' => Pending(q)
  BY FetchBatchPlaces DEF Pending
<1>5. Types' BY <1>1, <1>3 DEF IInv, Types
<1>6. /\ \A a, b \in 1..Len(pool) : pool[a].key = pool[b].key => a = b
      /\ \A a \in 1..Len(pool) :
            /\ pool[a].data # <<>> /\ pool[a].kwargs.config = pool[a].key
            /\ <<pool[a].key, pool[a].kwargs.adapter>> \in NamedWith
            /\ \A i \in 1..Len(pool[a].data) : request[pool[a].data[i]].config = pool[a].key
  BY DEF IInv, PoolOfKeys
<1>7. \A a \in 1..Len(pool) : pool[a].data \in Seq(Ids) /\ Len(pool[a].data) \in Nat
  <2>1. pool \in Seq(Entry) BY DEF IInv, Types
  <2>2. ASSUME NEW a \in 1..Len(pool) PROVE pool[a].data \in Seq(Ids)
    <3>1. pool[a] \in Entry BY <2>1, LenFacts
    <3> QED BY <3>1 DEF Entry
  <2> QED BY <2>2, LenFacts
<1>8. /\ s \in {0, 1} /\ n \in Nat /\ n >= 1 /\ pool # <<>> /\ n <= Len(pool[1].data)
      /\ max_batch_size > 0 => n <= max_batch_size
      /\ Len(batch') = n /\ \A i \in 1..n : batch'[i] = pool[1].data[i]
      /\ s = 0 => n < Len(pool[1].data)
      /\ Len(pool) \in Nat /\ Len(pool') = Len(pool) - s
      /\ \A l \in 1..Len(pool') :
            /\ l + s \in 1..Len(pool)
            /\ pool'[l].key = pool[l + s].key /\ pool'[l].kwargs = pool[l + s].kwargs
            /\ Len(pool'[l].data) = Len(pool[l + s].data) - Offset(l, s, n)
            /\ \A i \in 1..Len(pool'[l].data) :
                  pool'[l].data[i] = pool[l + s].data[i + Offset(l, s, n)]
  BY <1>2 DEF TakenFrom
<1>9. 1 \in 1..Len(pool)
  <2>1. pool \in Seq(Entry) BY DEF IInv, Types
  <2> QED BY <1>8, <2>1, LenFacts
<1>10. \A l : Offset(l, s, n) = IF s = 0 /\ l = 1 THEN n ELSE 0 BY DEF Offset
<1>11. PoolOfKeys'
  <2>1. ASSUME NEW a \in 1..Len(pool'), NEW b \in 1..Len(pool'), pool'[a].key = pool'[b].key
        PROVE  a = b
    <3>1. a + s \in 1..Len(pool) /\ b + s \in 1..Len(pool) BY <1>8
    <3>2. pool[a + s].key = pool[b + s].key BY <1>8, <2>1
    <3>3. a + s = b + s BY <1>6, <3>1, <3>2
    <3>4. a \in Int /\ b \in Int /\ s \in Int BY <1>8
    <3> QED BY <3>3, <3>4
  <2>2. ASSUME NEW l \in 1..Len(pool')
        PROVE  /\ pool'[l].data # <<>> /\ pool'[l].kwargs.config = pool'[l].key
               /\ <<pool'[l].key, pool'[l].kwargs.adapter>> \in NamedWith
               /\ \A i \in 1..Len(pool'[l].data) :
                     request[pool'[l].data[i]].config = pool'[l].key
    <3> DEFINE o == Offset(l, s, n)
               m == Len(pool[l + s].data)
    <3>1. /\ l + s \in 1..Len(pool)
          /\ pool'[l].key = pool[l + s].key /\ pool'[l].kwargs = pool[l + s].kwargs
          /\ Len(pool'[l].data) = m - o
          /\ \A i \in 1..Len(pool'[l].data) : pool'[l].data[i] = pool[l + s].data[i + o]
      BY <1>8
    <3>2. m \in Nat /\ m >= 1
      <4>1. pool[l + s].data \in Seq(Ids) /\ pool[l + s].data # <<>> BY <1>6, <1>7, <3>1
      <4> QED BY <4>1, LenFacts
    <3>3. o \in Nat /\ o < m
      <4>1. CASE s = 0 /\ l = 1
        <5>1. o = n /\ m = Len(pool[1].data) BY <1>10, <4>1
        <5> QED BY <1>8, <4>1, <5>1
      <4>2. CASE ~(s = 0 /\ l = 1) BY <1>10, <3>2, <4>2
      <4> QED BY <4>1, <4>2
    <3> HIDE DEF o, m
    <3>4. pool'[l].data # <<>>
      <4>1. Len(pool'[l].data) > 0 BY <3>1, <3>2, <3>3
      <4>2. Len(<<>>) = 0 OBVIOUS
      <4> QED BY <4>1, <4>2
    <3>5. ASSUME NEW i \in 1..Len(pool'[l].data)
          PROVE  request[pool'[l].data[i]].config = pool'[l].key
      <4>1. i + o \in 1..m BY <3>1, <3>2, <3>3
      <4>2. pool'[l].data[i] = pool[l + s].data[i + o] BY <3>1
      <4> QED BY <1>6, <3>1, <4>1, <4>2 DEF m
    <3> QED BY <1>6, <3>1, <3>4, <3>5
  <2> QED BY <1>3, <1>19, <2>1, <2>2 DEF PoolOfKeys
<1>12. BatchOfConfig'
  <2>1. ASSUME NEW i \in 1..Len(batch') PROVE request[batch'[i]].config = kwargs'.config
    <3>1. i \in 1..Len(pool[1].data) BY <1>7, <1>8, <1>9
    <3>2. batch'[i] = pool[1].data[i] BY <1>8
    <3>3. kwargs'.config = pool[1].key BY <1>1, <1>6, <1>9
    <3> QED BY <1>6, <1>9, <3>1, <3>2, <3>3
  <2>2. batch' # <<>>
    <3>1. Len(<<>>) = 0 OBVIOUS
    <3> QED BY <1>8, <3>1
  <2>3. max_batch_size > 0 => Len(batch') <= max_batch_size BY <1>8
  <2>4. <<kwargs'.config, kwargs'.adapter>> \in NamedWith BY <1>1, <1>6, <1>9
  <2> QED BY <1>1, <1>3, <1>19, <2>1, <2>2, <2>3, <2>4 DEF BatchOfConfig
<1>13. Submitted' BY <1>3, <1>4 DEF IInv, Submitted
<1>14. OwnAnswer' BY <1>3, <1>19 DEF IInv, OwnAnswer
<1>15. OwnOutbox' BY <1>3, <1>19 DEF IInv, OwnOutbox, Fits
<1>16. NothingLost' BY <1>3 DEF IInv, NothingLost, Text, None
<1>17. NotYet'
  <2>1. \A q \in Ids : (InInbox(q)' \/ InPool(q)') => sent[q] = <<>>
    BY <1>4 DEF IInv, NotYet
  <2>2. ASSUME NEW q \in Ids, NEW i \in 1..Len(batch'), batch'[i] = q PROVE sent[q] = <<>>
    <3>1. InBatch(q)' BY <2>2 DEF InBatch
    <3>2. InPool(q) BY <1>4, <3>1
    <3> QED BY <3>2 DEF IInv, NotYet
  <2>3. \A i \in 1..Len(batch') : batch'[i] \in Ids BY <1>1, LenFacts
  <2>4. \A i \in 1..Len(batch') : sent[batch'[i]] = <<>> BY <2>2, <2>3
  <2> QED BY <1>3, <2>1, <2>4 DEF NotYet
<1>18. EndsOnce'
  <2>1. ASSUME NEW q \in 1..Len(request) PROVE ~Pending(q) => ~Pending(q)'
    <3>1. q \in Ids BY SubmittedIds
    <3> QED BY <1>4, <3>1
  <2> QED BY <1>3, <2>1 DEF IInv, EndsOnce, Ends, None
<1> QED BY <1>4, <1>5, <1>11, <1>12, <1>13, <1>14, <1>15, <1>16, <1>17, <1>18 DEF IInv

(* What a delivery to the requests of the batch preserves: an item that    *)
(* ends a request, in a batch of one, comes with the end of the batch.     *)
LEMMA Delivered ==
    ASSUME IInv, NEW F,
           outbox' = [r \in Ids |-> IF InBatch(r) THEN Append(outbox[r], F[r]) ELSE outbox[r]],
           UNCHANGED <<max_batch_size, client, request, got, inbox, pool>>,
           batch' \in {batch, <<>>},
           \A r \in Ids : InBatch(r) =>
              /\ F[r] \in Items \cup {None}
              /\ IF F[r] = None THEN request[r].config \in Streams ELSE Fits(r, F[r]),
           \A r \in Ids : (InBatch(r) /\ max_batch_size = 1 /\ Ends(r, F[r])) => batch' = <<>>,
           \A r \in Ids : ~InBatch(r) => sent'[r] = sent[r]
    PROVE  /\ outbox' \in [Ids -> Seq(Items \cup {None})]
           /\ Once' /\ PoolOfKeys' /\ Submitted' /\ OwnAnswer' /\ OwnOutbox' /\ EndsOnce'
           /\ \A r \in Ids : (InInbox(r)' \/ InPool(r)') => sent'[r] = <<>>
<1> DEFINE B == Items \cup {None}
<1>1. /\ outbox \in [Ids -> Seq(B)] /\ batch \in Seq(Ids)
      /\ \A r \in Ids : InBatch(r) => F[r] \in B
  BY DEF IInv, Types
<1> HIDE DEF B
<1>2. ASSUME NEW r \in Ids, InBatch(r)
      PROVE  /\ outbox'[r] \in Seq(B) /\ Len(outbox'[r]) = Len(outbox[r]) + 1
             /\ Len(outbox[r]) \in Nat /\ outbox'[r][Len(outbox[r]) + 1] = F[r]
             /\ \A i \in 1..Len(outbox[r]) : outbox'[r][i] = outbox[r][i]
  <2> DEFINE q == outbox[r]
             x == F[r]
  <2>1. q \in Seq(B) /\ x \in B BY <1>1, <1>2
  <2>2. outbox'[r] = Append(q, x) BY <1>2
  <2> HIDE DEF q, x
  <2> QED BY <2>1, <2>2, AppendFacts DEF q, x
<1>3. ASSUME NEW r \in Ids, ~InBatch(r) PROVE outbox'[r] = outbox[r] BY <1>3
<1>4. outbox' \in [Ids -> Seq(B)]
  <2>1. \A r \in Ids : outbox'[r] \in Seq(B) BY <1>1, <1>2, <1>3
  <2>2. outbox' = [r \in Ids |-> outbox'[r]] OBVIOUS
  <2> QED BY <2>1, <2>2
<1>5. ASSUME NEW q
      PROVE  /\ InInbox(q)' <=> InInbox(q)
             /\ InPool(q)' <=> InPool(q)
             /\ InBatch(q)' => InBatch(q)
             /\ batch' = <<>> => ~InBatch(q)'
             /\ Pending(q)' => Pending(q)
  <2>1. (InInbox(q)' <=> InInbox(q)) /\ (InPool(q)' <=> InPool(q)) BY DEF InInbox, InPool
  <2>2. batch' = <<>> => ~InBatch(q)'
    <3>1. Len(<<>>) = 0 OBVIOUS
    <3> QED BY <3>1 DEF InBatch
  <2>3. batch' = batch => (InBatch(q)' <=> InBatch(q)) BY DEF InBatch
  <2> QED BY <2>1, <2>2, <2>3 DEF Pending
<1>13. NamedWith' = NamedWith BY SameNames
<1>6. Once'
  <2>1. \A i, j \in 1..Len(batch') : batch'[i] = batch'[j] => i = j
    <3>1. Len(<<>>) = 0 OBVIOUS
    <3>2. CASE batch' = batch BY <3>2 DEF IInv, Once
    <3>3. CASE batch' = <<>> BY <3>1, <3>3
    <3> QED BY <3>2, <3>3
  <2>2. \A r \in Ids : /\ ~(InInbox(r)' /\ InPool(r)')
                       /\ ~(InInbox(r)' /\ InBatch(r)')
                       /\ ~(InPool(r)' /\ InBatch(r)')
    BY <1>5 DEF IInv, Once
  <2> QED BY <2>1, <2>2 DEF IInv, Once
<1>7. PoolOfKeys' BY <1>13 DEF IInv, PoolOfKeys
<1>8. Submitted'
  <2>1. \A r \in Ids : ~(r <= Len(request)) =>
           ~Pending(r)' /\ outbox'[r] = outbox[r] /\ sent'[r] = sent[r]
    BY <1>3, <1>5 DEF IInv, Submitted, Pending
  <2> QED BY <2>1 DEF IInv, Submitted
<1>9. OwnAnswer' BY <1>13 DEF IInv, OwnAnswer
<1>10. OwnOutbox'
  <2>1. ASSUME NEW r \in Ids, NEW i \in 1..Len(outbox'[r])
        PROVE  IF outbox'[r][i] = None THEN request[r].config \in Streams
               ELSE Fits(r, outbox'[r][i])
    <3>1. CASE ~InBatch(r) BY <1>3, <3>1 DEF IInv, OwnOutbox
    <3>2. CASE InBatch(r) /\ i = Len(outbox[r]) + 1 BY <1>2, <3>2
    <3>3. CASE InBatch(r) /\ i # Len(outbox[r]) + 1
      <4>1. i \in 1..Len(outbox[r]) /\ outbox'[r][i] = outbox[r][i] BY <1>2, <3>3
      <4> QED BY <4>1 DEF IInv, OwnOutbox
    <3> QED BY <3>1, <3>2, <3>3
  <2>2. request' = request /\ None' = None BY DEF None
  <2> QED BY SMT, <1>13, <2>1, <2>2 DEF OwnOutbox, Fits
<1>11. EndsOnce'
  <2>1. SUFFICES ASSUME max_batch_size = 1, NEW r \in 1..Len(request)
                 PROVE  /\ \A i \in 1..Len(outbox'[r]) :
                              Ends(r, outbox'[r][i]) => i = Len(outbox'[r]) /\ ~Pending(r)'
                        /\ client[r] = "done" => outbox'[r] = <<>> /\ ~Pending(r)'
    BY DEF EndsOnce, Ends, None
  <2>2. r \in Ids BY SubmittedIds
  <2>3. /\ \A i \in 1..Len(outbox[r]) :
              Ends(r, outbox[r][i]) => i = Len(outbox[r]) /\ ~Pending(r)
        /\ client[r] = "done" => outbox[r] = <<>> /\ ~Pending(r)
    BY <2>1 DEF IInv, EndsOnce
  <2>4. CASE ~InBatch(r) BY <1>3, <1>5, <2>2, <2>3, <2>4
  <2>5. CASE InBatch(r)
    <3>1. client[r] # "done" /\ \A i \in 1..Len(outbox[r]) : ~Ends(r, outbox[r][i])
      BY <2>3, <2>5 DEF Pending
    <3>2. ASSUME NEW i \in 1..Len(outbox'[r]), Ends(r, outbox'[r][i])
          PROVE  i = Len(outbox'[r]) /\ ~Pending(r)'
      <4>1. i = Len(outbox[r]) + 1
        <5>1. i # Len(outbox[r]) + 1 =>
                 i \in 1..Len(outbox[r]) /\ outbox'[r][i] = outbox[r][i]
          BY <1>2, <2>2, <2>5
        <5> QED BY <3>1, <3>2, <5>1
      <4>2. outbox'[r][i] = F[r] /\ i = Len(outbox'[r]) BY <1>2, <2>2, <2>5, <4>1
      <4>3. batch' = <<>> BY <2>1, <2>2, <2>5, <3>2, <4>2
      <4>4. ~InBatch(r)' /\ ~InInbox(r)' /\ ~InPool(r)'
        BY <1>5, <2>2, <2>5, <4>3 DEF IInv, Once
      <4> QED BY <4>2, <4>4 DEF Pending
    <3> QED BY <3>1, <3>2
  <2> QED BY <2>4, <2>5
<1>12. \A r \in Ids : (InInbox(r)' \/ InPool(r)') => sent'[r] = <<>>
  BY <1>5 DEF IInv, Once, NotYet
<1> QED BY <1>4, <1>6, <1>7, <1>8, <1>9, <1>10, <1>11, <1>12 DEF B

(* A round of results for the requests rs.                                 *)
LEMMA RoundStep ==
    ASSUME IInv, thread \in {"infer", "stream"}, NEW rs, rs \subseteq Range(Good),
           Deliver(Outputs(rs)), Generated(rs),
           UNCHANGED <<max_batch_size, client, request, got, inbox, pool>>,
           batch' \in {batch, <<>>},
           kwargs.config \notin Streams => batch' = <<>> /\ rs = Range(Good),
           rs # {} \/ rs = Range(Good)
    PROVE  /\ outbox' \in [Ids -> Seq(Items \cup {None})] /\ sent' \in [Ids -> Seq(Items)]
           /\ Once' /\ PoolOfKeys' /\ Submitted' /\ OwnAnswer' /\ OwnOutbox' /\ EndsOnce'
           /\ NothingLost'
           /\ \A r \in Ids : (InInbox(r)' \/ InPool(r)') => sent'[r] = <<>>
           /\ \A r \in Ids : InBatch(r) => Len(sent'[r]) <= Len(sent[r]) + 1
<1> DEFINE F == Result(rs)
<1>1. /\ outbox' = [r \in Ids |-> IF InBatch(r) THEN Append(outbox[r], F[r]) ELSE outbox[r]]
      /\ sent' \in [Ids -> Seq(Items)]
      /\ \A r \in Ids : ~InBatch(r) => outbox'[r] = outbox[r] /\ sent'[r] = sent[r]
      /\ \A r \in Ids : InBatch(r) => Len(sent'[r]) <= Len(sent[r]) + 1
      /\ NothingLost'
  BY RoundFacts
<1>2. \A r \in Ids : InBatch(r) =>
         /\ F[r] \in Items \cup {None}
         /\ F[r] = None <=> (~request[r].bad /\ r \notin rs)
         /\ F[r] # None => Fits(r, F[r])
  BY ResultFacts
<1> HIDE DEF F
<1>3. /\ batch \in Seq(Ids)
      /\ \A r \in Ids : InBatch(r) => request[r].config = kwargs.config
  BY BatchFacts
<1>4. /\ \A r \in Ids : r \in Range(Good) <=> InBatch(r) /\ ~request[r].bad
      /\ Range(Good) \subseteq Ids
  <2>1. Good \in Seq(Ids) BY <1>3, GoodRequests
  <2>2. Range(Good) \subseteq Ids BY <2>1, LenFacts, RangeEquality
  <2> QED BY <1>3, <2>2, GoodRequests
<1>5. ASSUME NEW r \in Ids, InBatch(r), F[r] = None
      PROVE  request[r].config \in Streams /\ rs # Range(Good)
  <2>1. ~request[r].bad /\ r \notin rs BY <1>2, <1>5
  <2>2. rs # Range(Good) BY <1>4, <1>5, <2>1
  <2> QED BY <1>3, <1>5, <2>2
<1>6. ASSUME NEW r \in Ids, InBatch(r), max_batch_size = 1, Ends(r, F[r]) PROVE batch' = <<>>
  <2>1. CASE kwargs.config \notin Streams BY <2>1
  <2>2. CASE kwargs.config \in Streams
    <3>1. F[r] = None BY <1>3, <1>6, <2>2 DEF Ends
    <3>2. ~request[r].bad /\ r \notin rs /\ rs # Range(Good) BY <1>2, <1>5, <1>6, <3>1
    <3>3. PICK q \in rs : TRUE BY <3>2
    <3>4. q \in Ids /\ InBatch(q) BY <1>4, <3>3
    <3>5. Len(batch) <= 1 BY <1>6 DEF IInv, BatchOfConfig
    <3>6. PICK i \in 1..Len(batch) : batch[i] = q BY <3>4 DEF InBatch
    <3>7. PICK j \in 1..Len(batch) : batch[j] = r BY <1>6 DEF InBatch
    <3>8. Len(batch) \in Nat BY <1>3, LenFacts
    <3>9. i = j BY <3>5, <3>8
    <3> QED BY <3>2, <3>3, <3>6, <3>7, <3>9
  <2> QED BY <2>1, <2>2
<1>7. /\ outbox' \in [Ids -> Seq(Items \cup {None})]
      /\ Once' /\ PoolOfKeys' /\ Submitted' /\ OwnAnswer' /\ OwnOutbox' /\ EndsOnce'
      /\ \A r \in Ids : (InInbox(r)' \/ InPool(r)') => sent'[r] = <<>>
  <2>1. \A r \in Ids : InBatch(r) =>
           /\ F[r] \in Items \cup {None}
           /\ IF F[r] = None THEN request[r].config \in Streams ELSE Fits(r, F[r])
    BY <1>2, <1>5
  <2>2. \A r \in Ids : (InBatch(r) /\ max_batch_size = 1 /\ Ends(r, F[r])) => batch' = <<>>
    BY <1>6
  <2>3. \A r \in Ids : ~InBatch(r) => sent'[r] = sent[r] BY <1>1
  <2> QED BY <1>1, <2>1, <2>2, <2>3, Delivered
<1> QED BY <1>1, <1>7

(* A batch without streaming runs.                                         *)
LEMMA InferFullStep == ASSUME IInv, InferFull PROVE IInv'
<1>1. /\ thread = "infer" /\ kwargs.config \notin Streams /\ UseAdapter
      /\ Deliver(Outputs(Range(Good))) /\ Generated(Range(Good))
      /\ thread' = "fetch" /\ batch' = <<>> /\ kwargs' = NoKwargs
      /\ UNCHANGED <<max_batch_size, strict, client, request, got, inbox, pool, chunks, raises>>
  BY DEF InferFull, engineVars, clientVars
<1>2. /\ outbox' \in [Ids -> Seq(Items \cup {None})] /\ sent' \in [Ids -> Seq(Items)]
      /\ Once' /\ PoolOfKeys' /\ Submitted' /\ OwnAnswer' /\ OwnOutbox' /\ EndsOnce'
      /\ NothingLost'
      /\ \A r \in Ids : (InInbox(r)' \/ InPool(r)') => sent'[r] = <<>>
  BY <1>1, RoundStep
<1>3. adapters_pool' \subseteq Adapters \ {"base"}
  <2>1. kwargs \in Kwargs BY <1>1, BatchFacts
  <2> QED BY <1>1, <2>1 DEF UseAdapter, Kwargs, IInv, Types
<1>4. Types'
  <2>1. batch' \in Seq(Ids) BY <1>1
  <2> QED BY <1>1, <1>2, <1>3, <2>1 DEF IInv, Types
<1>5. BatchOfConfig'
  <2>1. max_batch_size \in Int BY EngineAssumption DEF IInv, Types
  <2>2. Len(<<>>) = 0 OBVIOUS
  <2> QED BY <1>1, <2>1, <2>2 DEF BatchOfConfig
<1>6. NotYet' BY <1>1, <1>2 DEF NotYet
<1> QED BY <1>2, <1>4, <1>5, <1>6 DEF IInv

(* A batch with streaming starts.                                          *)
LEMMA InferStreamStep == ASSUME IInv, InferStream PROVE IInv'
<1>1. /\ thread = "infer" /\ kwargs.config \in Streams /\ UseAdapter
      /\ chunks' = 0 /\ thread' = "stream"
      /\ UNCHANGED <<max_batch_size, strict, client, request, got, inbox, pool, batch, kwargs,
                     outbox, sent, raises>>
  BY DEF InferStream, engineVars, clientVars, batchVars
<1>2. adapters_pool' \subseteq Adapters \ {"base"}
  <2>1. kwargs \in Kwargs BY <1>1, BatchFacts
  <2> QED BY <1>1, <2>1 DEF UseAdapter, Kwargs, IInv, Types
<1>3. Types' BY <1>1, <1>2, EngineAssumption DEF IInv, Types
<1>4. \A q : Pending(q)' <=> Pending(q) BY <1>1 DEF Pending, InInbox, InPool, InBatch
<1>5. Once'
  <2>1. \A q : /\ InInbox(q)' <=> InInbox(q)
               /\ InPool(q)' <=> InPool(q)
               /\ InBatch(q)' <=> InBatch(q)
    BY <1>1 DEF InInbox, InPool, InBatch
  <2> QED BY <1>1, <2>1 DEF IInv, Once
<1>6. PoolOfKeys' BY <1>1, SameNames DEF IInv, PoolOfKeys
<1>7. BatchOfConfig' BY <1>1, SameNames DEF IInv, BatchOfConfig
<1>8. Submitted' BY <1>1, <1>4 DEF IInv, Submitted
<1>9. OwnAnswer' BY <1>1, SameNames DEF IInv, OwnAnswer
<1>10. OwnOutbox' BY <1>1, SameNames DEF IInv, OwnOutbox, Fits
<1>11. NothingLost' BY <1>1 DEF IInv, NothingLost, Text, None
<1>12. NotYet'
  <2>1. Len(<<>>) = 0 OBVIOUS
  <2>2. \A i \in 1..Len(batch) : Len(sent[batch[i]]) <= 0 BY <1>1, <2>1 DEF IInv, NotYet
  <2> QED BY <1>1, <2>2 DEF IInv, NotYet, InInbox, InPool
<1>13. EndsOnce' BY <1>1, <1>4 DEF IInv, EndsOnce, Ends, None
<1> QED BY <1>3, <1>5, <1>6, <1>7, <1>8, <1>9, <1>10, <1>11, <1>12, <1>13 DEF IInv

(* A round of a stream.                                                    *)
LEMMA StreamRoundStep == ASSUME IInv, StreamRound PROVE IInv'
<1>1. PICK rs \in (SUBSET Range(Good)) \ {{}} : Deliver(Outputs(rs)) /\ Generated(rs)
  BY DEF StreamRound
<1>2. /\ thread = "stream" /\ chunks < MaxChunks /\ chunks' = chunks + 1
      /\ UNCHANGED <<max_batch_size, strict, client, request, got, inbox, pool, batch, kwargs,
                     thread, adapters_pool, raises>>
  BY DEF StreamRound, engineVars, clientVars, batchVars
<1>3. kwargs.config \in Streams BY <1>2 DEF IInv, BatchOfConfig
<1>4. /\ outbox' \in [Ids -> Seq(Items \cup {None})] /\ sent' \in [Ids -> Seq(Items)]
      /\ Once' /\ PoolOfKeys' /\ Submitted' /\ OwnAnswer' /\ OwnOutbox' /\ EndsOnce'
      /\ NothingLost'
      /\ \A r \in Ids : (InInbox(r)' \/ InPool(r)') => sent'[r] = <<>>
      /\ \A r \in Ids : InBatch(r) => Len(sent'[r]) <= Len(sent[r]) + 1
  <2>1. /\ thread \in {"infer", "stream"} /\ rs \subseteq Range(Good) /\ rs # {}
        /\ batch' \in {batch, <<>>}
        /\ Deliver(Outputs(rs)) /\ Generated(rs)
        /\ UNCHANGED <<max_batch_size, client, request, got, inbox, pool>>
    BY <1>1, <1>2
  <2>2. kwargs.config \notin Streams => batch' = <<>> /\ rs = Range(Good) BY <1>3
  <2>3. rs # {} \/ rs = Range(Good) BY <2>1
  <2> HIDE DEF Range
  <2> QED BY Zenon, <2>1, <2>2, <2>3, RoundStep
<1>5. chunks \in Nat /\ chunks' \in 0..MaxChunks BY <1>2, EngineAssumption DEF IInv, Types
<1>6. Types' BY <1>2, <1>4, <1>5 DEF IInv, Types
<1>7. BatchOfConfig' BY <1>2, SameNames DEF IInv, BatchOfConfig
<1>8. NotYet'
  <2>1. ASSUME NEW i \in 1..Len(batch) PROVE Len(sent'[batch[i]]) <= chunks'
    <3>1. batch \in Seq(Ids) BY DEF IInv, Types
    <3>2. batch[i] \in Ids BY <3>1, LenFacts
    <3>3. InBatch(batch[i]) BY DEF InBatch
    <3>4. Len(sent[batch[i]]) <= chunks BY <1>2 DEF IInv, NotYet
    <3>5. Len(sent[batch[i]]) \in Nat /\ Len(sent'[batch[i]]) \in Nat
      <4>1. sent \in [Ids -> Seq(Items)] BY DEF IInv, Types
      <4>2. sent[batch[i]] \in Seq(Items) /\ sent'[batch[i]] \in Seq(Items) BY <1>4, <3>2, <4>1
      <4> QED BY <4>2, LenFacts
    <3>6. Len(sent'[batch[i]]) <= Len(sent[batch[i]]) + 1 BY <1>4, <3>2, <3>3
    <3> QED BY <1>2, <1>5, <3>4, <3>5, <3>6
  <2> QED BY <1>2, <1>4, <2>1 DEF NotYet
<1> QED BY <1>4, <1>6, <1>7, <1>8 DEF IInv

(* The last round of a stream.                                             *)
LEMMA StreamLastStep == ASSUME IInv, StreamLast PROVE IInv'
<1>1. /\ thread = "stream" /\ Deliver(Outputs(Range(Good))) /\ Generated(Range(Good))
      /\ thread' = "stop"
      /\ UNCHANGED <<max_batch_size, strict, client, request, got, inbox, pool, batch, kwargs,
                     adapters_pool, chunks, raises>>
  BY DEF StreamLast, engineVars, clientVars, batchVars
<1>2. kwargs.config \in Streams BY <1>1 DEF IInv, BatchOfConfig
<1>3. /\ outbox' \in [Ids -> Seq(Items \cup {None})] /\ sent' \in [Ids -> Seq(Items)]
      /\ Once' /\ PoolOfKeys' /\ Submitted' /\ OwnAnswer' /\ OwnOutbox' /\ EndsOnce'
      /\ NothingLost'
      /\ \A r \in Ids : (InInbox(r)' \/ InPool(r)') => sent'[r] = <<>>
  BY <1>1, <1>2, RoundStep
<1>4. Types' BY <1>1, <1>3 DEF IInv, Types
<1>5. BatchOfConfig' BY <1>1, <1>2, SameNames DEF IInv, BatchOfConfig
<1>6. NotYet' BY <1>1, <1>3 DEF NotYet
<1> QED BY <1>3, <1>4, <1>5, <1>6 DEF IInv

(* The end of a stream: None to every request of the batch.                *)
LEMMA StreamStopStep == ASSUME IInv, StreamStop PROVE IInv'
<1> DEFINE F == [r \in Ids |-> None]
<1>1. /\ thread = "stop" /\ Deliver([i \in 1..Len(batch) |-> None])
      /\ thread' = "fetch" /\ batch' = <<>> /\ kwargs' = NoKwargs
      /\ UNCHANGED <<max_batch_size, strict, client, request, got, inbox, pool, adapters_pool,
                     chunks, sent, raises>>
  BY DEF StreamStop, engineVars, clientVars
<1>2. kwargs.config \in Streams /\ batch \in Seq(Ids)
      /\ \A r \in Ids : InBatch(r) => request[r].config = kwargs.config
  BY <1>1, BatchFacts DEF IInv, BatchOfConfig
<1>3. \A r \in Ids : F[r] = None OBVIOUS
<1>4. [i \in 1..Len(batch) |-> None] = [i \in 1..Len(batch) |-> F[batch[i]]]
  <2>1. \A i \in 1..Len(batch) : batch[i] \in Ids BY <1>2, LenFacts
  <2> QED BY <1>3, <2>1
<1> HIDE DEF F
<1>5. outbox' = [r \in Ids |-> IF InBatch(r) THEN Append(outbox[r], F[r]) ELSE outbox[r]]
  <2>1. Deliver([i \in 1..Len(batch) |-> F[batch[i]]]) BY Zenon, <1>1, <1>4
  <2> QED BY <1>2, <2>1, DeliverByRequest
<1>6. /\ outbox' \in [Ids -> Seq(Items \cup {None})]
      /\ Once' /\ PoolOfKeys' /\ Submitted' /\ OwnAnswer' /\ OwnOutbox' /\ EndsOnce'
      /\ \A r \in Ids : (InInbox(r)' \/ InPool(r)') => sent'[r] = <<>>
  <2>1. \A r \in Ids : InBatch(r) =>
           /\ F[r] \in Items \cup {None}
           /\ IF F[r] = None THEN request[r].config \in Streams ELSE Fits(r, F[r])
    BY <1>2, <1>3
  <2> QED BY <1>1, <1>5, <2>1, Delivered
<1>7. Types'
  <2>1. batch' \in Seq(Ids) BY <1>1
  <2> QED BY <1>1, <1>6, <2>1 DEF IInv, Types
<1>8. BatchOfConfig'
  <2>1. max_batch_size \in Int BY EngineAssumption DEF IInv, Types
  <2>2. Len(<<>>) = 0 OBVIOUS
  <2> QED BY <1>1, <2>1, <2>2 DEF BatchOfConfig
<1>9. NothingLost'
  <2>1. ASSUME NEW r \in 1..Len(request), ~request[r].bad
        PROVE  got[r] \o Text(outbox'[r]) = sent[r]
    <3>1. got[r] \o Text(outbox[r]) = sent[r] BY <2>1 DEF IInv, NothingLost
    <3>2. Text(outbox'[r]) = Text(outbox[r])
      <4> DEFINE B == Items \cup {None}
                 q == outbox[r]
      <4>1. r \in Ids BY SubmittedIds
      <4>2. q \in Seq(B) /\ None \in B BY <4>1 DEF IInv, Types
      <4>3. outbox'[r] = IF InBatch(r) THEN Append(q, None) ELSE q BY <1>3, <1>5, <4>1
      <4> HIDE DEF B, q
      <4>4. Text(Append(q, None)) = Text(q) BY <4>2, TextAppend
      <4> QED BY <4>3, <4>4 DEF q
    <3> QED BY Zenon, <3>1, <3>2
  <2> QED BY Zenon, <1>1, <2>1 DEF NothingLost, Text, None
<1>10. NotYet' BY <1>1, <1>6 DEF NotYet
<1> QED BY <1>6, <1>7, <1>8, <1>9, <1>10 DEF IInv

(* The thread dies.                                                        *)
LEMMA InferRaisesStep == ASSUME IInv, InferRaises PROVE IInv'
<1>1. /\ thread \in {"infer", "stream"} /\ thread' = "dead"
      /\ raises' = raises \/ (raises < MaxRaises /\ raises' = raises + 1)
      /\ UNCHANGED <<max_batch_size, strict, client, request, got, inbox, pool, batch, kwargs,
                     adapters_pool, chunks, outbox, sent>>
  BY DEF InferRaises, engineVars, clientVars, batchVars
<1>2. Types' BY <1>1, EngineAssumption DEF IInv, Types
<1>3. \A q : Pending(q)' <=> Pending(q) BY <1>1 DEF Pending, InInbox, InPool, InBatch
<1>4. Once'
  <2>1. /\ \A q : InInbox(q)' <=> InInbox(q)
        /\ \A q : InPool(q)' <=> InPool(q)
        /\ \A q : InBatch(q)' <=> InBatch(q)
    BY <1>1 DEF InInbox, InPool, InBatch
  <2> QED BY <1>1, <2>1 DEF IInv, Once
<1>5. PoolOfKeys' BY <1>1, SameNames DEF IInv, PoolOfKeys
<1>6. BatchOfConfig' BY <1>1 DEF IInv, BatchOfConfig
<1>7. Submitted' BY <1>1, <1>3 DEF IInv, Submitted
<1>8. OwnAnswer' BY <1>1, SameNames DEF IInv, OwnAnswer
<1>9. OwnOutbox' BY <1>1, SameNames DEF IInv, OwnOutbox, Fits
<1>10. NothingLost' BY <1>1 DEF IInv, NothingLost, Text, None
<1>11. NotYet' BY <1>1 DEF IInv, NotYet, InInbox, InPool
<1>12. EndsOnce' BY <1>1, <1>3 DEF IInv, EndsOnce, Ends, None
<1> QED BY <1>2, <1>4, <1>5, <1>6, <1>7, <1>8, <1>9, <1>10, <1>11, <1>12 DEF IInv

-----------------------------------------------------------------------------
(* The theorems.                                                           *)

LEMMA InitInv == ASSUME Init PROVE IInv
<1> USE DEF Init
<1>1. Len(<<>>) = 0 OBVIOUS
<1>2. Types
  <2>1. Len(request) <= NumRequests BY <1>1, EngineAssumption
  <2>2. /\ outbox \in [Ids -> Seq(Items \cup {None})]
        /\ got \in [Ids -> Seq(Items)] /\ sent \in [Ids -> Seq(Items)]
    OBVIOUS
  <2>3. raises \in 0..MaxRaises /\ chunks \in 0..MaxChunks BY EngineAssumption
  <2> QED BY <2>1, <2>2, <2>3 DEF Types
<1>3. \A q : ~InInbox(q) /\ ~InPool(q) /\ ~InBatch(q) BY <1>1 DEF InInbox, InPool, InBatch
<1>4. Once BY <1>1, <1>3 DEF Once
<1>5. PoolOfKeys BY <1>1 DEF PoolOfKeys
<1>6. BatchOfConfig
  <2>1. max_batch_size \in Int BY EngineAssumption
  <2> QED BY <1>1, <2>1 DEF BatchOfConfig
<1>7. Submitted
  <2>1. \A r \in Ids : ~(r <= Len(request)) BY <1>1 DEF Ids
  <2> QED BY <1>3, <2>1 DEF Submitted, Pending
<1>8. OwnAnswer /\ OwnOutbox BY <1>1 DEF OwnAnswer, OwnOutbox
<1>9. NothingLost BY <1>1 DEF NothingLost
<1>10. NotYet BY <1>1 DEF NotYet
<1>11. EndsOnce BY <1>1 DEF EndsOnce
<1> QED BY <1>2, <1>4, <1>5, <1>6, <1>7, <1>8, <1>9, <1>10, <1>11 DEF IInv

(* Every step of the queue preserves it.                                   *)
LEMMA StepInv == ASSUME IInv, [Next]_vars PROVE IInv'
<1>1. CASE InferAsync BY <1>1, InferAsyncStep
<1>2. ASSUME NEW r \in Ids, StartInferWorker(r) PROVE IInv' BY <1>2, StartInferWorkerStep
<1>3. ASSUME NEW r \in Ids, Receive(r) PROVE IInv' BY <1>3, ReceiveStep
<1>4. CASE PoolRequest BY <1>4, PoolRequestStep
<1>5. CASE FetchBatch BY <1>5, FetchBatchStep
<1>6. CASE InferFull BY <1>6, InferFullStep
<1>7. CASE InferStream BY <1>7, InferStreamStep
<1>8. CASE StreamRound BY <1>8, StreamRoundStep
<1>9. CASE StreamLast BY <1>9, StreamLastStep
<1>10. CASE StreamStop BY <1>10, StreamStopStep
<1>11. CASE InferRaises BY <1>11, InferRaisesStep
<1>12. CASE UNCHANGED vars
  <2>1. UNCHANGED <<max_batch_size, strict, client, request, got, inbox, pool, batch, kwargs,
                    thread, adapters_pool, chunks, outbox, sent, raises>>
    BY <1>12 DEF vars, engineVars, clientVars, batchVars
  <2>2. \A q : /\ InInbox(q)' <=> InInbox(q)
               /\ InPool(q)' <=> InPool(q)
               /\ InBatch(q)' <=> InBatch(q)
               /\ Pending(q)' <=> Pending(q)
    BY <2>1 DEF Pending, InInbox, InPool, InBatch
  <2>3. Types' BY <2>1 DEF IInv, Types
  <2>4. Once' BY <2>1, <2>2 DEF IInv, Once
  <2>5. PoolOfKeys' /\ BatchOfConfig' BY <2>1, SameNames DEF IInv, PoolOfKeys, BatchOfConfig
  <2>6. Submitted' BY <2>1, <2>2 DEF IInv, Submitted
  <2>7. OwnAnswer' BY <2>1, SameNames DEF IInv, OwnAnswer
  <2>8. OwnOutbox' BY <2>1, SameNames DEF IInv, OwnOutbox, Fits
  <2>9. NothingLost' BY <2>1 DEF IInv, NothingLost, Text, None
  <2>10. NotYet' BY <2>1, <2>2 DEF IInv, NotYet
  <2>11. EndsOnce' BY <2>1, <2>2 DEF IInv, EndsOnce, Ends, None
  <2> QED BY <2>3, <2>4, <2>5, <2>6, <2>7, <2>8, <2>9, <2>10, <2>11 DEF IInv
<1> QED BY <1>1, <1>2, <1>3, <1>4, <1>5, <1>6, <1>7, <1>8, <1>9, <1>10, <1>11, <1>12
        DEF Next, Coroutines, InferWorker

(* The places of the requests, their batches and what was generated and    *)
(* received for them are related as IInv says in every state of the queue. *)
THEOREM InductiveInvariant == Spec => []IInv
<1>1. Init => IInv BY InitInv
<1>2. IInv /\ [Next]_vars => IInv' BY StepInv
<1> QED BY <1>1, <1>2, PTL DEF Spec

(* Every variable of the queue keeps its type, and no batch is larger than *)
(* max_batch_size.                                                         *)
THEOREM TypeCorrect == Spec => []TypeOK
<1>1. IInv => TypeOK
  <2>1. SUFFICES ASSUME IInv PROVE TypeOK OBVIOUS
  <2>2. pool \in Seq(Entry) BY <2>1 DEF IInv, Types
  <2>3. ASSUME NEW i \in 1..Len(pool) PROVE pool[i].data \in Seq(Ids) /\ pool[i].data # <<>>
    <3>1. pool[i] \in Entry BY <2>2, LenFacts
    <3> QED BY <2>1, <3>1 DEF Entry, IInv, PoolOfKeys
  <2> QED BY <2>1, <2>3 DEF TypeOK, IInv, Types, BatchOfConfig, Request, Kwargs
<1> QED BY <1>1, InductiveInvariant, PTL

(* Whatever is batched with it, and wherever in the batch the errors of    *)
(* encodings are inserted, a caller receives only items computed from its  *)
(* own prompt with its own request_config, and an error only for its own   *)
(* encoding.                                                               *)
THEOREM AnswersOfOwnRequest == Spec => []OwnAnswer
<1>1. IInv => OwnAnswer BY DEF IInv
<1> QED BY <1>1, InductiveInvariant, PTL

(* What a caller has received is at every moment an initial part of the    *)
(* text generated for it, and all of it at the end if max_batch_size is 1. *)
THEOREM StreamsInOrder == Spec => []StreamInOrder
<1>1. IInv => StreamInOrder
  <2>1. SUFFICES ASSUME IInv, NEW r \in Ids, client[r] \in {"waiting", "done"},
                        ~request[r].bad
                 PROVE  /\ IsPrefix(got[r], sent[r])
                        /\ (client[r] = "done" /\ max_batch_size = 1) => got[r] = sent[r]
    BY DEF StreamInOrder
  <2>2. r \in 1..Len(request)
    <3>1. r <= Len(request) BY <2>1 DEF IInv, Submitted
    <3> QED BY <2>1, <3>1, SubmittedIds
  <2> DEFINE g == got[r]
             u == Text(outbox[r])
             B == Items \cup {None}
  <2>3. g \o u = sent[r] BY <2>1, <2>2 DEF IInv, NothingLost
  <2>4. g \in Seq(B) /\ outbox[r] \in Seq(B) BY <2>1 DEF IInv, Types
  <2> HIDE DEF B
  <2>5. u \in Seq(B) /\ Text(<<>>) = <<>> BY <2>4, MaskedRange, MaskedEmpty DEF Text
  <2> HIDE DEF g, u
  <2>6. /\ Len(g) \in Nat /\ Len(g \o u) \in Nat /\ Len(g) <= Len(g \o u)
        /\ \A i \in 1..Len(g) : (g \o u)[i] = g[i]
    BY <2>4, <2>5, ConcatProperties, LenFacts
  <2>7. IsPrefix(g, g \o u)
    <3>1. SubSeq(g \o u, 1, Len(g)) = g
      BY <2>4, <2>5, ConcatProperties, <2>6
    <3> QED BY <2>6, <3>1 DEF IsPrefix
  <2>8. ASSUME client[r] = "done", max_batch_size = 1 PROVE g = sent[r]
    <3>1. outbox[r] = <<>> BY <2>1, <2>2, <2>8 DEF IInv, EndsOnce
    <3>2. u = <<>> BY <2>5, <3>1 DEF u
    <3>3. g \o <<>> = g BY <2>4
    <3> QED BY Zenon, <2>3, <3>2, <3>3
  <2> QED BY <2>3, <2>7, <2>8 DEF g
<1> QED BY <1>1, InductiveInvariant, PTL

=============================================================================
