----------------------------- MODULE DataLemmas -----------------------------
(***************************************************************************)
(* What the proofs need to know of numbers, sequences and finite sets.     *)
(*                                                                         *)
(* Induction is here a fact about sets of natural numbers, so that it can  *)
(* be used for any formula: with the set of the numbers it holds for.  It  *)
(* comes from the order of the naturals being well-founded.                *)
(***************************************************************************)
EXTENDS Integers, Sequences, SequencesExt, FiniteSets, FiniteSetTheorems,
        SequenceTheorems, WellFoundedInduction, TLAPS

\* The order of the naturals is well-founded.
LEMMA NatOrder ==
  IsWellFoundedOn({pair \in Nat \X Nat : pair[1] < pair[2]}, Nat)
<1>1. OpToRel(<, Nat) = {pair \in Nat \X Nat : pair[1] < pair[2]} BY DEF OpToRel
<1> QED BY <1>1, NatLessThanWellFounded, Zenon

\* Every set of naturals that is not empty has a least element.
LEMMA LeastOf ==
  ASSUME NEW S, S \subseteq Nat, S # {}
  PROVE  \E m \in S : \A k \in S : m <= k
<1> DEFINE Order == {pair \in Nat \X Nat : pair[1] < pair[2]}
<1>1. IsWellFoundedOn(Order, Nat) BY NatOrder
<1> HIDE DEF Order
<1>2. PICK m \in S : \A k \in S : ~(<<k, m>> \in Order) BY <1>1, WFMin
<1>3. ASSUME NEW k \in S, k < m PROVE FALSE
  <2>1. <<k, m>> \in Order BY <1>3 DEF Order
  <2> QED BY <1>2, <2>1
<1> QED BY <1>3

\* A set that has 0, and with each natural the next, has them all.
LEMMA Induction ==
  ASSUME NEW S, 0 \in S, \A n \in Nat : n \in S => n + 1 \in S
  PROVE  \A n \in Nat : n \in S
<1> SUFFICES ASSUME NEW n \in Nat, n \notin S PROVE FALSE OBVIOUS
<1> DEFINE Without == {k \in Nat : k \notin S}
<1>1. PICK m \in Without : \A k \in Without : m <= k BY LeastOf
<1>2. m # 0 /\ m - 1 \in Nat /\ m - 1 + 1 = m BY <1>1
<1>3. m - 1 \in S BY <1>1, <1>2
<1> QED BY <1>1, <1>2, <1>3

\* And a greatest one, if it is bounded.
LEMMA GreatestOf ==
  ASSUME NEW S, S \subseteq Int, S # {}, NEW bound \in Int, \A x \in S : x <= bound
  PROVE  /\ Max(S) \in S
         /\ \A x \in S : x <= Max(S)
<1> DEFINE Below == {n \in Nat : bound - n \in S}
<1>1. PICK x \in S : TRUE OBVIOUS
<1>2. bound - x \in Nat /\ bound - (bound - x) = x BY <1>1
<1>3. Below # {} BY <1>2
<1>4. PICK n \in Below : \A k \in Below : n <= k BY <1>3, LeastOf
<1>5. ASSUME NEW y \in S PROVE y <= bound - n
  <2>1. bound - y \in Nat /\ bound - (bound - y) = y OBVIOUS
  <2>2. bound - y \in Below BY <2>1
  <2>3. n <= bound - y /\ n \in Nat /\ y \in Int BY <1>4, <2>2
  <2> QED BY <2>3
<1>6. bound - n \in S /\ \A y \in S : bound - n >= y BY <1>4, <1>5
<1>7. \E m \in S : \A y \in S : m >= y BY <1>6
<1> QED BY <1>7 DEF Max

\* And the least one, by its operator.
LEMMA LeastIs ==
  ASSUME NEW S, S \subseteq Int, S # {}, NEW bound \in Int, \A x \in S : bound <= x
  PROVE  /\ Min(S) \in S
         /\ \A x \in S : Min(S) <= x
<1> DEFINE Above == {n \in Nat : bound + n \in S}
<1>1. PICK x \in S : TRUE OBVIOUS
<1>2. x - bound \in Nat /\ bound + (x - bound) = x BY <1>1
<1>3. Above # {} BY <1>2
<1>4. PICK n \in Above : \A k \in Above : n <= k BY <1>3, LeastOf
<1>5. ASSUME NEW y \in S PROVE bound + n <= y
  <2>1. y - bound \in Nat /\ bound + (y - bound) = y OBVIOUS
  <2>2. y - bound \in Above BY <2>1
  <2>3. n <= y - bound /\ n \in Nat /\ y \in Int BY <1>4, <2>2
  <2> QED BY <2>3
<1>6. bound + n \in S /\ \A y \in S : bound + n <= y BY <1>4, <1>5
<1>7. \E m \in S : \A y \in S : m <= y BY <1>6
<1> QED BY <1>7 DEF Min

\* A sequence without one of its elements.
LEMMA Removed ==
  ASSUME NEW T, NEW s \in Seq(T), NEW at \in 1..Len(s)
  PROVE  /\ RemoveAt(s, at) \in Seq(T)
         /\ Len(RemoveAt(s, at)) = Len(s) - 1
         /\ \A i \in 1..(Len(s) - 1) :
              RemoveAt(s, at)[i] = IF i < at THEN s[i] ELSE s[i + 1]
<1> DEFINE left == SubSeq(s, 1, at - 1)
           right == SubSeq(s, at + 1, Len(s))
<1>1. /\ left \in Seq(T) /\ Len(left) = at - 1
      /\ \A i \in 1..(at - 1) : left[i] = s[i]
  BY SubSeqProperties
<1>2. /\ right \in Seq(T) /\ Len(right) = Len(s) - at
      /\ \A i \in 1..(Len(s) - at) : right[i] = s[at + i]
  BY SubSeqProperties
<1>3. RemoveAt(s, at) = left \o right BY DEF RemoveAt
<1> HIDE DEF left, right
<1>4. /\ left \o right \in Seq(T) /\ Len(left \o right) = Len(s) - 1
      /\ \A i \in 1..(Len(s) - 1) :
           (left \o right)[i] = IF i < at THEN s[i] ELSE s[i + 1]
  <2>1. Len(left \o right) = Len(s) - 1
    <3>1. Len(left \o right) = Len(left) + Len(right) BY <1>1, <1>2, ConcatProperties
    <3>2. Len(s) \in Nat OBVIOUS
    <3> QED BY <1>1, <1>2, <3>1, <3>2
  <2>2. ASSUME NEW i \in 1..(Len(s) - 1)
        PROVE  (left \o right)[i] = IF i < at THEN s[i] ELSE s[i + 1]
    <3>1. CASE i < at BY <3>1, <1>1, <1>2, ConcatProperties
    <3>2. CASE i >= at
      <4>1. (left \o right)[i] = right[i - Len(left)]
        BY <3>2, <1>1, <1>2, <2>1, ConcatProperties
      <4>2. i - Len(left) \in 1..(Len(s) - at) /\ at + (i - Len(left)) = i + 1
        BY <3>2, <1>1
      <4>3. right[i - Len(left)] = s[at + (i - Len(left))] BY <4>2, <1>2
      <4>4. right[i - Len(left)] = s[i + 1] BY <4>2, <4>3
      <4>5. ~(i < at) BY <3>2
      <4> QED BY <4>1, <4>4, <4>5
    <3>3. i < at \/ i >= at OBVIOUS
    <3> QED BY <3>1, <3>2, <3>3, Zenon
  <2> QED BY <1>1, <1>2, <2>1, <2>2, ConcatProperties
<1> QED BY <1>3, <1>4

\* What finitely many elements of a sequence have in a field is finite.
LEMMA KeysAreFinite ==
  ASSUME NEW calls, NEW a \in Int, NEW b \in Int, NEW S \in SUBSET (a..b)
  PROVE  IsFiniteSet({calls[i].key : i \in S})
<1> DEFINE KeyOf(i) == calls[i].key
           key == [i \in S |-> calls[i].key]
           image == {calls[i].key : i \in S}
<1>1. IsFiniteSet(S) BY FS_Interval, FS_Subset
<1>2. key \in Surjection(S, image) BY DEF Surjection
<1> HIDE DEF key, image
<1>3. IsFiniteSet(image) BY <1>1, <1>2, FS_Surjection
<1> QED BY <1>3 DEF image

\* FlattenSeq puts one sequence after the other.
LEMMA Flattening ==
  ASSUME NEW ss, Len(ss) \in Nat, Len(ss) > 0
  PROVE  \E flat : /\ FlattenSeq(ss) = flat[Len(ss)]
                   /\ flat[1] = ss[1]
                   /\ \A i \in 2..Len(ss) : flat[i] = flat[i - 1] \o ss[i]
<1> DEFINE n == Len(ss)
           Flattens(f, m) ==
             f = [i \in 1..m |-> IF i = 1 THEN ss[i] ELSE f[i - 1] \o ss[i]]
           lengths == {m \in Nat : \E f : Flattens(f, m)}
<1>1. 0 \in lengths
  <2>1. Flattens(<<>>, 0) OBVIOUS
  <2> QED BY <2>1
<1>2. ASSUME NEW m \in Nat, m \in lengths PROVE m + 1 \in lengths
  <2>1. PICK f : Flattens(f, m) BY <1>2
  <2> DEFINE g == [i \in 1..(m + 1) |->
                     IF i \in 1..m THEN f[i]
                     ELSE IF i = 1 THEN ss[i] ELSE f[i - 1] \o ss[i]]
  <2>2. \A i \in 1..(m + 1) : i # 1 => i - 1 \in 1..m /\ g[i - 1] = f[i - 1] OBVIOUS
  <2>3. \A i \in 1..(m + 1) : g[i] = IF i = 1 THEN ss[i] ELSE g[i - 1] \o ss[i]
    <3> SUFFICES ASSUME NEW i \in 1..(m + 1)
        PROVE g[i] = IF i = 1 THEN ss[i] ELSE g[i - 1] \o ss[i]
      OBVIOUS
    <3>1. CASE i \in 1..m
      <4>1. g[i] = f[i] BY <3>1
      <4>2. f[i] = IF i = 1 THEN ss[i] ELSE f[i - 1] \o ss[i] BY <2>1, <3>1
      <4> QED BY <2>2, <4>1, <4>2
    <3>2. CASE i \notin 1..m BY <2>2, <3>2
    <3> QED BY <3>1, <3>2
  <2>4. Flattens(g, m + 1)
    <3>1. g = [i \in 1..(m + 1) |-> g[i]] OBVIOUS
    <3> HIDE DEF g
    <3> QED BY <2>3, <3>1
  <2> HIDE DEF g
  <2>5. \E f_2 : Flattens(f_2, m + 1) BY <2>4
  <2> HIDE DEF Flattens
  <2> QED BY <2>5
<1> HIDE DEF lengths
<1>3. n \in lengths BY <1>1, <1>2, Induction
<1>4. PICK flat : /\ Flattens(flat, n) /\ FlattenSeq(ss) = flat[n]
  <2>1. \E f : Flattens(f, n) BY <1>3 DEF lengths
  <2> DEFINE flatten == CHOOSE f : Flattens(f, n)
  <2>2. Flattens(flatten, n) BY <2>1
  <2>3. FlattenSeq(ss) = flatten[n] BY DEF FlattenSeq
  <2> QED BY <2>2, <2>3
<1>5. flat[1] = ss[1] BY <1>4
<1>6. \A i \in 2..n : flat[i] = flat[i - 1] \o ss[i]
  <2> SUFFICES ASSUME NEW i \in 2..n PROVE flat[i] = flat[i - 1] \o ss[i] OBVIOUS
  <2>1. i \in 1..n /\ i # 1 OBVIOUS
  <2>2. flat = [j \in 1..n |-> IF j = 1 THEN ss[j] ELSE flat[j - 1] \o ss[j]] BY <1>4
  <2> QED BY <2>1, <2>2, Zenon
<1> QED BY <1>4, <1>5, <1>6

\* What a set of sequences has: all of them, if it has the empty one and each longer one.
LEMMA SeqInduction ==
  ASSUME NEW A, NEW S, <<>> \in S,
         \A s \in Seq(A), e \in A : s \in S => s \o <<e>> \in S
  PROVE  \A s \in Seq(A) : s \in S
<1> DEFINE N == {n \in Nat : \A s \in Seq(A) : Len(s) = n => s \in S}
<1>1. 0 \in N
  <2>1. ASSUME NEW s \in Seq(A), Len(s) = 0 PROVE s \in S
    <3>1. s = <<>> BY <2>1
    <3> QED BY <3>1
  <2> QED BY <2>1
<1>2. ASSUME NEW n \in Nat, n \in N PROVE n + 1 \in N
  <2>1. ASSUME NEW s \in Seq(A), Len(s) = n + 1 PROVE s \in S
    <3> DEFINE init == SubSeq(s, 1, n)
    <3>1. n + 1 \in 1..Len(s) /\ 1 \in 1..Len(s) /\ n + 1 \in 1..Len(s) BY <2>1
    <3>2. SubSeq(s, 1, n + 1) = SubSeq(s, 1, n + 1 - 1) \o <<s[n + 1]>>
      BY <3>1, SubSeqRecursiveSecond
    <3>3. n + 1 - 1 = n OBVIOUS
    <3>4. s = init \o <<s[n + 1]>> BY <3>2, <3>3, <2>1, SubSeqFull
    <3>5. \A i \in 1..n : s[i] \in A BY <2>1
    <3>6. init \in Seq(A) /\ Len(init) = n BY <3>5, SubSeqProperties
    <3>7. s[n + 1] \in A BY <3>1
    <3> HIDE DEF init
    <3>8. init \in S BY <1>2, <3>6
    <3> QED BY <3>4, <3>6, <3>7, <3>8
  <2> QED BY <2>1
<1>3. \A n \in Nat : n \in N
  <2> HIDE DEF N
  <2> QED BY <1>1, <1>2, Induction
<1> SUFFICES ASSUME NEW s \in Seq(A) PROVE s \in S OBVIOUS
<1>4. Len(s) \in Nat OBVIOUS
<1>5. Len(s) \in N BY <1>3, <1>4
<1> QED BY <1>5

\* A sequence, extended by one element.
LEMMA Extended ==
  ASSUME NEW A, NEW s \in Seq(A), NEW e \in A
  PROVE  /\ s \o <<e>> \in Seq(A)
         /\ Len(s \o <<e>>) = Len(s) + 1
         /\ \A i \in 1..Len(s) : (s \o <<e>>)[i] = s[i]
         /\ (s \o <<e>>)[Len(s) + 1] = e
         /\ Append(s, e) = s \o <<e>>
  OBVIOUS

\* Two sequences, one after the other.
LEMMA Joined ==
  ASSUME NEW A, NEW s \in Seq(A), NEW t \in Seq(A)
  PROVE  /\ s \o t \in Seq(A)
         /\ Len(s \o t) = Len(s) + Len(t)
         /\ \A i \in 1..Len(s) : (s \o t)[i] = s[i]
         /\ \A i \in 1..Len(t) : (s \o t)[Len(s) + i] = t[i]
  OBVIOUS

\* What the elements of a sequence become is a sequence.
LEMMA Mapped ==
  ASSUME NEW A, NEW B, NEW F \in [A -> B], NEW s \in Seq(A)
  PROVE  /\ [i \in DOMAIN s |-> F[s[i]]] \in Seq(B)
         /\ Len([i \in DOMAIN s |-> F[s[i]]]) = Len(s)
         /\ \A i \in 1..Len(s) : [j \in DOMAIN s |-> F[s[j]]][i] = F[s[i]]
<1>1. DOMAIN s = 1..Len(s) /\ Len(s) \in Nat /\ \A i \in 1..Len(s) : s[i] \in A OBVIOUS
<1> QED BY <1>1

\* FlattenSeq, of no sequence, of one, and of one more.
LEMMA FlattenOfNone == FlattenSeq(<<>>) = <<>>
  BY DEF FlattenSeq

\* One sequence, flattened, is itself.
LEMMA FlattenOfOne ==
  ASSUME NEW s
  PROVE  FlattenSeq(<<s>>) = s
<1>1. Len(<<s>>) = 1 /\ <<s>>[1] = s OBVIOUS
<1>2. Len(<<s>>) \in Nat /\ Len(<<s>>) > 0 BY <1>1
<1> QED BY <1>1, <1>2, Flattening

\* One more sequence is put behind the others.
LEMMA FlattenOfMore ==
  ASSUME NEW T, NEW ss \in Seq(Seq(T)), NEW s \in Seq(T)
  PROVE  FlattenSeq(ss \o <<s>>) = FlattenSeq(ss) \o s
<1>1. CASE ss = <<>>
  <2>1. ss \o <<s>> = <<s>> BY <1>1
  <2>2. <<>> \o s = s OBVIOUS
  <2> QED BY <1>1, <2>1, <2>2, FlattenOfNone, FlattenOfOne
<1>2. CASE ss # <<>>
  <2> DEFINE more == ss \o <<s>>
  <2>1. PICK n \in Nat : n = Len(ss) OBVIOUS
  <2>2. /\ Len(more) = n + 1 /\ more[n + 1] = s
        /\ \A i \in 1..n : more[i] = ss[i]
    BY <2>1
  <2>3. n > 0 BY <1>2, <2>1
  <2> HIDE DEF more
  <2>4. PICK flat : /\ FlattenSeq(ss) = flat[Len(ss)]
                    /\ flat[1] = ss[1]
                    /\ \A i \in 2..Len(ss) : flat[i] = flat[i - 1] \o ss[i]
    BY <2>1, <2>3, Flattening
  <2>5. PICK long : /\ FlattenSeq(more) = long[Len(more)]
                    /\ long[1] = more[1]
                    /\ \A i \in 2..Len(more) : long[i] = long[i - 1] \o more[i]
    <3>1. Len(more) \in Nat /\ Len(more) > 0 BY <2>2, <2>3
    <3> QED BY <3>1, Flattening
  <2> DEFINE Same == {k \in Nat : k <= n /\ k > 0 => long[k] = flat[k]}
  <2>6. 0 \in Same OBVIOUS
  <2>7. ASSUME NEW k \in Nat, k \in Same PROVE k + 1 \in Same
    <3>1. PICK i \in Nat : i = k + 1 OBVIOUS
    <3> SUFFICES ASSUME i <= n PROVE long[i] = flat[i] BY <3>1
    <3>2. CASE k = 0 BY <3>1, <3>2, <2>2, <2>3, <2>4, <2>5
    <3>3. CASE k > 0
      <4>1. i \in 2..Len(ss) /\ i \in 2..Len(more) /\ i \in 1..n /\ i - 1 = k
        BY <3>1, <3>3, <2>1, <2>2
      <4>2. long[i] = long[i - 1] \o more[i] BY <4>1, <2>5
      <4>3. flat[i] = flat[i - 1] \o ss[i] BY <4>1, <2>4
      <4>4. more[i] = ss[i] BY <4>1, <2>2
      <4>5. long[k] = flat[k] BY <2>7, <4>1, <3>3
      <4> QED BY <4>1, <4>2, <4>3, <4>4, <4>5
    <3> QED BY <3>2, <3>3
  <2>8. \A k \in Nat : k \in Same
    <3> HIDE DEF Same
    <3> QED BY <2>6, <2>7, Induction
  <2>9. long[n] = flat[n] BY <2>3, <2>8
  <2> HIDE DEF Same
  <2>10. PICK i \in Nat : i = n + 1 OBVIOUS
  <2>11. i \in 2..Len(more) /\ i - 1 = n /\ more[i] = s BY <2>2, <2>3, <2>10
  <2>12. long[i] = long[i - 1] \o more[i] BY <2>5, <2>11
  <2>13. long[n + 1] = long[n] \o s BY <2>10, <2>11, <2>12
  <2> QED BY <2>1, <2>2, <2>4, <2>5, <2>9, <2>13 DEF more
<1> QED BY <1>1, <1>2

\* What is flattened is a sequence of what the sequences have.
LEMMA FlattenType ==
  ASSUME NEW T
  PROVE  \A ss \in Seq(Seq(T)) : FlattenSeq(ss) \in Seq(T)
<1> DEFINE S == {ss \in Seq(Seq(T)) : FlattenSeq(ss) \in Seq(T)}
<1>1. <<>> \in S BY FlattenOfNone, EmptySeq
<1>2. ASSUME NEW ss \in Seq(Seq(T)), NEW s \in Seq(T), ss \in S PROVE ss \o <<s>> \in S
  <2>1. FlattenSeq(ss \o <<s>>) = FlattenSeq(ss) \o s BY FlattenOfMore
  <2>2. ss \o <<s>> \in Seq(Seq(T)) BY Extended
  <2>3. FlattenSeq(ss) \o s \in Seq(T) BY <1>2
  <2> QED BY <2>1, <2>2, <2>3
<1>3. \A ss \in Seq(Seq(T)) : ss \in S
  <2> HIDE DEF S
  <2> QED BY <1>1, <1>2, SeqInduction
<1> QED BY <1>3

\* Two sequences of sequences may be flattened each for itself.
LEMMA FlattenOfBoth ==
  ASSUME NEW T, NEW ss \in Seq(Seq(T))
  PROVE  \A more \in Seq(Seq(T)) :
           FlattenSeq(ss \o more) = FlattenSeq(ss) \o FlattenSeq(more)
<1> DEFINE S == {more \in Seq(Seq(T)) :
                   FlattenSeq(ss \o more) = FlattenSeq(ss) \o FlattenSeq(more)}
<1>1. <<>> \in S
  <2>1. FlattenSeq(ss) \in Seq(T) BY FlattenType
  <2>2. FlattenSeq(ss) \o <<>> = FlattenSeq(ss) BY <2>1, ConcatEmptySeq
  <2>3. ss \o <<>> = ss BY ConcatEmptySeq
  <2>4. <<>> \in Seq(Seq(T)) BY EmptySeq
  <2> QED BY <2>2, <2>3, <2>4, FlattenOfNone
<1>2. ASSUME NEW more \in Seq(Seq(T)), NEW s \in Seq(T), more \in S PROVE more \o <<s>> \in S
  <2>1. more \o <<s>> \in Seq(Seq(T)) BY Extended
  <2>2. ss \o more \in Seq(Seq(T)) BY ConcatProperties
  <2>3. ss \o (more \o <<s>>) = (ss \o more) \o <<s>>
    <3>1. <<s>> \in Seq(Seq(T)) OBVIOUS
    <3> QED BY <3>1, ConcatAssociative, SMTT(30)
  <2>4. FlattenSeq(ss \o (more \o <<s>>)) = FlattenSeq(ss \o more) \o s
    BY <2>2, <2>3, FlattenOfMore
  <2>5. FlattenSeq(more \o <<s>>) = FlattenSeq(more) \o s BY FlattenOfMore
  <2>6. FlattenSeq(ss) \in Seq(T) /\ FlattenSeq(more) \in Seq(T) BY FlattenType
  <2>7. (FlattenSeq(ss) \o FlattenSeq(more)) \o s = FlattenSeq(ss) \o (FlattenSeq(more) \o s)
    BY <2>6, ConcatAssociative, SMTT(30)
  <2> QED BY <1>2, <2>1, <2>4, <2>5, <2>7
<1>3. \A more \in Seq(Seq(T)) : more \in S
  <2> HIDE DEF S
  <2> QED BY <1>1, <1>2, SeqInduction
<1> QED BY <1>3

\* What the elements of a sequence become, one after the other.
Through(F, s) == FlattenSeq([i \in DOMAIN s |-> F[s[i]]])

\* Nothing becomes nothing.
LEMMA ThroughNone ==
  ASSUME NEW F
  PROVE  Through(F, <<>>) = <<>>
<1>1. [i \in DOMAIN <<>> |-> F[<<>>[i]]] = <<>> OBVIOUS
<1> QED BY <1>1, FlattenOfNone DEF Through

\* One element becomes what it becomes.
LEMMA ThroughOne ==
  ASSUME NEW A, NEW T, NEW F \in [A -> Seq(T)], NEW e \in A
  PROVE  Through(F, <<e>>) = F[e]
<1>1. [i \in DOMAIN <<e>> |-> F[<<e>>[i]]] = <<F[e]>> OBVIOUS
<1> QED BY <1>1, FlattenOfOne DEF Through

\* What becomes of a sequence is a sequence.
LEMMA ThroughType ==
  ASSUME NEW A, NEW T, NEW F \in [A -> Seq(T)], NEW s \in Seq(A)
  PROVE  Through(F, s) \in Seq(T)
<1>1. [i \in DOMAIN s |-> F[s[i]]] \in Seq(Seq(T)) BY Mapped
<1> QED BY <1>1, FlattenType DEF Through

\* One more element is mapped behind the others.
LEMMA MappedMore ==
  ASSUME NEW A, NEW B, NEW F \in [A -> B], NEW s \in Seq(A), NEW e \in A
  PROVE  [i \in DOMAIN (s \o <<e>>) |-> F[(s \o <<e>>)[i]]]
           = [i \in DOMAIN s |-> F[s[i]]] \o <<F[e]>>
<1>1. /\ s \o <<e>> \in Seq(A) /\ Len(s \o <<e>>) = Len(s) + 1
      /\ \A i \in 1..Len(s) : (s \o <<e>>)[i] = s[i]
      /\ (s \o <<e>>)[Len(s) + 1] = e
  BY Extended
<1>2. DOMAIN (s \o <<e>>) = 1..(Len(s) + 1) /\ DOMAIN s = 1..Len(s) /\ Len(s) \in Nat
  BY <1>1
<1>3. \A i \in 1..Len(s) : F[s[i]] \in B OBVIOUS
<1>4. F[e] \in B OBVIOUS
<1> DEFINE fs == [i \in 1..Len(s) |-> F[s[i]]]
           fse == [i \in 1..(Len(s) + 1) |-> F[(s \o <<e>>)[i]]]
<1>5. fs \in Seq(B) /\ Len(fs) = Len(s) /\ \A i \in 1..Len(s) : fs[i] = F[s[i]]
  BY <1>2, <1>3
<1>6. \A i \in 1..(Len(s) + 1) : F[(s \o <<e>>)[i]] \in B BY <1>1, <1>3, <1>4
<1>7. fse \in Seq(B) /\ Len(fse) = Len(s) + 1 BY <1>2, <1>6
<1>8. /\ fs \o <<F[e]>> \in Seq(B) /\ Len(fs \o <<F[e]>>) = Len(s) + 1
      /\ \A i \in 1..Len(s) : (fs \o <<F[e]>>)[i] = fs[i]
      /\ (fs \o <<F[e]>>)[Len(s) + 1] = F[e]
  <2> HIDE DEF fs
  <2> QED BY <1>4, <1>5, Extended
<1>9. ASSUME NEW i \in 1..(Len(s) + 1) PROVE fse[i] = (fs \o <<F[e]>>)[i]
  <2>1. fse[i] = F[(s \o <<e>>)[i]] OBVIOUS
  <2> HIDE DEF fs, fse
  <2>2. CASE i \in 1..Len(s) BY <2>1, <2>2, <1>1, <1>5, <1>8
  <2>3. CASE i \notin 1..Len(s)
    <3>1. i = Len(s) + 1 BY <2>3, <1>2
    <3> QED BY <3>1, <2>1, <1>1, <1>8
  <2> QED BY <2>2, <2>3
<1>10. fse = fs \o <<F[e]>>
  <2> HIDE DEF fs, fse
  <2> QED BY <1>7, <1>8, <1>9, SeqEqual
<1> QED BY <1>2, <1>10

\* One more element becomes something behind what the others become.
LEMMA ThroughMore ==
  ASSUME NEW A, NEW T, NEW F \in [A -> Seq(T)], NEW s \in Seq(A), NEW e \in A
  PROVE  Through(F, s \o <<e>>) = Through(F, s) \o F[e]
<1>1. [i \in DOMAIN (s \o <<e>>) |-> F[(s \o <<e>>)[i]]]
        = [i \in DOMAIN s |-> F[s[i]]] \o <<F[e]>>
  BY MappedMore
<1>2. [i \in DOMAIN s |-> F[s[i]]] \in Seq(Seq(T)) BY Mapped
<1>3. F[e] \in Seq(T) OBVIOUS
<1> DEFINE fs == [i \in DOMAIN s |-> F[s[i]]]
           more == fs \o <<F[e]>>
<1>4. Through(F, s \o <<e>>) = FlattenSeq(more) BY <1>1 DEF Through
<1>5. Through(F, s) = FlattenSeq(fs) BY DEF Through
<1>6. fs \in Seq(Seq(T)) BY <1>2
<1> HIDE DEF fs
<1>7. FlattenSeq(fs \o <<F[e]>>) = FlattenSeq(fs) \o F[e] BY <1>3, <1>6, FlattenOfMore
<1> QED BY <1>4, <1>5, <1>7

\* Two sequences become what each becomes, one after the other.
LEMMA ThroughBoth ==
  ASSUME NEW A, NEW T, NEW F \in [A -> Seq(T)], NEW s \in Seq(A)
  PROVE  \A t \in Seq(A) : Through(F, s \o t) = Through(F, s) \o Through(F, t)
<1>1. \A r \in Seq(A), e \in A : Through(F, r \o <<e>>) = Through(F, r) \o F[e]
  BY ThroughMore
<1>2. \A r \in Seq(A) : Through(F, r) \in Seq(T) BY ThroughType
<1>3. \A e \in A : F[e] \in Seq(T) OBVIOUS
<1>4. Through(F, <<>>) = <<>> BY ThroughNone
<1> DEFINE S == {t \in Seq(A) : Through(F, s \o t) = Through(F, s) \o Through(F, t)}
<1>5. <<>> \in S
  <2>1. <<>> \in Seq(A) /\ s \o <<>> = s OBVIOUS
  <2>2. Through(F, s) \o <<>> = Through(F, s) BY <1>2, ConcatEmptySeq
  <2> QED BY <2>1, <2>2, <1>4
<1>6. ASSUME NEW t \in Seq(A), NEW e \in A, t \in S PROVE t \o <<e>> \in S
  <2>1. t \o <<e>> \in Seq(A) /\ s \o t \in Seq(A) /\ s \o (t \o <<e>>) = (s \o t) \o <<e>>
    <3>1. <<e>> \in Seq(A) OBVIOUS
    <3> QED BY <3>1, ConcatProperties, ConcatAssociative, SMTT(30)
  <2>2. Through(F, s \o (t \o <<e>>)) = Through(F, s \o t) \o F[e] BY <2>1, <1>1
  <2>3. Through(F, t \o <<e>>) = Through(F, t) \o F[e] BY <1>1
  <2>4. (Through(F, s) \o Through(F, t)) \o F[e] = Through(F, s) \o (Through(F, t) \o F[e])
    BY <1>2, <1>3, ConcatAssociative, SMTT(30)
  <2> QED BY <1>6, <2>1, <2>2, <2>3, <2>4
<1>7. \A t \in Seq(A) : t \in S
  <2> HIDE DEF S
  <2> QED BY <1>5, <1>6, SeqInduction
<1> QED BY <1>7

\* A sequence is two others, one after the other.
Joins(s, t, both) == both = s \o t

\* ThroughBoth, of a sequence known to be two others.
LEMMA ThroughPair ==
  ASSUME NEW A, NEW T, NEW F \in [A -> Seq(T)],
         NEW s \in Seq(A), NEW t \in Seq(A), NEW both, Joins(s, t, both)
  PROVE  Joins(Through(F, s), Through(F, t), Through(F, both))
<1>1. Through(F, s \o t) = Through(F, s) \o Through(F, t) BY ThroughBoth
<1> QED BY <1>1 DEF Joins

\* Nothing comes of elements none of which becomes anything.
LEMMA ThroughNothing ==
  ASSUME NEW A, NEW T, NEW F \in [A -> Seq(T)]
  PROVE  \A s \in Seq(A) : (\A i \in 1..Len(s) : F[s[i]] = <<>>) => Through(F, s) = <<>>
<1>0. \A s \in Seq(A), e \in A : Through(F, s \o <<e>>) = Through(F, s) \o F[e]
  BY ThroughMore
<1> DEFINE S == {s \in Seq(A) : (\A i \in 1..Len(s) : F[s[i]] = <<>>) => Through(F, s) = <<>>}
<1>1. <<>> \in S BY ThroughNone
<1>2. ASSUME NEW s \in Seq(A), NEW e \in A, s \in S PROVE s \o <<e>> \in S
  <2>1. /\ s \o <<e>> \in Seq(A) /\ Len(s \o <<e>>) = Len(s) + 1
        /\ \A i \in 1..Len(s) : (s \o <<e>>)[i] = s[i]
        /\ (s \o <<e>>)[Len(s) + 1] = e
    BY Extended
  <2>2. SUFFICES ASSUME \A i \in 1..Len(s \o <<e>>) : F[(s \o <<e>>)[i]] = <<>>
                 PROVE  Through(F, s \o <<e>>) = <<>>
    BY <2>1
  <2>3. \A i \in 1..Len(s) : F[s[i]] = <<>>
    <3> SUFFICES ASSUME NEW i \in 1..Len(s) PROVE F[s[i]] = <<>> OBVIOUS
    <3>1. i \in 1..Len(s \o <<e>>) BY <2>1
    <3> QED BY <3>1, <2>1, <2>2
  <2>4. F[e] = <<>>
    <3>1. Len(s) + 1 \in 1..Len(s \o <<e>>) BY <2>1
    <3> QED BY <3>1, <2>1, <2>2
  <2>5. Through(F, s) = <<>> BY <1>2, <2>3
  <2>6. <<>> \o <<>> = <<>> OBVIOUS
  <2> QED BY <1>0, <2>4, <2>5, <2>6
<1>3. \A s \in Seq(A) : s \in S
  <2> HIDE DEF S
  <2> QED BY <1>1, <1>2, SeqInduction
<1> QED BY <1>3

=============================================================================
