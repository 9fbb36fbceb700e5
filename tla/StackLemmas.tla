---------------------------- MODULE StackLemmas ----------------------------
(***************************************************************************)
(* Stacks, as sequences whose head is the top: what remains where when an  *)
(* element is replaced, pushed or popped, what reverses, removes and       *)
(* appends, and positions that shift.                                      *)
(***************************************************************************)
EXTENDS SequencesExt, SequenceTheorems, FiniteSetTheorems, TLAPS

\* A sequence is a function from positions to elements.
LEMMA Positions ==
  ASSUME NEW S, NEW s \in Seq(S)
  PROVE  /\ Len(s) \in Nat /\ DOMAIN s = 1..Len(s)
         /\ \A i \in 1..Len(s) : s[i] \in S
         /\ s # <<>> => Len(s) >= 1 /\ 1 \in DOMAIN s /\ Head(s) = s[1]
         /\ Len(s) = 0 => s = <<>>
  BY LenProperties, ElementOfSeq, EmptySeq

\* Replacing the top.
LEMMA Replaced ==
  ASSUME NEW S, NEW s \in Seq(S), s # <<>>, NEW f \in S
  PROVE  LET r == <<f>> \o Tail(s) IN
         /\ r \in Seq(S) /\ Len(r) = Len(s) /\ r # <<>> /\ r[1] = f /\ Head(r) = f
         /\ DOMAIN r = DOMAIN s
         /\ \A i \in DOMAIN s : r[i] = IF i = 1 THEN f ELSE s[i]
<1> DEFINE r == <<f>> \o Tail(s)
<1>1. <<f>> \in Seq(S) /\ Len(<<f>>) = 1 /\ <<f>>[1] = f
  OBVIOUS
<1>2. Tail(s) \in Seq(S) /\ Len(Tail(s)) = Len(s) - 1
      /\ \A i \in 1..Len(Tail(s)) : Tail(s)[i] = s[i + 1]
  BY HeadTailProperties
<1>3. r \in Seq(S) /\ Len(r) = Len(s)
  BY <1>1, <1>2, ConcatProperties, Positions
<1>4. \A i \in 1..Len(s) : r[i] = IF i = 1 THEN f ELSE s[i]
  BY <1>1, <1>2, ConcatProperties, Positions
<1>5. Len(s) >= 1 /\ DOMAIN s = 1..Len(s) /\ DOMAIN r = 1..Len(r)
  BY <1>3, Positions
<1>6. r # <<>> /\ r[1] = f
  BY <1>3, <1>4, <1>5
<1> HIDE DEF r
<1>7. Head(r) = r[1]
  BY <1>3, <1>6, Positions
<1> QED
  BY <1>3, <1>4, <1>5, <1>6, <1>7 DEF r

\* Pushing an element.
LEMMA Pushed ==
  ASSUME NEW S, NEW s \in Seq(S), NEW f \in S
  PROVE  LET r == <<f>> \o s IN
         /\ r \in Seq(S) /\ Len(r) = Len(s) + 1 /\ r # <<>> /\ r[1] = f /\ Head(r) = f
         /\ DOMAIN r = 1..Len(s) + 1
         /\ \A i \in DOMAIN r : i # 1 => i - 1 \in DOMAIN s /\ r[i] = s[i - 1]
         /\ \A i \in DOMAIN s : i + 1 \in DOMAIN r /\ r[i + 1] = s[i]
<1> DEFINE r == <<f>> \o s
<1>1. <<f>> \in Seq(S) /\ Len(<<f>>) = 1 /\ <<f>>[1] = f
  OBVIOUS
<1>2. r \in Seq(S) /\ Len(r) = Len(s) + 1
  BY <1>1, ConcatProperties, Positions
<1>3. \A i \in 1..Len(s) + 1 : r[i] = IF i = 1 THEN f ELSE s[i - 1]
  BY <1>1, ConcatProperties, Positions
<1>4. DOMAIN r = 1..Len(s) + 1 /\ Len(s) \in Nat
  BY <1>2, Positions
<1> HIDE DEF r
<1>5. r # <<>> /\ r[1] = f
  BY <1>2, <1>3, <1>4
<1>6. Head(r) = r[1]
  BY <1>2, <1>5, Positions
<1>7. \A i \in DOMAIN s : i + 1 \in DOMAIN r /\ r[i + 1] = s[i]
  <2> SUFFICES ASSUME NEW i \in 1..Len(s) PROVE i + 1 \in 1..Len(s) + 1 /\ r[i + 1] = s[i]
    BY <1>4, Positions
  <2>1. i + 1 \in 1..Len(s) + 1 /\ i + 1 # 1 /\ (i + 1) - 1 = i
    BY <1>4
  <2> QED
    BY <1>3, <2>1
<1>8. \A i \in DOMAIN r : i # 1 => i - 1 \in DOMAIN s /\ r[i] = s[i - 1]
  BY <1>3, <1>4, Positions
<1> QED
  BY <1>2, <1>4, <1>5, <1>6, <1>7, <1>8 DEF r

\* Replacing the top and pushing another element on it.
LEMMA Called ==
  ASSUME NEW S, NEW s \in Seq(S), s # <<>>, NEW f \in S, NEW g \in S
  PROVE  LET r == <<g, f>> \o Tail(s) IN
         /\ r \in Seq(S) /\ Len(r) = Len(s) + 1 /\ r # <<>> /\ r[1] = g /\ Head(r) = g
         /\ DOMAIN r = 1..Len(s) + 1
         /\ r[2] = f /\ 2 \in DOMAIN r
         /\ \A i \in DOMAIN r : i > 2 => i - 1 \in DOMAIN s /\ i - 1 > 1 /\ r[i] = s[i - 1]
         /\ \A i \in DOMAIN s : i > 1 => i + 1 \in DOMAIN r /\ r[i + 1] = s[i]
<1> DEFINE r == <<g, f>> \o Tail(s)
<1>1. <<g, f>> \in Seq(S) /\ Len(<<g, f>>) = 2 /\ <<g, f>>[1] = g /\ <<g, f>>[2] = f
  OBVIOUS
<1>2. Tail(s) \in Seq(S) /\ Len(Tail(s)) = Len(s) - 1 /\ Len(s) \in Nat /\ Len(s) >= 1
      /\ \A i \in 1..Len(Tail(s)) : Tail(s)[i] = s[i + 1]
  BY HeadTailProperties, Positions
<1>3. r \in Seq(S) /\ Len(r) = Len(s) + 1
  BY <1>1, <1>2, ConcatProperties
<1>4. \A i \in 1..Len(s) + 1 : r[i] = IF i = 1 THEN g ELSE IF i = 2 THEN f ELSE s[i - 1]
  <2> SUFFICES ASSUME NEW i \in 1..Len(s) + 1
               PROVE  r[i] = IF i = 1 THEN g ELSE IF i = 2 THEN f ELSE s[i - 1]
    OBVIOUS
  <2>1. r[i] = IF i <= 2 THEN <<g, f>>[i] ELSE Tail(s)[i - 2]
    BY <1>1, <1>2, ConcatProperties
  <2>2. i > 2 => Tail(s)[i - 2] = s[i - 1]
    BY <1>2
  <2> QED
    BY <1>1, <2>1, <2>2
<1>5. DOMAIN r = 1..Len(s) + 1
  BY <1>3, Positions
<1> HIDE DEF r
<1>6. r # <<>> /\ r[1] = g /\ r[2] = f /\ 2 \in DOMAIN r
  BY <1>2, <1>3, <1>4, <1>5
<1>7. Head(r) = r[1]
  BY <1>3, <1>6, Positions
<1>8. \A i \in DOMAIN r : i > 2 => i - 1 \in DOMAIN s /\ i - 1 > 1 /\ r[i] = s[i - 1]
  BY <1>2, <1>4, <1>5, Positions
<1>9. ASSUME NEW i \in DOMAIN s, i > 1 PROVE i + 1 \in DOMAIN r /\ r[i + 1] = s[i]
  <2>1. i \in 1..Len(s) /\ i + 1 \in 1..Len(s) + 1 /\ i + 1 # 1 /\ i + 1 # 2 /\ (i + 1) - 1 = i
    BY <1>2, <1>9, Positions
  <2> QED
    BY <1>4, <1>5, <2>1
<1> QED
  BY <1>3, <1>5, <1>6, <1>7, <1>8, <1>9 DEF r

\* Popping the top.
LEMMA Popped ==
  ASSUME NEW S, NEW s \in Seq(S), s # <<>>
  PROVE  /\ Tail(s) \in Seq(S) /\ Len(Tail(s)) = Len(s) - 1
         /\ DOMAIN Tail(s) = 1..Len(s) - 1
         /\ \A i \in DOMAIN Tail(s) : i + 1 \in DOMAIN s /\ Tail(s)[i] = s[i + 1]
         /\ Tail(s) = <<>> <=> Len(s) = 1
<1>1. Tail(s) \in Seq(S) /\ Len(Tail(s)) = Len(s) - 1
      /\ \A i \in 1..Len(Tail(s)) : Tail(s)[i] = s[i + 1]
  BY HeadTailProperties
<1>2. DOMAIN Tail(s) = 1..Len(s) - 1 /\ DOMAIN s = 1..Len(s) /\ Len(s) \in Nat
  BY <1>1, Positions
<1>3. Tail(s) = <<>> <=> Len(Tail(s)) = 0
  BY <1>1, Positions, EmptySeq
<1> QED
  BY <1>1, <1>2, <1>3

\* Reversing keeps the elements.
LEMMA Reversed ==
  ASSUME NEW S, NEW s \in Seq(S)
  PROVE  Reverse(s) \in Seq(S)
<1>1. \A i \in 1..Len(s) : s[(Len(s) - i) + 1] \in S
  BY Positions
<1> QED
  BY <1>1, Positions DEF Reverse

\* Positions that shift are not more than those they shift to.
LEMMA ShiftedPositions ==
  ASSUME NEW A \in SUBSET Int, IsFiniteSet(A), NEW B \in SUBSET Int, NEW k \in Int, \A i \in B : i + k \in A
  PROVE  IsFiniteSet(B) /\ Cardinality(B) <= Cardinality(A)
<1> DEFINE f == [i \in B |-> i + k]
<1>1. f \in [B -> A] /\ \A i, j \in B : f[i] = f[j] => i = j
  OBVIOUS
<1>2. f \in Injection(B, A)
  BY <1>1 DEF Injection, IsInjective
<1> QED
  BY <1>2, FS_Injection

=============================================================================
