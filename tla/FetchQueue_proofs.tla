------------------------- MODULE FetchQueue_proofs -------------------------
(***************************************************************************)
(* Proofs about the request queue, for any calls, consumers, request IDs   *)
(* and numbers of slots.                                                   *)
(***************************************************************************)
EXTENDS FetchQueue, SequenceTheorems, FiniteSetTheorems, WellFoundedInduction, TLAPS

-----------------------------------------------------------------------------
(* Induction over the natural numbers, for sets instead of predicates      *)

(* The intervals 1..t are finite sets, and one of them is in no other.     *)
LEMMA SmallestOf ==
    ASSUME NEW T \in SUBSET Nat, T /= {}
    PROVE  \E m \in T : \A n \in T : m <= n
<1>. DEFINE R == StrictSubsetOrdering(Nat)
            S == FiniteSubsetsOf(Nat)
            W == {1..t : t \in T}
<1>1. IsWellFoundedOn(R, S)
  BY FS_StrictSubsetOrderingWellFounded
<1>2. W \subseteq S
  <2>1. \A t \in T : IsFiniteSet(1..t) /\ 1..t \in SUBSET Nat
    BY FS_Interval
  <2>. QED
    BY <2>1 DEF FiniteSubsetsOf
<1>3. W /= {}
  OBVIOUS
<1>4. PICK x \in W : \A y \in W : ~ (<<y, x>> \in R)
  <2>. HIDE DEF R, S, W
  <2>. QED
    BY <1>1, <1>2, <1>3, WFMin
<1>5. PICK m \in T : x = 1..m
  OBVIOUS
<1>6. ASSUME NEW n \in T, n < m
      PROVE  FALSE
  <2>1. 1..n \in W /\ 1..n \subseteq 1..m /\ m \in 1..m /\ m \notin 1..n
    BY <1>6
  <2>2. 1..n /= 1..m
    BY <2>1
  <2>3. 1..n \in SUBSET Nat /\ 1..m \in SUBSET Nat
    OBVIOUS
  <2>4. <<1..n, 1..m>> \in R
    BY <2>1, <2>2, <2>3 DEF StrictSubsetOrdering
  <2>. QED
    BY <1>4, <1>5, <2>1, <2>4
<1>. QED
  BY <1>6

LEMMA SetInduction ==
    ASSUME NEW S, 0 \in S, \A n \in Nat : n \in S => n + 1 \in S
    PROVE  Nat \subseteq S
<1>. DEFINE T == Nat \ S
<1>1. SUFFICES ASSUME T /= {} PROVE FALSE
  OBVIOUS
<1>2. PICK m \in T : \A n \in T : m <= n
  BY <1>1, SmallestOf
<1>3. m \in Nat /\ m /= 0 /\ m - 1 \in Nat /\ ~(m <= m - 1) /\ (m - 1) + 1 = m
  OBVIOUS
<1>4. m - 1 \in S
  BY <1>2, <1>3
<1>. QED
  BY <1>3, <1>4

-----------------------------------------------------------------------------
(* Selected                                                                *)

(* What is selected of the first n elements.                               *)
SelectedUpTo(s, T) ==
    CHOOSE F : F = [n \in 0..Len(s) |->
                        IF n = 0 THEN <<>>
                        ELSE IF s[n] \in T THEN Append(F[n - 1], s[n]) ELSE F[n - 1]]

LEMMA SelectedIs ==
    ASSUME NEW s, NEW T
    PROVE  Selected(s, T) = SelectedUpTo(s, T)[Len(s)]
BY DEF Selected, SelectedUpTo

(* The recursion is well founded.                                          *)
LEMMA SelectedStep ==
    ASSUME NEW S, NEW s \in Seq(S), NEW T
    PROVE  SelectedUpTo(s, T) = [n \in 0..Len(s) |->
                IF n = 0 THEN <<>>
                ELSE IF s[n] \in T THEN Append(SelectedUpTo(s, T)[n - 1], s[n])
                                   ELSE SelectedUpTo(s, T)[n - 1]]
<1>. DEFINE Step(F, n) == IF n = 0 THEN <<>>
                          ELSE IF s[n] \in T THEN Append(F[n - 1], s[n]) ELSE F[n - 1]
            Good(m) == \E F : F = [n \in 0..m |-> Step(F, n)]
            G == {m \in Nat : Good(m)}
<1>1. 0 \in G
  <2>. DEFINE F == [n \in 0..0 |-> <<>>]
  <2>1. F = [n \in 0..0 |-> Step(F, n)]
    OBVIOUS
  <2>. QED
    BY <2>1
<1>2. ASSUME NEW m \in Nat, m \in G
      PROVE  m + 1 \in G
  <2>1. PICK F : F = [n \in 0..m |-> Step(F, n)]
    BY <1>2
  <2>. DEFINE H == [n \in 0..(m + 1) |-> IF n <= m THEN F[n] ELSE Step(F, m + 1)]
  <2>2. ASSUME NEW n \in 0..(m + 1)
        PROVE  H[n] = Step(H, n)
    <3>1. CASE n = 0
      <4>1. F[0] = <<>> /\ H[0] = F[0]
        BY <2>1
      <4>. QED
        BY <3>1, <4>1
    <3>2. CASE n /= 0 /\ n <= m
      <4>1. n - 1 \in 0..m /\ n \in 0..m /\ n - 1 \in 0..(m + 1) /\ n - 1 <= m
        BY <3>2
      <4>2. H[n] = F[n] /\ H[n - 1] = F[n - 1] /\ F[n] = Step(F, n)
        BY <2>1, <3>2, <4>1
      <4>. QED
        BY <3>2, <4>2
    <3>3. CASE n = m + 1
      <4>1. n - 1 = m /\ n - 1 \in 0..(m + 1) /\ n - 1 <= m /\ ~(n <= m) /\ n /= 0
        BY <3>3
      <4>2. H[n] = Step(F, n) /\ H[n - 1] = F[n - 1]
        BY <3>3, <4>1
      <4>. QED
        BY <4>1, <4>2
    <3>. QED
      BY <3>1, <3>2, <3>3
  <2>3. H = [n \in 0..(m + 1) |-> H[n]]
    OBVIOUS
  <2>4. H = [n \in 0..(m + 1) |-> Step(H, n)]
    <3>. HIDE DEF H, Step
    <3>. QED
      BY <2>2, <2>3
  <2>. QED
    <3>. HIDE DEF H, Step
    <3>. QED
      BY <2>4
<1>3. Len(s) \in G
  <2>1. Len(s) \in Nat
    BY LenProperties
  <2>2. Nat \subseteq G
    <3>. HIDE DEF G
    <3>. QED
      BY <1>1, <1>2, SetInduction
  <2>. QED
    BY <2>1, <2>2
<1>. QED
  BY <1>3 DEF SelectedUpTo

(* No element occurs twice.                                                *)
Distinct(q) == \A m, n \in DOMAIN q : q[m] = q[n] => m = n

LEMMA SetOfSeq ==
    ASSUME NEW S, NEW q \in Seq(S)
    PROVE  /\ ToSet(q) \subseteq S
           /\ q = <<>> <=> ToSet(q) = {}
           /\ Len(q) \in Nat
           /\ DOMAIN q = 1..Len(q)
           /\ \A e : Contains(q, e) <=> e \in ToSet(q)
BY LenProperties, ElementOfSeq, EmptySeq DEF ToSet, Contains

LEMMA SetOfAppend ==
    ASSUME NEW S, NEW q \in Seq(S), NEW e \in S
    PROVE  /\ Append(q, e) \in Seq(S)
           /\ ToSet(Append(q, e)) = ToSet(q) \cup {e}
           /\ Distinct(q) /\ e \notin ToSet(q) => Distinct(Append(q, e))
<1>. DEFINE a == Append(q, e)
<1>1. /\ a \in Seq(S) /\ Len(q) \in Nat
      /\ Len(a) = Len(q) + 1
      /\ \A i \in 1..Len(q) : a[i] = q[i]
      /\ a[Len(q) + 1] = e
      /\ DOMAIN a = 1..(Len(q) + 1) /\ DOMAIN q = 1..Len(q)
  BY AppendProperties, LenProperties
<1>. HIDE DEF a
<1>2. ToSet(a) = ToSet(q) \cup {e}
  BY <1>1 DEF ToSet
<1>3. Distinct(q) /\ e \notin ToSet(q) => Distinct(a)
  <2>. SUFFICES ASSUME Distinct(q), e \notin ToSet(q),
                       NEW m \in DOMAIN a, NEW n \in DOMAIN a, a[m] = a[n]
                PROVE  m = n
    BY DEF Distinct
  <2>1. (m \in 1..Len(q) \/ m = Len(q) + 1) /\ (n \in 1..Len(q) \/ n = Len(q) + 1)
    BY <1>1
  <2>2. \A k \in 1..Len(q) : q[k] /= e
    BY <1>1 DEF ToSet
  <2>. QED
    BY <1>1, <2>1, <2>2 DEF Distinct
<1>. QED
  BY <1>1, <1>2, <1>3 DEF a

(* What Selected returns: of the elements those in T, none twice that was  *)
(* not there twice.                                                        *)
LEMMA SelectedProperties ==
    ASSUME NEW S, NEW s \in Seq(S), NEW T
    PROVE  /\ Selected(s, T) \in Seq(S)
           /\ ToSet(Selected(s, T)) = ToSet(s) \cap T
           /\ Distinct(s) => Distinct(Selected(s, T))
<1>. DEFINE F == SelectedUpTo(s, T)
            Upto(n) == {s[k] : k \in 1..n}
            Good(n) == /\ F[n] \in Seq(S)
                       /\ ToSet(F[n]) = Upto(n) \cap T
                       /\ Distinct(s) => Distinct(F[n])
            G == {n \in Nat : n <= Len(s) => Good(n)}
<1>1. Len(s) \in Nat /\ DOMAIN s = 1..Len(s) /\ \A k \in 1..Len(s) : s[k] \in S
  BY LenProperties, ElementOfSeq
<1>2. F = [n \in 0..Len(s) |-> IF n = 0 THEN <<>>
                              ELSE IF s[n] \in T THEN Append(F[n - 1], s[n]) ELSE F[n - 1]]
  BY SelectedStep
<1>. HIDE DEF F
<1>3. 0 \in G
  <2>1. F[0] = <<>>
    BY <1>1, <1>2
  <2>2. <<>> \in Seq(S) /\ ToSet(<<>>) = {} /\ Distinct(<<>>)
    BY EmptySeq DEF ToSet, Distinct
  <2>3. Upto(0) = {}
    OBVIOUS
  <2>. QED
    BY <2>1, <2>2, <2>3
<1>4. ASSUME NEW n \in Nat, n \in G
      PROVE  n + 1 \in G
  <2>. SUFFICES ASSUME n + 1 <= Len(s) PROVE Good(n + 1)
    OBVIOUS
  <2>1. n <= Len(s) /\ n + 1 \in 0..Len(s) /\ n + 1 /= 0 /\ (n + 1) - 1 = n /\ n + 1 \in 1..Len(s)
    BY <1>1
  <2>2. F[n] \in Seq(S) /\ ToSet(F[n]) = Upto(n) \cap T /\ (Distinct(s) => Distinct(F[n]))
    BY <1>4, <2>1
  <2>3. Upto(n + 1) = Upto(n) \cup {s[n + 1]}
    <3>1. 1..(n + 1) = 1..n \cup {n + 1}
      OBVIOUS
    <3>. QED
      BY <3>1
  <2>4. s[n + 1] \in S
    BY <1>1, <2>1
  <2>5. Distinct(s) => s[n + 1] \notin Upto(n)
    BY <1>1, <2>1 DEF Distinct
  <2>6. CASE s[n + 1] \in T
    <3>1. F[n + 1] = Append(F[n], s[n + 1])
      BY <1>2, <2>1, <2>6
    <3>. HIDE DEF Upto
    <3>. QED
      BY <2>2, <2>3, <2>4, <2>5, <2>6, <3>1, SetOfAppend
  <2>7. CASE s[n + 1] \notin T
    <3>1. F[n + 1] = F[n]
      BY <1>2, <2>1, <2>7
    <3>. HIDE DEF Upto
    <3>. QED
      BY <2>2, <2>3, <2>7, <3>1
  <2>. QED
    BY <2>6, <2>7
<1>5. Good(Len(s))
  <2>1. Nat \subseteq G
    <3>. HIDE DEF G
    <3>. QED
      BY <1>3, <1>4, SetInduction
  <2>2. Len(s) \in G /\ Len(s) <= Len(s)
    <3>. HIDE DEF G
    <3>. QED
      BY <1>1, <2>1
  <2>. QED
    BY <2>2
<1>6. Upto(Len(s)) = ToSet(s)
  BY <1>1 DEF ToSet
<1>. QED
  BY <1>5, <1>6, SelectedIs DEF F

(* A sequence without repetition of the elements of a set with at most one *)
(* element has at most one.                                                *)
LEMMA AtMostOne ==
    ASSUME NEW S, NEW q \in Seq(S), Distinct(q),
           \A a, b \in ToSet(q) : a = b
    PROVE  Len(q) <= 1
<1>1. Len(q) \in Nat /\ DOMAIN q = 1..Len(q)
  BY LenProperties
<1>2. SUFFICES ASSUME Len(q) > 1 PROVE FALSE
  BY <1>1
<1>3. 1 \in DOMAIN q /\ 2 \in DOMAIN q
  BY <1>1, <1>2
<1>4. q[1] \in ToSet(q) /\ q[2] \in ToSet(q)
  BY <1>3 DEF ToSet
<1>. QED
  BY <1>3, <1>4 DEF Distinct

-----------------------------------------------------------------------------
(* RemoveFirst, and the calls in front of others                           *)

LEMMA RemovedFirst ==
    ASSUME NEW S, NEW q \in Seq(S), Distinct(q), NEW e
    PROVE  /\ RemoveFirst(q, e) \in Seq(S)
           /\ ToSet(RemoveFirst(q, e)) = ToSet(q) \ {e}
           /\ Distinct(RemoveFirst(q, e))
<1>1. Len(q) \in Nat /\ DOMAIN q = 1..Len(q) /\ \A k \in 1..Len(q) : q[k] \in S
  BY LenProperties, ElementOfSeq
<1>2. CASE ~ \E i \in 1..Len(q) : q[i] = e
  <2>1. RemoveFirst(q, e) = q
    BY <1>2 DEF RemoveFirst
  <2>. QED
    BY <1>1, <1>2, <2>1 DEF ToSet
<1>3. CASE \E i \in 1..Len(q) : q[i] = e
  <2>. DEFINE I == {i \in 1..Len(q) : q[i] = e}
  <2>1. PICK k \in 1..Len(q) : q[k] = e
    BY <1>3
  <2>2. I = {k}
    BY <1>1, <2>1 DEF Distinct
  <2>3. Min(I) = k
    BY <2>2 DEF Min
  <2>. DEFINE r == SubSeq(q, 1, k - 1)
              t == SubSeq(q, k + 1, Len(q))
  <2>4. RemoveFirst(q, e) = r \o t
    BY <1>3, <2>2, <2>3 DEF RemoveFirst, RemoveAt, SelectInSeq
  <2>5. /\ r \in Seq(S) /\ Len(r) = k - 1
        /\ \A i \in 1..(k - 1) : r[i] = q[i]
    <3>1. 1 \in Int /\ k - 1 \in Int /\ \A i \in 1..(k - 1) : q[i] \in S
      BY <1>1
    <3>2. /\ r \in Seq(S)
          /\ Len(r) = IF 1 <= k - 1 THEN (k - 1) - 1 + 1 ELSE 0
          /\ \A i \in 1..((k - 1) - 1 + 1) : r[i] = q[1 + i - 1]
      <4>. HIDE DEF r
      <4>. QED
        BY <3>1, SubSeqProperties DEF r
    <3>. QED
      BY <1>1, <3>2
  <2>6. /\ t \in Seq(S) /\ Len(t) = Len(q) - k
        /\ \A i \in 1..(Len(q) - k) : t[i] = q[k + i]
    <3>1. k + 1 \in Int /\ Len(q) \in Int /\ \A i \in (k + 1)..Len(q) : q[i] \in S
      BY <1>1
    <3>2. /\ t \in Seq(S)
          /\ Len(t) = IF k + 1 <= Len(q) THEN Len(q) - (k + 1) + 1 ELSE 0
          /\ \A i \in 1..(Len(q) - (k + 1) + 1) : t[i] = q[(k + 1) + i - 1]
      <4>. HIDE DEF t
      <4>. QED
        BY <3>1, SubSeqProperties DEF t
    <3>3. ASSUME NEW i \in 1..(Len(q) - k) PROVE t[i] = q[k + i]
      <4>1. i \in 1..(Len(q) - (k + 1) + 1) /\ (k + 1) + i - 1 = k + i
        BY <1>1
      <4>. QED
        BY <3>2, <4>1
    <3>. HIDE DEF t
    <3>4. Len(t) = Len(q) - k
      <4>1. /\ k \in Int /\ Len(q) \in Int /\ k <= Len(q)
            /\ Len(t) = IF k + 1 <= Len(q) THEN Len(q) - (k + 1) + 1 ELSE 0
        <5>1. Len(q) \in Int /\ k \in Int /\ k <= Len(q)
          BY <1>1, <2>1
        <5>. QED
          BY <3>2, <5>1
      <4>. HIDE DEF I
      <4>2. ASSUME NEW l, NEW m \in Int, k \in Int, k <= m,
                   l = IF k + 1 <= m THEN m - (k + 1) + 1 ELSE 0
            PROVE  l = m - k
        BY ONLY <4>2
      <4>. QED
        BY ONLY <4>1, <4>2
    <3>. QED
      BY <3>2, <3>3, <3>4
  <2>. DEFINE c == r \o t
  <2>. HIDE DEF r, t
  <2>7. /\ c \in Seq(S) /\ Len(c) = Len(q) - 1 /\ DOMAIN c = 1..(Len(q) - 1)
        /\ \A i \in 1..(k - 1) : c[i] = q[i]
        /\ \A i \in k..(Len(q) - 1) : c[i] = q[i + 1]
    <3>1. /\ c \in Seq(S) /\ Len(c) = Len(r) + Len(t)
          /\ \A i \in 1..(Len(r) + Len(t)) : c[i] = IF i <= Len(r) THEN r[i] ELSE t[i - Len(r)]
      BY <2>5, <2>6, ConcatProperties
    <3>2. Len(c) = Len(q) - 1
      BY <1>1, <2>5, <2>6, <3>1
    <3>3. DOMAIN c = 1..(Len(q) - 1)
      BY <3>1, <3>2, LenProperties
    <3>4. \A i \in 1..(k - 1) : c[i] = q[i]
      BY <1>1, <2>5, <2>6, <3>1
    <3>5. ASSUME NEW i \in k..(Len(q) - 1) PROVE c[i] = q[i + 1]
      <4>1. i \in 1..(Len(r) + Len(t)) /\ ~(i <= Len(r)) /\ i - Len(r) \in 1..(Len(q) - k)
            /\ k + (i - Len(r)) = i + 1
        BY <1>1, <2>5, <2>6
      <4>. QED
        BY <2>6, <3>1, <4>1
    <3>. QED
      BY <3>1, <3>2, <3>3, <3>4, <3>5
  <2>. HIDE DEF c
  <2>8. Distinct(c)
    <3>. SUFFICES ASSUME NEW m \in 1..(Len(q) - 1), NEW n \in 1..(Len(q) - 1), c[m] = c[n]
                  PROVE  m = n
      BY <2>7 DEF Distinct
    <3>1. (m \in 1..(k - 1) \/ m \in k..(Len(q) - 1)) /\ (n \in 1..(k - 1) \/ n \in k..(Len(q) - 1))
      BY <1>1
    <3>. DEFINE at(i) == IF i < k THEN i ELSE i + 1
    <3>2. \A i \in 1..(Len(q) - 1) : at(i) \in DOMAIN q /\ c[i] = q[at(i)]
      <4>. SUFFICES ASSUME NEW i \in 1..(Len(q) - 1) PROVE at(i) \in DOMAIN q /\ c[i] = q[at(i)]
        OBVIOUS
      <4>1. CASE i < k
        BY <1>1, <2>7, <4>1
      <4>2. CASE ~(i < k)
        <5>1. i \in k..(Len(q) - 1)
          BY <1>1, <4>2
        <5>. QED
          BY <1>1, <2>7, <4>2, <5>1
      <4>. QED
        BY <4>1, <4>2
    <3>3. at(m) = at(n)
      <4>1. at(m) \in DOMAIN q /\ at(n) \in DOMAIN q /\ q[at(m)] = q[at(n)]
        BY <3>2
      <4>2. \A a, b \in DOMAIN q : q[a] = q[b] => a = b
        BY DEF Distinct
      <4>. QED
        BY ONLY <4>1, <4>2
    <3>. QED
      BY <3>3
  <2>9. ToSet(c) = ToSet(q) \ {e}
    <3>1. ASSUME NEW x \in ToSet(c) PROVE x \in ToSet(q) \ {e}
      <4>1. PICK m \in 1..(Len(q) - 1) : x = c[m]
        BY <2>7 DEF ToSet
      <4>2. m \in 1..(k - 1) \/ m \in k..(Len(q) - 1)
        BY <1>1
      <4>3. \E n \in 1..Len(q) : n /= k /\ x = q[n]
        BY <1>1, <2>7, <4>1, <4>2
      <4>. QED
        BY <1>1, <2>1, <4>3 DEF ToSet, Distinct
    <3>2. ASSUME NEW x \in ToSet(q), x /= e PROVE x \in ToSet(c)
      <4>1. PICK n \in 1..Len(q) : x = q[n]
        BY <1>1 DEF ToSet
      <4>2. n \in 1..(k - 1) \/ n - 1 \in k..(Len(q) - 1)
        BY <1>1, <2>1, <3>2, <4>1
      <4>3. \E m \in 1..(Len(q) - 1) : x = c[m]
        <5>1. CASE n \in 1..(k - 1)
          BY <1>1, <2>7, <4>1, <5>1
        <5>2. CASE n - 1 \in k..(Len(q) - 1)
          <6>1. c[n - 1] = q[(n - 1) + 1] /\ (n - 1) + 1 = n /\ n - 1 \in 1..(Len(q) - 1)
            BY <2>7, <5>2
          <6>. QED
            BY <4>1, <6>1
        <5>. QED
          BY <4>2, <5>1, <5>2
      <4>. QED
        BY <2>7, <4>3 DEF ToSet
    <3>. QED
      BY <3>1, <3>2
  <2>. QED
    BY <2>4, <2>7, <2>8, <2>9 DEF c
<1>. QED
  BY <1>2, <1>3

LEMMA Concatenated ==
    ASSUME NEW S, NEW p \in Seq(S), NEW q \in Seq(S)
    PROVE  /\ p \o q \in Seq(S)
           /\ ToSet(p \o q) = ToSet(p) \cup ToSet(q)
           /\ p \o q = <<>> <=> p = <<>> /\ q = <<>>
           /\ <<>> \o q = q
           /\ p /= <<>> => Head(p \o q) = Head(p) /\ Tail(p \o q) = Tail(p) \o q
<1>. DEFINE c == p \o q
<1>1. /\ c \in Seq(S) /\ Len(c) = Len(p) + Len(q)
      /\ \A i \in 1..(Len(p) + Len(q)) : c[i] = IF i <= Len(p) THEN p[i] ELSE q[i - Len(p)]
  BY ConcatProperties
<1>2. /\ Len(p) \in Nat /\ DOMAIN p = 1..Len(p)
      /\ Len(q) \in Nat /\ DOMAIN q = 1..Len(q) /\ DOMAIN c = 1..(Len(p) + Len(q))
  BY <1>1, LenProperties
<1>. HIDE DEF c
<1>3. ToSet(c) = ToSet(p) \cup ToSet(q)
  <2>1. ToSet(c) \subseteq ToSet(p) \cup ToSet(q)
    <3>. SUFFICES ASSUME NEW i \in 1..(Len(p) + Len(q)) PROVE c[i] \in ToSet(p) \cup ToSet(q)
      BY <1>2 DEF ToSet
    <3>1. CASE i <= Len(p)
      BY <1>1, <1>2, <3>1 DEF ToSet
    <3>2. CASE ~(i <= Len(p))
      <4>1. i - Len(p) \in 1..Len(q)
        BY <1>2, <3>2
      <4>. QED
        BY <1>1, <1>2, <3>2, <4>1 DEF ToSet
    <3>. QED
      BY <3>1, <3>2
  <2>2. ToSet(p) \subseteq ToSet(c)
    <3>. SUFFICES ASSUME NEW i \in 1..Len(p) PROVE p[i] \in ToSet(c)
      BY <1>2 DEF ToSet
    <3>1. i \in 1..(Len(p) + Len(q)) /\ i <= Len(p)
      BY <1>2
    <3>. QED
      BY <1>1, <1>2, <3>1 DEF ToSet
  <2>3. ToSet(q) \subseteq ToSet(c)
    <3>. SUFFICES ASSUME NEW i \in 1..Len(q) PROVE q[i] \in ToSet(c)
      BY <1>2 DEF ToSet
    <3>1. i + Len(p) \in 1..(Len(p) + Len(q)) /\ ~(i + Len(p) <= Len(p)) /\ (i + Len(p)) - Len(p) = i
      BY <1>2
    <3>. QED
      BY <1>1, <1>2, <3>1 DEF ToSet
  <2>. QED
    BY <2>1, <2>2, <2>3
<1>4. p \o q = <<>> <=> p = <<>> /\ q = <<>>
  BY ConcatEqualIffEmpty
<1>5. <<>> \o q = q
  BY ConcatEmptySeq
<1>6. ASSUME p /= <<>>
      PROVE  Head(c) = Head(p) /\ Tail(c) = Tail(p) \o q
  <2>1. Len(p) \in Nat \ {0} /\ c /= <<>>
    BY <1>4, <1>6, EmptySeq DEF c
  <2>2. Head(c) = c[1] /\ Head(p) = p[1] /\ c[1] = p[1]
    BY <1>1, <1>2, <2>1
  <2>3. /\ Tail(c) \in Seq(S) /\ Len(Tail(c)) = Len(c) - 1
        /\ \A i \in 1..Len(Tail(c)) : Tail(c)[i] = c[i + 1]
    BY <1>1, <2>1, HeadTailProperties
  <2>4. /\ Tail(p) \in Seq(S) /\ Len(Tail(p)) = Len(p) - 1
        /\ \A i \in 1..Len(Tail(p)) : Tail(p)[i] = p[i + 1]
    BY <1>6, HeadTailProperties
  <2>. DEFINE d == Tail(p) \o q
  <2>5. /\ d \in Seq(S) /\ Len(d) = Len(Tail(p)) + Len(q)
        /\ \A i \in 1..(Len(Tail(p)) + Len(q)) :
                d[i] = IF i <= Len(Tail(p)) THEN Tail(p)[i] ELSE q[i - Len(Tail(p))]
    BY <2>4, ConcatProperties
  <2>. HIDE DEF d
  <2>6. Len(Tail(c)) = Len(d) /\ Len(d) = Len(p) - 1 + Len(q)
    BY <1>1, <1>2, <2>3, <2>4, <2>5
  <2>7. ASSUME NEW i \in 1..Len(Tail(c)) PROVE Tail(c)[i] = d[i]
    <3>1. /\ i \in Int /\ 1 <= i /\ i <= Len(p) - 1 + Len(q) /\ i + 1 \in 1..(Len(p) + Len(q))
          /\ i \in 1..(Len(Tail(p)) + Len(q))
      BY <1>2, <2>4, <2>6
    <3>2. Tail(c)[i] = c[i + 1]
      BY <2>3
    <3>3. CASE i <= Len(p) - 1
      <4>1. i + 1 <= Len(p) /\ i \in 1..Len(Tail(p)) /\ i <= Len(Tail(p))
        BY <1>2, <2>4, <3>1, <3>3
      <4>. QED
        BY <1>1, <2>4, <2>5, <3>1, <3>2, <4>1
    <3>4. CASE ~(i <= Len(p) - 1)
      <4>1. ~(i + 1 <= Len(p)) /\ ~(i <= Len(Tail(p))) /\ (i + 1) - Len(p) = i - Len(Tail(p))
        BY <1>2, <2>4, <3>1, <3>4
      <4>. QED
        BY <1>1, <2>5, <3>1, <3>2, <4>1
    <3>. QED
      BY <3>3, <3>4
  <2>8. Tail(c) = d
    BY <2>3, <2>5, <2>6, <2>7, SeqEqual
  <2>. QED
    BY <2>2, <2>8 DEF d
<1>. QED
  BY <1>1, <1>3, <1>4, <1>5, <1>6 DEF c

LEMMA OneInFront ==
    ASSUME NEW S, NEW e \in S, NEW q \in Seq(S)
    PROVE  /\ <<e>> \in Seq(S) /\ ToSet(<<e>>) = {e} /\ <<e>> /= <<>>
           /\ <<e>> \o q \in Seq(S)
           /\ ToSet(<<e>> \o q) = {e} \cup ToSet(q)
           /\ <<e>> \o q /= <<>>
           /\ Head(<<e>> \o q) = e
           /\ Tail(<<e>> \o q) = q
<1>1. <<e>> \in Seq(S) /\ ToSet(<<e>>) = {e} /\ <<e>> /= <<>> /\ Head(<<e>>) = e /\ Tail(<<e>>) = <<>>
  BY DEF ToSet
<1>2. PICK o \in Seq(S) : o = <<e>> /\ ToSet(o) = {e} /\ o /= <<>> /\ Head(o) = e /\ Tail(o) = <<>>
  BY <1>1
<1>2a. ToSet(o) = {e} /\ o /= <<>> /\ Head(o) = e /\ Tail(o) = <<>>
  BY ONLY <1>2
<1>3. /\ o \o q \in Seq(S) /\ ToSet(o \o q) = ToSet(o) \cup ToSet(q) /\ o \o q /= <<>>
      /\ Head(o \o q) = Head(o) /\ Tail(o \o q) = Tail(o) \o q
  BY <1>2a, Concatenated
<1>4. <<>> \o q = q
  BY Concatenated
<1>5. Tail(o \o q) = q
  BY <1>2a, <1>3, <1>4, Zenon
<1>. QED
  BY <1>2, <1>2a, <1>3, <1>5, Zenon

LEMMA TailOf ==
    ASSUME NEW S, NEW q \in Seq(S), q /= <<>>
    PROVE  /\ Head(q) \in S
           /\ Tail(q) \in Seq(S)
           /\ ToSet(q) = {Head(q)} \cup ToSet(Tail(q))
           /\ Distinct(q) => Distinct(Tail(q)) /\ Head(q) \notin ToSet(Tail(q))
           /\ q = <<Head(q)>> \o Tail(q)
<1>. DEFINE t == Tail(q)
<1>1. /\ Head(q) \in S /\ t \in Seq(S) /\ Len(t) = Len(q) - 1
      /\ \A i \in 1..Len(t) : t[i] = q[i + 1]
  BY HeadTailProperties
<1>2. Len(q) \in Nat \ {0} /\ DOMAIN q = 1..Len(q) /\ DOMAIN t = 1..Len(t) /\ Head(q) = q[1]
  BY <1>1, EmptySeq, LenProperties
<1>. HIDE DEF t
<1>3. \A i \in 1..Len(t) : i + 1 \in 1..Len(q) /\ i + 1 /= 1
  BY <1>1, <1>2
<1>4. ToSet(q) = {Head(q)} \cup ToSet(t)
  <2>1. ASSUME NEW i \in 1..Len(q), i /= 1 PROVE q[i] \in ToSet(t)
    <3>1. i - 1 \in 1..Len(t) /\ (i - 1) + 1 = i
      BY <1>1, <1>2, <2>1
    <3>. QED
      BY <1>1, <1>2, <3>1 DEF ToSet
  <2>2. ToSet(q) \subseteq {Head(q)} \cup ToSet(t)
    BY <1>2, <2>1 DEF ToSet
  <2>3. Head(q) \in ToSet(q)
    BY <1>2 DEF ToSet
  <2>4. ToSet(t) \subseteq ToSet(q)
    BY <1>1, <1>2, <1>3 DEF ToSet
  <2>. QED
    BY <2>2, <2>3, <2>4
<1>5. Distinct(q) => Distinct(t) /\ Head(q) \notin ToSet(t)
  <2>1. ASSUME Distinct(q) PROVE Distinct(t)
    <3>. SUFFICES ASSUME NEW m \in 1..Len(t), NEW n \in 1..Len(t), t[m] = t[n] PROVE m = n
      BY <1>2 DEF Distinct
    <3>1. /\ m + 1 \in DOMAIN q /\ n + 1 \in DOMAIN q /\ q[m + 1] = q[n + 1]
          /\ m \in Int /\ n \in Int
      BY <1>1, <1>2, <1>3
    <3>2. m + 1 = n + 1
      BY ONLY <2>1, <3>1 DEF Distinct
    <3>. QED
      BY ONLY <3>1, <3>2
  <2>2. ASSUME Distinct(q), NEW m \in 1..Len(t), t[m] = Head(q) PROVE FALSE
    <3>1. 1 \in 1..Len(q)
      BY <1>2
    <3>. QED
      BY <1>1, <1>2, <1>3, <2>2, <3>1 DEF Distinct
  <2>. QED
    BY <1>2, <2>1, <2>2 DEF ToSet
<1>6. q = <<Head(q)>> \o t
  <2>0. PICK h \in Seq(S) : h = <<Head(q)>> /\ Len(h) = 1 /\ h[1] = Head(q)
    <3>1. <<Head(q)>> \in Seq(S) /\ Len(<<Head(q)>>) = 1 /\ <<Head(q)>>[1] = Head(q)
      BY <1>1
    <3>. QED
      BY <3>1, Zenon
  <2>. DEFINE c == h \o t
  <2>1. /\ c \in Seq(S) /\ Len(c) = 1 + Len(t)
        /\ \A i \in 1..(1 + Len(t)) : c[i] = IF i <= 1 THEN h[i] ELSE t[i - 1]
    <3>1. /\ c \in Seq(S) /\ Len(c) = Len(h) + Len(t)
          /\ \A i \in 1..(Len(h) + Len(t)) : c[i] = IF i <= Len(h) THEN h[i] ELSE t[i - Len(h)]
      BY <1>1, <2>0, ConcatProperties
    <3>. QED
      BY <2>0, <3>1
  <2>. HIDE DEF c
  <2>2. Len(c) = Len(q)
    BY <1>1, <1>2, <2>1
  <2>3. ASSUME NEW i \in 1..Len(q) PROVE q[i] = c[i]
    <3>1. CASE i = 1
      BY <1>2, <1>1, <2>0, <2>1, <3>1
    <3>2. CASE i /= 1
      <4>1. i \in 1..(1 + Len(t)) /\ ~(i <= 1) /\ i - 1 \in 1..Len(t) /\ (i - 1) + 1 = i
        BY <1>1, <1>2, <3>2
      <4>. QED
        BY <1>1, <2>1, <4>1
    <3>. QED
      BY <3>1, <3>2
  <2>4. q = c
    BY <2>1, <2>2, <2>3, SeqEqual
  <2>. QED
    BY <2>0, <2>4 DEF c
<1>. QED
  BY <1>1, <1>4, <1>5, <1>6 DEF t

-----------------------------------------------------------------------------
(* The inductive invariant                                                 *)

(* What an event begins with, what an error makes a consumer do, and the   *)
(* calls that start a request.                                             *)
LowerCall == [op : {"add", "cancel", "setDone"}, id : Ids]
LetGoCall == [op : {"cancel", "setDone"}, id : Ids]
AddCall(i) == [op |-> "add", id |-> i]
FetchCall(i) == [op |-> "fetch", id |-> i]
SubscribeCall(i) == [op |-> "subscribe", id |-> i]
CancelCall(i) == [op |-> "cancel", id |-> i]
SetDoneCall(i) == [op |-> "setDone", id |-> i]

Waiting == WithStatus("Pending", status)
Older(j) == {k \in ToSet(started) : RequestId[k] = RequestId[j] /\ RequestId[k] /= NoId}

(* The four shapes of the calls that remain of an event.  The worker is in *)
(* the middle of its updates in the last three: there is one loop, and     *)
(* above it the request that is being started, and above that one, calls   *)
(* that let go of requests, the older ones with its ID among them.         *)
Idle == calls \in Seq(LowerCall) /\ inner = <<>> /\ buffer = <<>>
Looping(d) == d \in Seq(LowerCall) /\ calls = <<WorkerLoop>> \o d
Fetching(j, d) == d \in Seq(LowerCall) /\ calls = <<FetchCall(j)>> \o (<<WorkerLoop>> \o d)
LettingGo(w, j, d) ==
    /\ w \in Seq(LetGoCall) /\ d \in Seq(LowerCall)
    /\ calls = w \o (<<SubscribeCall(j)>> \o (<<WorkerLoop>> \o d))
    /\ \A k \in Older(j) : CancelCall(k) \in ToSet(w)

Shape == \/ Idle
         \/ \E d \in Seq(LowerCall) : Looping(d)
         \/ \E d \in Seq(LowerCall), j \in Ids : Fetching(j, d)
         \/ \E d \in Seq(LowerCall), j \in Ids, w \in Seq(LetGoCall) : LettingGo(w, j, d)

KeysOK == Distinct(keys) /\ ToSet(keys) = {i \in Ids : status[i] /= "Done"}

(* Either no request waits needlessly, or an update with the present count *)
(* is still to be processed, or its requests are still to be emitted.      *)
Busy == WorkerLoop \in ToSet(calls)
Count == Cardinality(InProgress)
UpToDate == \/ Waiting = {}
            \/ ~Busy /\ Waiting \subseteq DataQueries /\ Count >= MaxParallel
            \/ Busy /\ buffer = <<>> /\ inner = ToStart(keys, status, Count)
            \/ Busy /\ buffer /= <<>> /\ buffer[Len(buffer)] = Count

(* A call joins the queue once, is emitted once and is subscribed once.    *)
Touched(i) == i \in listening \/ outcome[i] /= "none"
StartingIn(q) == {i \in Ids : FetchCall(i) \in ToSet(q) \/ SubscribeCall(i) \in ToSet(q)}
Starting == StartingIn(calls)
ToAdd == {i \in Ids : AddCall(i) \in ToSet(calls)}
AddsOnce(q) == \A m, n \in DOMAIN q : q[m] = q[n] /\ q[m].op = "add" => m = n

Life ==
    /\ AddsOnce(calls)
    /\ \A i \in ToAdd : ~Touched(i)
    /\ \A i \in Ids : ~Touched(i) => status[i] = "Done" /\ i \notin ToSet(inner) \cup Starting
    /\ (Waiting \cup ToSet(inner)) \cap (ToSet(started) \cup Starting) = {}
    /\ ToSet(started) \subseteq listening \ Starting
    /\ Distinct(started) /\ Distinct(inner)
    /\ \A i \in Ids : phase[i] = "first" /\ LoginPing[i] /= NoId =>
            ~Touched(LoginPing[i]) /\ LoginPing[i] \notin ToAdd

-----------------------------------------------------------------------------
(* The calls                                                               *)

LEMMA CallFacts ==
    /\ WorkerLoop \in Call /\ WorkerLoop \notin LowerCall
    /\ LetGoCall \subseteq LowerCall /\ LowerCall \subseteq Call
    /\ \A c \in LowerCall : c.id \in Ids
    /\ \A i \in Ids : /\ FetchCall(i) \in Call \ LowerCall
                      /\ SubscribeCall(i) \in Call \ LowerCall
                      /\ AddCall(i) \in LowerCall \ LetGoCall
                      /\ CancelCall(i) \in LetGoCall /\ SetDoneCall(i) \in LetGoCall
    /\ \A q \in Seq(LetGoCall) : q \in Seq(LowerCall)
    /\ \A q \in Seq(LowerCall) : q \in Seq(Call)
<1>1. LetGoCall \subseteq LowerCall /\ LowerCall \subseteq Call
  BY DEF LetGoCall, LowerCall, Call
<1>2. WorkerLoop \in Call /\ WorkerLoop \notin LowerCall
  BY DEF WorkerLoop, LowerCall, Call
<1>3. \A c \in LowerCall : c.id \in Ids
  BY DEF LowerCall
<1>4. \A i \in Ids : /\ FetchCall(i) \in Call \ LowerCall
                     /\ SubscribeCall(i) \in Call \ LowerCall
                     /\ AddCall(i) \in LowerCall \ LetGoCall
                     /\ CancelCall(i) \in LetGoCall /\ SetDoneCall(i) \in LetGoCall
  BY DEF LetGoCall, LowerCall, Call, FetchCall, SubscribeCall, AddCall, CancelCall, SetDoneCall
<1>5. \A q \in Seq(LetGoCall) : q \in Seq(LowerCall)
  BY <1>1, SeqMonotonic
<1>6. \A q \in Seq(LowerCall) : q \in Seq(Call)
  BY <1>1, SeqMonotonic
<1>. QED
  BY <1>1, <1>2, <1>3, <1>4, <1>5, <1>6

(* The same call for each of several requests.                             *)
LEMMA DoIs ==
    ASSUME NEW S \in SUBSET Ids, NEW s \in Seq(S), NEW op
    PROVE  /\ \A T : op \in T => Do(op, s) \in Seq([op : T, id : S])
           /\ ToSet(Do(op, s)) = {[op |-> op, id |-> i] : i \in ToSet(s)}
           /\ Distinct(s) => Distinct(Do(op, s))
           /\ s = <<>> => Do(op, s) = <<>>
<1>. DEFINE d == Do(op, s)
<1>1. /\ Len(s) \in Nat /\ DOMAIN s = 1..Len(s) /\ \A n \in 1..Len(s) : s[n] \in S
  BY LenProperties, ElementOfSeq
<1>2. d = [n \in 1..Len(s) |-> [op |-> op, id |-> s[n]]]
  BY <1>1 DEF Do
<1>3. \A T : op \in T => d \in Seq([op : T, id : S])
  BY <1>1, <1>2
<1>3a. d \in Seq([op : {op}, id : S])
  BY <1>3
<1>4. DOMAIN d = 1..Len(s)
  BY <1>2
<1>. HIDE DEF d
<1>5. ToSet(d) = {[op |-> op, id |-> i] : i \in ToSet(s)}
  BY <1>1, <1>2, <1>4 DEF ToSet
<1>6. Distinct(s) => Distinct(d)
  <2>. SUFFICES ASSUME Distinct(s), NEW m \in 1..Len(s), NEW n \in 1..Len(s), d[m] = d[n]
                PROVE  m = n
    BY <1>4 DEF Distinct
  <2>1. s[m] = s[n]
    BY <1>2
  <2>. QED
    BY <1>1, <2>1 DEF Distinct
<1>7. s = <<>> => d = <<>>
  <2>. SUFFICES ASSUME s = <<>> PROVE d = <<>>
    OBVIOUS
  <2>1. ToSet(s) = {}
    BY SetOfSeq
  <2>2. ToSet(d) = {}
    BY <1>5, <2>1
  <2>. QED
    BY <1>3a, <2>2, SetOfSeq
<1>. QED
  BY <1>3, <1>5, <1>6, <1>7 DEF d

LEMMA DoOne ==
    ASSUME NEW op, NEW i
    PROVE  Do(op, <<i>>) = <<[op |-> op, id |-> i]>>
BY DEF Do

(* A request is added once.                                                *)
LEMMA AddsOnceTail ==
    ASSUME NEW q \in Seq(Call), q /= <<>>, AddsOnce(q)
    PROVE  /\ AddsOnce(Tail(q))
           /\ Head(q).op = "add" => Head(q) \notin ToSet(Tail(q))
<1>. DEFINE t == Tail(q)
<1>1. /\ t \in Seq(Call) /\ Len(t) = Len(q) - 1
      /\ \A i \in 1..Len(t) : t[i] = q[i + 1]
  BY HeadTailProperties
<1>2. Len(q) \in Nat \ {0} /\ DOMAIN q = 1..Len(q) /\ DOMAIN t = 1..Len(t) /\ Head(q) = q[1]
  BY <1>1, EmptySeq, LenProperties
<1>. HIDE DEF t
<1>3. \A i \in 1..Len(t) : i + 1 \in 1..Len(q) /\ i + 1 /= 1
  BY <1>1, <1>2
<1>4. AddsOnce(t)
  <2>. SUFFICES ASSUME NEW m \in 1..Len(t), NEW n \in 1..Len(t), t[m] = t[n], t[m].op = "add"
                PROVE  m = n
    BY <1>2 DEF AddsOnce
  <2>1. /\ m + 1 \in 1..Len(q) /\ n + 1 \in 1..Len(q) /\ m \in Int /\ n \in Int
        /\ q[m + 1] = q[n + 1] /\ q[m + 1].op = "add"
    BY <1>1, <1>2, <1>3
  <2>2. m + 1 = n + 1
    BY <1>2, <2>1 DEF AddsOnce
  <2>. QED
    BY ONLY <2>1, <2>2
<1>5. Head(q).op = "add" => Head(q) \notin ToSet(t)
  <2>. SUFFICES ASSUME Head(q).op = "add", NEW m \in 1..Len(t), t[m] = Head(q) PROVE FALSE
    BY <1>2 DEF ToSet
  <2>1. 1 \in 1..Len(q)
    BY <1>2
  <2>. QED
    BY <1>1, <1>2, <1>3, <2>1 DEF AddsOnce
<1>. QED
  BY <1>4, <1>5 DEF t

LEMMA AddsOnceConcat ==
    ASSUME NEW p \in Seq(Call), NEW q \in Seq(Call), AddsOnce(q),
           \A c \in ToSet(p) : c.op /= "add"
    PROVE  AddsOnce(p \o q)
<1>. DEFINE c == p \o q
<1>1. /\ c \in Seq(Call) /\ Len(c) = Len(p) + Len(q)
      /\ \A i \in 1..(Len(p) + Len(q)) : c[i] = IF i <= Len(p) THEN p[i] ELSE q[i - Len(p)]
  BY ConcatProperties
<1>2. /\ Len(p) \in Nat /\ DOMAIN p = 1..Len(p)
      /\ Len(q) \in Nat /\ DOMAIN q = 1..Len(q) /\ DOMAIN c = 1..(Len(p) + Len(q))
  BY <1>1, LenProperties
<1>. HIDE DEF c
<1>3. ASSUME NEW i \in 1..(Len(p) + Len(q)), c[i].op = "add"
      PROVE  i - Len(p) \in DOMAIN q /\ c[i] = q[i - Len(p)]
  <2>1. CASE i <= Len(p)
    <3>1. c[i] = p[i] /\ i \in DOMAIN p
      BY <1>1, <1>2, <2>1
    <3>. QED
      BY <1>3, <3>1 DEF ToSet
  <2>2. CASE ~(i <= Len(p))
    BY <1>1, <1>2, <2>2
  <2>. QED
    BY <2>1, <2>2
<1>. SUFFICES ASSUME NEW m \in 1..(Len(p) + Len(q)), NEW n \in 1..(Len(p) + Len(q)),
                     c[m] = c[n], c[m].op = "add"
              PROVE  m = n
  BY <1>2 DEF AddsOnce, c
<1>4. m - Len(p) \in DOMAIN q /\ c[m] = q[m - Len(p)]
  BY <1>3
<1>5. n - Len(p) \in DOMAIN q /\ c[n] = q[n - Len(p)]
  BY <1>3
<1>6. m - Len(p) = n - Len(p)
  BY <1>4, <1>5 DEF AddsOnce
<1>. QED
  BY <1>2, <1>6

LEMMA SetOfFinite ==
    ASSUME NEW S, NEW q \in Seq(S)
    PROVE  IsFiniteSet(ToSet(q))
<1>1. Len(q) \in Nat /\ DOMAIN q = 1..Len(q)
  BY LenProperties
<1>2. IsFiniteSet(1..Len(q))
  BY <1>1, FS_Interval
<1>3. ToSet(q) = {q[n] : n \in 1..Len(q)}
  BY <1>1 DEF ToSet
<1>. DEFINE R == {q[n] : n \in 1..Len(q)}
           f == [n \in 1..Len(q) |-> q[n]]
<1>4. f \in Surjection(1..Len(q), R)
  BY DEF Surjection
<1>. HIDE DEF f, R
<1>5. IsFiniteSet(R)
  BY <1>2, <1>4, FS_Surjection
<1>. QED
  BY <1>3, <1>5 DEF R

-----------------------------------------------------------------------------
(* What an update lets go                                                  *)

LEMMA FirstOf ==
    ASSUME NEW S, NEW q \in Seq(S), NEW l \in Int, l <= Len(q)
    PROVE  /\ SubSeq(q, 1, l) \in Seq(S)
           /\ ToSet(SubSeq(q, 1, l)) \subseteq ToSet(q)
           /\ Distinct(q) => Distinct(SubSeq(q, 1, l))
           /\ Len(SubSeq(q, 1, l)) = IF 1 <= l THEN l ELSE 0
           /\ SubSeq(q, 1, l) = <<>> <=> l <= 0
<1>. DEFINE t == SubSeq(q, 1, l)
<1>0. Len(q) \in Nat
  BY LenProperties
<1>1. DOMAIN q = 1..Len(q) /\ \A k \in 1..Len(q) : q[k] \in S
  BY LenProperties, ElementOfSeq
<1>3. \A k \in 1..l : q[k] \in S /\ k \in 1..Len(q)
  <2>1. \A k \in 1..l : k \in 1..Len(q)
    BY <1>0
  <2>. QED
    BY <1>1, <2>1
<1>4. /\ t \in Seq(S) /\ Len(t) = IF 1 <= l THEN l ELSE 0
      /\ \A k \in 1..l : t[k] = q[k]
  <2>1. /\ t \in Seq(S) /\ Len(t) = IF 1 <= l THEN l - 1 + 1 ELSE 0
        /\ \A k \in 1..(l - 1 + 1) : t[k] = q[1 + k - 1]
    <3>1. 1 \in Int
      OBVIOUS
    <3>. QED
      BY <1>3, <3>1, SubSeqProperties
  <2>2. l - 1 + 1 = l /\ \A k \in 1..l : 1 + k - 1 = k
    OBVIOUS
  <2>. HIDE DEF t
  <2>. QED
    BY <2>1, <2>2
<1>. HIDE DEF t
<1>5. Len(t) \in Nat /\ DOMAIN t = 1..Len(t)
  BY <1>4, LenProperties
<1>7. \A k \in 1..Len(t) : t[k] = q[k] /\ k \in DOMAIN q
  <2>1. \A k \in 1..Len(t) : k \in 1..l
    BY <1>4, <1>5
  <2>. QED
    BY <1>1, <1>3, <1>4, <2>1
<1>8. ToSet(t) \subseteq ToSet(q)
  BY <1>5, <1>7 DEF ToSet
<1>9. Distinct(q) => Distinct(t)
  BY <1>5, <1>7 DEF Distinct
<1>10. t = <<>> <=> l <= 0
  <2>1. t = <<>> <=> Len(t) = 0
    BY <1>4, EmptySeq
  <2>2. Len(t) = 0 <=> l <= 0
    BY <1>4
  <2>. QED
    BY <2>1, <2>2
<1>. QED
  BY <1>4, <1>8, <1>9, <1>10 DEF t

LEMMA SequenceOfOne ==
    ASSUME NEW S, NEW q \in Seq(S), Distinct(q), NEW a, ToSet(q) = {a}
    PROVE  q = <<a>>
<1>1. Len(q) <= 1 /\ Len(q) \in Nat /\ DOMAIN q = 1..Len(q)
  BY AtMostOne, LenProperties
<1>2. q /= <<>>
  BY SetOfSeq
<1>3. Len(q) = 1
  BY <1>1, <1>2, EmptySeq
<1>4. q[1] = a
  BY <1>1, <1>3 DEF ToSet
<1>5. a \in S
  BY SetOfSeq
<1>6. <<a>> \in Seq(S) /\ Len(<<a>>) = 1 /\ <<a>>[1] = a
  BY <1>5
<1>. QED
  BY <1>3, <1>4, <1>6, SeqEqual

(* All pending requests that are no data queries, and of the data queries  *)
(* no more than fit.                                                       *)
LEMMA StartedByUpdate ==
    ASSUME NEW ks \in Seq(Ids), NEW st \in [Ids -> Statuses],
           Distinct(ks), ToSet(ks) = {i \in Ids : st[i] /= "Done"}, NEW n \in Nat
    PROVE  LET s == ToStart(ks, st, n)
               P == WithStatus("Pending", st)
           IN  /\ s \in Seq(Ids) /\ Distinct(s) /\ ToSet(s) \subseteq P
               /\ P \ DataQueries \subseteq ToSet(s)
               /\ s = <<>> => P = {} \/ (P \subseteq DataQueries /\ n >= MaxParallel)
               /\ P \subseteq DataQueries => Len(s) = 0 \/ Len(s) <= MaxParallel - n
               /\ \A a \in P \ DataQueries :
                    P \ DataQueries = {a} /\ (P = {a} \/ n + 1 >= MaxParallel) => s = <<a>>
<1>. DEFINE P == WithStatus("Pending", st)
           api == Selected(ks, P \ DataQueries)
           data == Selected(ks, P \cap DataQueries)
           allowed == MaxParallel - n - Len(api)
           l == IF allowed > Len(data) THEN Len(data) ELSE allowed
           t == SubSeq(data, 1, l)
           s == api \o t
<1>0. P \subseteq ToSet(ks)
  BY DEF WithStatus
<1>1. s = ToStart(ks, st, n)
  BY DEF ToStart, Allowed
<1>. HIDE DEF P
<1>2. api \in Seq(Ids) /\ ToSet(api) = P \ DataQueries /\ Distinct(api)
  BY <1>0, SelectedProperties
<1>3. data \in Seq(Ids) /\ ToSet(data) = P \cap DataQueries /\ Distinct(data)
  BY <1>0, SelectedProperties
<1>. HIDE DEF api, data
<1>4. Len(api) \in Nat /\ allowed \in Int
  BY <1>2, LenProperties, MaxParallelAssumption
<1>. HIDE DEF allowed
<1>5. /\ t \in Seq(Ids) /\ ToSet(t) \subseteq ToSet(data)
      /\ Distinct(t)
      /\ Len(t) <= allowed \/ Len(t) = 0
      /\ t = <<>> => data = <<>> \/ allowed <= 0
      /\ allowed <= 0 => t = <<>>
  <2>1. Len(data) \in Nat /\ (Len(data) = 0 => data = <<>>)
    BY <1>3, LenProperties, EmptySeq
  <2>2. l \in Int /\ l <= Len(data) /\ l <= allowed /\ (l = Len(data) \/ l = allowed)
    BY <1>4, <2>1
  <2>. HIDE DEF l
  <2>3. /\ t \in Seq(Ids) /\ ToSet(t) \subseteq ToSet(data) /\ (Distinct(data) => Distinct(t))
        /\ Len(t) = IF 1 <= l THEN l ELSE 0
        /\ t = <<>> <=> l <= 0
    BY <1>3, <2>2, FirstOf
  <2>. HIDE DEF t
  <2>4. Len(t) <= allowed \/ Len(t) = 0
    BY <1>4, <2>2, <2>3
  <2>5. t = <<>> => data = <<>> \/ allowed <= 0
    BY <1>4, <2>1, <2>2, <2>3
  <2>6. allowed <= 0 => t = <<>>
    BY <1>4, <2>2, <2>3
  <2>. QED
    BY <1>3, <2>3, <2>4, <2>5, <2>6
<1>. HIDE DEF t
<1>6. s \in Seq(Ids) /\ ToSet(s) = ToSet(api) \cup ToSet(t) /\ (s = <<>> <=> api = <<>> /\ t = <<>>)
  BY <1>2, <1>5, Concatenated
<1>7. ToSet(s) \subseteq P /\ P \ DataQueries \subseteq ToSet(s)
  BY <1>2, <1>3, <1>5, <1>6
<1>8. Distinct(s)
  <2>1. /\ Len(s) = Len(api) + Len(t)
        /\ \A i \in 1..(Len(api) + Len(t)) : s[i] = IF i <= Len(api) THEN api[i] ELSE t[i - Len(api)]
    BY <1>2, <1>5, ConcatProperties
  <2>2. /\ DOMAIN s = 1..Len(s) /\ DOMAIN api = 1..Len(api) /\ DOMAIN t = 1..Len(t)
        /\ Len(api) \in Nat /\ Len(t) \in Nat
    BY <1>2, <1>5, <1>6, LenProperties
  <2>. HIDE DEF s
  <2>. SUFFICES ASSUME NEW m \in 1..(Len(api) + Len(t)), NEW k \in 1..(Len(api) + Len(t)), s[m] = s[k]
                PROVE  m = k
    BY <2>1, <2>2 DEF Distinct
  <2>3. ASSUME NEW i \in 1..(Len(api) + Len(t))
        PROVE  \/ i \in DOMAIN api /\ s[i] = api[i] /\ s[i] \in ToSet(api)
               \/ i - Len(api) \in DOMAIN t /\ s[i] = t[i - Len(api)] /\ s[i] \in ToSet(t)
    <3>1. CASE i <= Len(api)
      BY <2>1, <2>2, <3>1 DEF ToSet
    <3>2. CASE ~(i <= Len(api))
      <4>1. i - Len(api) \in DOMAIN t
        BY <2>2, <3>2
      <4>. QED
        BY <2>1, <2>2, <3>2, <4>1 DEF ToSet
    <3>. QED
      BY <3>1, <3>2
  <2>4. ToSet(api) \cap ToSet(t) = {}
    BY <1>2, <1>3, <1>5
  <2>5. CASE m \in DOMAIN api /\ s[m] = api[m] /\ s[m] \in ToSet(api)
    <3>1. k \in DOMAIN api /\ s[k] = api[k]
      BY <2>3, <2>4, <2>5
    <3>. QED
      BY <1>2, <2>5, <3>1 DEF Distinct
  <2>6. CASE m - Len(api) \in DOMAIN t /\ s[m] = t[m - Len(api)] /\ s[m] \in ToSet(t)
    <3>1. k - Len(api) \in DOMAIN t /\ s[k] = t[k - Len(api)]
      BY <2>3, <2>4, <2>6
    <3>2. m - Len(api) = k - Len(api)
      BY <1>5, <2>6, <3>1 DEF Distinct
    <3>. QED
      BY <2>2, <3>2
  <2>. QED
    BY <2>3, <2>5, <2>6
<1>9. s = <<>> => P = {} \/ (P \subseteq DataQueries /\ n >= MaxParallel)
  <2>. SUFFICES ASSUME s = <<>>, P /= {} PROVE P \subseteq DataQueries /\ n >= MaxParallel
    OBVIOUS
  <2>1. api = <<>> /\ t = <<>>
    BY <1>6
  <2>2. ToSet(api) = {} /\ Len(api) = 0
    BY <2>1, <1>2, SetOfSeq, EmptySeq
  <2>3. P \subseteq DataQueries
    BY <1>2, <2>2
  <2>4. data /= <<>>
    BY <1>3, <2>3, SetOfSeq
  <2>5. allowed <= 0
    BY <1>5, <2>1, <2>4
  <2>. QED
    BY <2>2, <2>3, <2>5, MaxParallelAssumption DEF allowed
<1>10. P \subseteq DataQueries => Len(s) = 0 \/ Len(s) <= MaxParallel - n
  <2>. SUFFICES ASSUME P \subseteq DataQueries PROVE Len(s) = 0 \/ Len(s) <= MaxParallel - n
    OBVIOUS
  <2>1. api = <<>>
    BY <1>2, SetOfSeq
  <2>2. Len(api) = 0
    BY <2>1
  <2>3. s = t
    BY <1>5, <2>1, Concatenated
  <2>. HIDE DEF s
  <2>. QED
    BY <1>5, <2>2, <2>3, MaxParallelAssumption DEF allowed
<1>11. ASSUME NEW a \in P \ DataQueries,
              P \ DataQueries = {a} /\ (P = {a} \/ n + 1 >= MaxParallel)
       PROVE  s = <<a>>
  <2>1. api = <<a>>
    BY <1>2, <1>11, SequenceOfOne
  <2>2. Len(api) = 1
    BY <2>1
  <2>3. t = <<>>
    <3>1. CASE P = {a}
      <4>1. ToSet(t) = {}
        BY <1>3, <1>5, <3>1
      <4>. QED
        BY <1>5, <4>1, SetOfSeq
    <3>2. CASE n + 1 >= MaxParallel
      <4>1. allowed <= 0
        BY <2>2, <3>2, MaxParallelAssumption DEF allowed
      <4>. QED
        BY <1>5, <4>1
    <3>. QED
      BY <1>11, <3>1, <3>2
  <2>. QED
    BY <1>2, <2>1, <2>3, ConcatEmptySeq
<1>. QED
  BY <1>1, <1>6, <1>7, <1>8, <1>9, <1>10, <1>11 DEF P

-----------------------------------------------------------------------------
(* Where an event stands                                                   *)

Inv == TypeOK /\ Shape /\ KeysOK /\ UpToDate /\ Life

(* The calls of a request that is being started, and those it puts first.  *)
LEMMA ShapeFacts ==
    ASSUME NEW d \in Seq(LowerCall)
    PROVE  /\ d \in Seq(Call)
           /\ <<WorkerLoop>> \o d \in Seq(Call)
           /\ <<WorkerLoop>> \o d /= <<>>
           /\ Head(<<WorkerLoop>> \o d) = WorkerLoop
           /\ Tail(<<WorkerLoop>> \o d) = d
           /\ ToSet(<<WorkerLoop>> \o d) = {WorkerLoop} \cup ToSet(d)
           /\ \A j \in Ids : \A c \in {FetchCall(j), SubscribeCall(j)} :
                LET e == <<c>> \o (<<WorkerLoop>> \o d)
                IN  /\ e \in Seq(Call) /\ e /= <<>>
                    /\ Head(e) = c /\ Tail(e) = <<WorkerLoop>> \o d
                    /\ ToSet(e) = {c, WorkerLoop} \cup ToSet(d)
<1>1. d \in Seq(Call) /\ WorkerLoop \in Call
  BY CallFacts
<1>. DEFINE u == <<WorkerLoop>> \o d
<1>2. u \in Seq(Call) /\ u /= <<>> /\ Head(u) = WorkerLoop /\ Tail(u) = d /\ ToSet(u) = {WorkerLoop} \cup ToSet(d)
  BY <1>1, OneInFront
<1>. HIDE DEF u
<1>3. ASSUME NEW j \in Ids, NEW c \in {FetchCall(j), SubscribeCall(j)}
      PROVE  LET e == <<c>> \o u
             IN  /\ e \in Seq(Call) /\ e /= <<>>
                 /\ Head(e) = c /\ Tail(e) = u
                 /\ ToSet(e) = {c, WorkerLoop} \cup ToSet(d)
  <2>1. c \in Call
    BY CallFacts
  <2>. HIDE DEF FetchCall, SubscribeCall
  <2>. QED
    BY <1>2, <2>1, OneInFront
<1>. QED
  BY <1>1, <1>2, <1>3 DEF u

LEMMA CallsConcat ==
    \A a, b, c \in Seq(Call) : a \o (b \o c) = (a \o b) \o c
<1>. SUFFICES ASSUME NEW a \in Seq(Call), NEW b \in Seq(Call), NEW c \in Seq(Call)
              PROVE  a \o (b \o c) = (a \o b) \o c
  OBVIOUS
<1>. QED
  BY ONLY ConcatAssociative

(* A loop is below what a start has called.                                *)
LEMMA StartShapes ==
    ASSUME NEW d, d \in Seq(LowerCall), NEW j, j \in Ids
    PROVE  /\ \E u : /\ u = <<SubscribeCall(j)>> \o (<<WorkerLoop>> \o d)
                    /\ u \in Seq(Call) /\ WorkerLoop \in ToSet(u)
           /\ \E u : /\ u = <<FetchCall(j)>> \o (<<WorkerLoop>> \o d)
                    /\ u \in Seq(Call) /\ WorkerLoop \in ToSet(u)
<1>1. \A c \in {FetchCall(j), SubscribeCall(j)} :
         LET u == <<c>> \o (<<WorkerLoop>> \o d)
         IN  u \in Seq(Call) /\ WorkerLoop \in ToSet(u)
  BY ShapeFacts
<1>. HIDE DEF FetchCall, SubscribeCall
<1>2. /\ <<SubscribeCall(j)>> \o (<<WorkerLoop>> \o d) \in Seq(Call)
      /\ WorkerLoop \in ToSet(<<SubscribeCall(j)>> \o (<<WorkerLoop>> \o d))
  BY ONLY <1>1, Zenon
<1>3. /\ <<FetchCall(j)>> \o (<<WorkerLoop>> \o d) \in Seq(Call)
      /\ WorkerLoop \in ToSet(<<FetchCall(j)>> \o (<<WorkerLoop>> \o d))
  BY ONLY <1>1, Zenon
<1>. QED
  BY ONLY <1>2, <1>3, Zenon

(* What is on top of the calls, and what is below it, in each shape.       *)
LEMMA PlaceOf ==
    ASSUME calls /= <<>>
    PROVE  /\ Idle => /\ calls \in Seq(Call) /\ Rest \in Seq(Call)
                      /\ Head(calls) \in LowerCall /\ Rest \in Seq(LowerCall)
           /\ \A d \in Seq(LowerCall) : Looping(d) =>
                /\ calls \in Seq(Call) /\ Rest \in Seq(Call)
                /\ Head(calls) = WorkerLoop /\ Rest = d
           /\ \A d \in Seq(LowerCall), j \in Ids : Fetching(j, d) =>
                /\ calls \in Seq(Call) /\ Rest \in Seq(Call)
                /\ Head(calls) = FetchCall(j) /\ Rest = <<WorkerLoop>> \o d
           /\ \A d \in Seq(LowerCall), j \in Ids, w \in Seq(LetGoCall) : LettingGo(w, j, d) =>
                /\ calls \in Seq(Call) /\ Rest \in Seq(Call)
                /\ w = <<>> => Head(calls) = SubscribeCall(j) /\ Rest = <<WorkerLoop>> \o d
                /\ w /= <<>> =>
                    /\ Head(calls) = Head(w) /\ Head(calls) \in LetGoCall /\ Tail(w) \in Seq(LetGoCall)
                    /\ Rest = Tail(w) \o (<<SubscribeCall(j)>> \o (<<WorkerLoop>> \o d))
<1>1. ASSUME Idle
      PROVE  /\ calls \in Seq(Call) /\ Rest \in Seq(Call)
             /\ Head(calls) \in LowerCall /\ Rest \in Seq(LowerCall)
  <2>1. calls \in Seq(LowerCall)
    BY <1>1 DEF Idle
  <2>2. Head(calls) \in LowerCall /\ Tail(calls) \in Seq(LowerCall)
    BY <2>1, TailOf
  <2>. QED
    BY <1>1, <2>1, <2>2, CallFacts DEF Rest
<1>2. ASSUME NEW d \in Seq(LowerCall), Looping(d)
      PROVE  /\ calls \in Seq(Call) /\ Rest \in Seq(Call)
             /\ Head(calls) = WorkerLoop /\ Rest = d
  <2>1. calls = <<WorkerLoop>> \o d
    BY <1>2 DEF Looping
  <2>2. Rest = d
    BY <2>1, ShapeFacts DEF Rest
  <2>. QED
    BY <1>2, <2>1, <2>2, ShapeFacts
<1>3. ASSUME NEW d \in Seq(LowerCall), NEW j \in Ids, Fetching(j, d)
      PROVE  /\ calls \in Seq(Call) /\ Rest \in Seq(Call)
             /\ Head(calls) = FetchCall(j) /\ Rest = <<WorkerLoop>> \o d
  <2>1. calls = <<FetchCall(j)>> \o (<<WorkerLoop>> \o d)
    BY <1>3 DEF Fetching
  <2>. QED
    BY <2>1, ShapeFacts DEF Rest
<1>4. ASSUME NEW d \in Seq(LowerCall), NEW j \in Ids, NEW w \in Seq(LetGoCall), LettingGo(w, j, d)
      PROVE  /\ calls \in Seq(Call) /\ Rest \in Seq(Call)
             /\ w = <<>> => Head(calls) = SubscribeCall(j) /\ Rest = <<WorkerLoop>> \o d
             /\ w /= <<>> =>
                    /\ Head(calls) = Head(w) /\ Head(calls) \in LetGoCall /\ Tail(w) \in Seq(LetGoCall)
                    /\ Rest = Tail(w) \o (<<SubscribeCall(j)>> \o (<<WorkerLoop>> \o d))
  <2>. DEFINE u == <<SubscribeCall(j)>> \o (<<WorkerLoop>> \o d)
  <2>1. calls = w \o u
    BY <1>4 DEF LettingGo
  <2>2. u \in Seq(Call) /\ Head(u) = SubscribeCall(j) /\ Tail(u) = <<WorkerLoop>> \o d /\ Tail(u) \in Seq(Call)
    BY ShapeFacts
  <2>. HIDE DEF u
  <2>3. w \in Seq(Call)
    BY CallFacts
  <2>4. calls \in Seq(Call) /\ (w = <<>> => calls = u)
        /\ (w /= <<>> => Head(calls) = Head(w) /\ Rest = Tail(w) \o u)
    <3>0. w \in Seq(Call) /\ u \in Seq(Call)
      BY <2>2, <2>3
    <3>1. /\ w \o u \in Seq(Call) /\ <<>> \o u = u
          /\ w /= <<>> => Head(w \o u) = Head(w) /\ Tail(w \o u) = Tail(w) \o u
      BY ONLY <3>0, Concatenated
    <3>. QED
      BY <2>1, <3>1 DEF Rest
  <2>5. w /= <<>> => Head(w) \in LetGoCall /\ Tail(w) \in Seq(LetGoCall)
    BY TailOf
  <2>6. Rest \in Seq(Call)
    BY <2>4, TailOf DEF Rest
  <2>. QED
    BY <2>2, <2>4, <2>5, <2>6 DEF u, Rest
<1>. QED
  BY <1>1, <1>2, <1>3, <1>4

LEMMA Places ==
    ASSUME Shape, calls /= <<>>
    PROVE  /\ calls \in Seq(Call) /\ Rest \in Seq(Call)
           /\ \/ /\ Idle /\ Head(calls) \in LowerCall /\ Rest \in Seq(LowerCall)
              \/ Head(calls) = WorkerLoop /\ Looping(Rest) /\ Rest \in Seq(LowerCall)
              \/ \E j \in Ids, d \in Seq(LowerCall) :
                    /\ Head(calls) = FetchCall(j) /\ Fetching(j, d)
                    /\ Rest = <<WorkerLoop>> \o d
              \/ \E j \in Ids, d \in Seq(LowerCall) :
                    /\ Head(calls) = SubscribeCall(j) /\ LettingGo(<<>>, j, d)
                    /\ Rest = <<WorkerLoop>> \o d
              \/ \E j \in Ids, d \in Seq(LowerCall), w \in Seq(LetGoCall) :
                    /\ w /= <<>> /\ LettingGo(w, j, d) /\ Head(calls) = Head(w)
                    /\ Head(calls) \in LetGoCall /\ Tail(w) \in Seq(LetGoCall)
                    /\ Rest = Tail(w) \o (<<SubscribeCall(j)>> \o (<<WorkerLoop>> \o d))
<1>1. CASE Idle
  BY PlaceOf, <1>1
<1>2. CASE \E d \in Seq(LowerCall) : Looping(d)
  BY PlaceOf, <1>2
<1>3. CASE \E d \in Seq(LowerCall), j \in Ids : Fetching(j, d)
  <2>1. PICK d \in Seq(LowerCall), j \in Ids : Fetching(j, d)
    BY <1>3
  <2>. QED
    BY PlaceOf, <2>1
<1>4. CASE \E d \in Seq(LowerCall), j \in Ids, w \in Seq(LetGoCall) : LettingGo(w, j, d)
  <2>1. PICK d \in Seq(LowerCall), j \in Ids, w \in Seq(LetGoCall) : LettingGo(w, j, d)
    BY <1>4
  <2>2. CASE w = <<>>
    <3>1. /\ calls \in Seq(Call) /\ Rest \in Seq(Call)
          /\ Head(calls) = SubscribeCall(j) /\ Rest = <<WorkerLoop>> \o d
      BY PlaceOf, <2>1, <2>2
    <3>2. LettingGo(<<>>, j, d)
      BY ONLY <2>1, <2>2
    <3>. QED
      BY ONLY <3>1, <3>2, Zenon
  <2>3. CASE w /= <<>>
    <3>1. /\ calls \in Seq(Call) /\ Rest \in Seq(Call)
          /\ Head(calls) = Head(w) /\ Head(calls) \in LetGoCall /\ Tail(w) \in Seq(LetGoCall)
          /\ Rest = Tail(w) \o (<<SubscribeCall(j)>> \o (<<WorkerLoop>> \o d))
      BY PlaceOf, <2>1, <2>3
    <3>. QED
      BY <2>1, <2>3, <3>1, ZenonT(60)
  <2>. QED
    BY <2>2, <2>3
<1>. QED
  BY <1>1, <1>2, <1>3, <1>4 DEF Shape

(* What the call on top says of the rest.                                  *)
LEMMA OnTop ==
    ASSUME Shape, calls /= <<>>
    PROVE  /\ calls \in Seq(Call) /\ Rest \in Seq(Call)
           /\ Top("add") => id \in Ids /\ Head(calls) = AddCall(id) /\ Idle /\ Rest \in Seq(LowerCall)
           /\ Top("setInProgress") => Head(calls) = WorkerLoop /\ Looping(Rest) /\ Rest \in Seq(LowerCall)
           /\ Top("fetch") => /\ id \in Ids /\ Head(calls) = FetchCall(id)
                              /\ \E d \in Seq(LowerCall) : Fetching(id, d) /\ Rest = <<WorkerLoop>> \o d
           /\ Top("subscribe") => /\ id \in Ids /\ Head(calls) = SubscribeCall(id)
                                  /\ \E d \in Seq(LowerCall) : /\ LettingGo(<<>>, id, d)
                                                               /\ Rest = <<WorkerLoop>> \o d
           /\ \A op \in {"cancel", "setDone"} : Top(op) =>
                /\ id \in Ids /\ Head(calls) = [op |-> op, id |-> id]
                /\ \/ Idle /\ Rest \in Seq(LowerCall)
                   \/ \E j \in Ids, d \in Seq(LowerCall), w \in Seq(LetGoCall) :
                        /\ w /= <<>> /\ LettingGo(w, j, d) /\ Head(w) = Head(calls)
                        /\ Tail(w) \in Seq(LetGoCall)
                        /\ Rest = Tail(w) \o (<<SubscribeCall(j)>> \o (<<WorkerLoop>> \o d))
<1>. DEFINE h == Head(calls)
<1>1. /\ WorkerLoop.op = "setInProgress"
      /\ \A j \in Ids : /\ FetchCall(j).op = "fetch" /\ FetchCall(j).id = j
                        /\ SubscribeCall(j).op = "subscribe" /\ SubscribeCall(j).id = j
  BY DEF WorkerLoop, FetchCall, SubscribeCall
<1>2. \A c \in LowerCall : /\ c.op \in {"add", "cancel", "setDone"} /\ c.id \in Ids
                           /\ c = [op |-> c.op, id |-> c.id]
  BY DEF LowerCall
<1>3. LetGoCall \subseteq LowerCall /\ \A c \in LetGoCall : c.op \in {"cancel", "setDone"}
  BY CallFacts DEF LetGoCall
<1>4. id = h.id /\ \A op : Top(op) <=> h.op = op
  BY DEF Top, id
<1>5. \A i : AddCall(i) = [op |-> "add", id |-> i]
  BY DEF AddCall
<1>0. calls \in Seq(Call) /\ Rest \in Seq(Call)
  BY Places
<1>. HIDE DEF h
<1>6. CASE Idle /\ h \in LowerCall /\ Rest \in Seq(LowerCall)
  <2>1. h.op \in {"add", "cancel", "setDone"} /\ h.id \in Ids /\ h = [op |-> h.op, id |-> h.id]
    BY <1>2, <1>6
  <2>2. Top("add") => id \in Ids /\ h = AddCall(id)
    BY <1>4, <1>5, <2>1
  <2>3. \A op \in {"cancel", "setDone"} : Top(op) => id \in Ids /\ h = [op |-> op, id |-> id]
    BY <1>4, <2>1
  <2>4. ~Top("setInProgress") /\ ~Top("fetch") /\ ~Top("subscribe")
    BY <1>4, <2>1
  <2>. QED
    BY <1>0, <1>6, <2>2, <2>3, <2>4 DEF h
<1>7. CASE h = WorkerLoop /\ Looping(Rest) /\ Rest \in Seq(LowerCall)
  <2>1. \A op \in {"add", "fetch", "subscribe", "cancel", "setDone"} : ~Top(op)
    BY <1>1, <1>4, <1>7
  <2>. QED
    BY <1>0, <1>7, <2>1 DEF h
<1>8. CASE \E j \in Ids, d \in Seq(LowerCall) :
                h = FetchCall(j) /\ Fetching(j, d) /\ Rest = <<WorkerLoop>> \o d
  <2>1. PICK j \in Ids, d \in Seq(LowerCall) :
                h = FetchCall(j) /\ Fetching(j, d) /\ Rest = <<WorkerLoop>> \o d
    BY <1>8
  <2>2. \A op \in {"add", "setInProgress", "subscribe", "cancel", "setDone"} : ~Top(op)
    BY <1>1, <1>4, <2>1
  <2>3. id = j
    BY <1>1, <1>4, <2>1
  <2>. QED
    BY <1>0, <2>1, <2>2, <2>3 DEF h
<1>9. CASE \E j \in Ids, d \in Seq(LowerCall) :
                h = SubscribeCall(j) /\ LettingGo(<<>>, j, d) /\ Rest = <<WorkerLoop>> \o d
  <2>1. PICK j \in Ids, d \in Seq(LowerCall) :
                h = SubscribeCall(j) /\ LettingGo(<<>>, j, d) /\ Rest = <<WorkerLoop>> \o d
    BY <1>9
  <2>2. \A op \in {"add", "setInProgress", "fetch", "cancel", "setDone"} : ~Top(op)
    BY <1>1, <1>4, <2>1
  <2>3. id = j
    BY <1>1, <1>4, <2>1
  <2>. QED
    BY <1>0, <2>1, <2>2, <2>3 DEF h
<1>10. CASE \E j \in Ids, d \in Seq(LowerCall), w \in Seq(LetGoCall) :
                /\ w /= <<>> /\ LettingGo(w, j, d) /\ h = Head(w)
                /\ h \in LetGoCall /\ Tail(w) \in Seq(LetGoCall)
                /\ Rest = Tail(w) \o (<<SubscribeCall(j)>> \o (<<WorkerLoop>> \o d))
  <2>1. h \in LetGoCall
    BY <1>10
  <2>2. h.op \in {"cancel", "setDone"} /\ h.id \in Ids /\ h = [op |-> h.op, id |-> h.id]
    BY <1>2, <1>3, <2>1
  <2>3. \A op \in {"cancel", "setDone"} : Top(op) => id \in Ids /\ h = [op |-> op, id |-> id]
    BY <1>4, <2>2
  <2>4. \A op \in {"add", "setInProgress", "fetch", "subscribe"} : ~Top(op)
    BY <1>4, <2>2
  <2>5. \E j \in Ids, d \in Seq(LowerCall), w \in Seq(LetGoCall) :
                /\ w /= <<>> /\ LettingGo(w, j, d) /\ Head(w) = h
                /\ Tail(w) \in Seq(LetGoCall)
                /\ Rest = Tail(w) \o (<<SubscribeCall(j)>> \o (<<WorkerLoop>> \o d))
    BY <1>10, ZenonT(60)
  <2>. QED
    BY <1>0, <2>3, <2>4, <2>5, ZenonT(60) DEF h
<1>. QED
  BY <1>6, <1>7, <1>8, <1>9, <1>10, Places, ZenonT(60) DEF h

-----------------------------------------------------------------------------
(* The queue                                                               *)

LEMMA StatusSets ==
    ASSUME NEW ks \in Seq(Ids), NEW st \in [Ids -> Statuses],
           ToSet(ks) = {i \in Ids : st[i] /= "Done"}
    PROVE  /\ IsFiniteSet(WithStatus("InProgress", st)) /\ IsFiniteSet(WithStatus("Pending", st))
           /\ Cardinality(WithStatus("InProgress", st)) \in Nat
<1>1. IsFiniteSet(ToSet(ks))
  BY SetOfFinite
<1>2. WithStatus("InProgress", st) \subseteq ToSet(ks) /\ WithStatus("Pending", st) \subseteq ToSet(ks)
  BY DEF WithStatus
<1>. QED
  BY <1>1, <1>2, FS_Subset, FS_CardinalityType

LEMMA Put ==
    ASSUME TypeOK, KeysOK, NEW i \in Ids, NEW s \in {"Pending", "InProgress"},
           keys' = (IF status[i] = "Done" THEN Append(keys, i) ELSE keys),
           status' = [status EXCEPT ![i] = s]
    PROVE  /\ keys' \in Seq(Ids) /\ status' \in [Ids -> Statuses]
           /\ KeysOK'
           /\ i \in WithStatus(s, status')
           /\ \A j \in Ids \ {i} : status'[j] = status[j]
<1>0. keys \in Seq(Ids) /\ status \in [Ids -> Statuses] /\ Distinct(keys) /\ ToSet(keys) = {j \in Ids : status[j] /= "Done"}
  BY DEF TypeOK, KeysOK
<1>1. status' \in [Ids -> Statuses] /\ status'[i] = s /\ \A j \in Ids \ {i} : status'[j] = status[j]
  BY <1>0 DEF Statuses
<1>2. {j \in Ids : status'[j] /= "Done"} = {j \in Ids : status[j] /= "Done"} \cup {i}
  BY <1>1
<1>3. CASE status[i] = "Done"
  <2>1. i \notin ToSet(keys)
    BY <1>0, <1>3
  <2>2. keys' = Append(keys, i)
    BY <1>3
  <2>. QED
    BY <1>0, <1>1, <1>2, <2>1, <2>2, SetOfAppend DEF WithStatus, KeysOK
<1>4. CASE status[i] /= "Done"
  <2>1. keys' = keys /\ i \in ToSet(keys)
    BY <1>0, <1>4
  <2>. QED
    BY <1>0, <1>1, <1>2, <2>1 DEF WithStatus, KeysOK
<1>. QED
  BY <1>3, <1>4

LEMMA Removed ==
    ASSUME TypeOK, KeysOK, NEW i \in Ids,
           keys' = RemoveFirst(keys, i),
           status' = [status EXCEPT ![i] = "Done"]
    PROVE  /\ keys' \in Seq(Ids) /\ status' \in [Ids -> Statuses]
           /\ KeysOK'
           /\ status'[i] = "Done" /\ \A j \in Ids \ {i} : status'[j] = status[j]
<1>0. keys \in Seq(Ids) /\ status \in [Ids -> Statuses] /\ Distinct(keys) /\ ToSet(keys) = {j \in Ids : status[j] /= "Done"}
  BY DEF TypeOK, KeysOK
<1>1. status' \in [Ids -> Statuses] /\ status'[i] = "Done" /\ \A j \in Ids \ {i} : status'[j] = status[j]
  BY <1>0 DEF Statuses
<1>2. {j \in Ids : status'[j] /= "Done"} = {j \in Ids : status[j] /= "Done"} \ {i}
  BY <1>1
<1>3. keys' \in Seq(Ids) /\ Distinct(keys') /\ ToSet(keys') = ToSet(keys) \ {i}
  BY <1>0, RemovedFirst
<1>. QED
  BY <1>0, <1>1, <1>2, <1>3 DEF KeysOK

(* What is begun with and let go of are calls of requests.                 *)
LEMMA SiblingsAre ==
    ASSUME NEW i \in Ids
    PROVE  Siblings(i) \in Seq(Ids) /\ LetGo(i) \in Seq(LetGoCall) /\ i \in ToSet(Siblings(i))
<1>1. Siblings(i) \in Seq(Ids) /\ i \in ToSet(Siblings(i))
  <2>1. CASE Alone(i)
    <3>1. Siblings(i) = <<i>> /\ <<i>> \in Seq(Ids) /\ ToSet(<<i>>) = {i}
      BY <2>1 DEF Siblings, ToSet
    <3>. QED
      BY <3>1
  <2>2. CASE ~Alone(i)
    <3>1. \E c \in Consumers : Contains(CallsOf[c], i)
      BY <2>2 DEF Alone
    <3>2. ConsumerOf(i) \in Consumers /\ Contains(CallsOf[ConsumerOf(i)], i)
      BY <3>1 DEF ConsumerOf
    <3>3. CallsOf[ConsumerOf(i)] \in Seq(Ids)
      BY <3>2, ConsumerAssumption
    <3>. QED
      BY <2>2, <3>2, <3>3, SetOfSeq DEF Siblings
  <2>. QED
    BY <2>1, <2>2
<1>2. LetGo(i) \in Seq(LetGoCall)
  BY <1>1, DoIs DEF LetGo, LetGoCall
<1>. QED
  BY <1>1, <1>2

QueueOK == TypeOK /\ Shape /\ KeysOK /\ UpToDate

LEMMA NoLoopBelow ==
    ASSUME NEW d \in Seq(LowerCall)
    PROVE  WorkerLoop \notin ToSet(d) /\ ~Contains(d, WorkerLoop)
BY SetOfSeq, CallFacts

(* A request that joins the queue finds the worker idle, and publishes.    *)
LEMMA AddEffects ==
    ASSUME Inv, Add
    PROVE  /\ id \in Ids /\ Idle /\ Rest \in Seq(LowerCall)
           /\ ~Touched(id) /\ status[id] = "Done"
           /\ keys' \in Seq(Ids) /\ Distinct(keys') /\ status' \in [Ids -> Statuses]
           /\ ToSet(keys') = {i \in Ids : status'[i] /= "Done"}
           /\ status'[id] = "Pending" /\ \A j \in Ids \ {id} : status'[j] = status[j]
           /\ inner' = ToStart(keys', status', Cardinality(WithStatus("InProgress", status')))
           /\ buffer' = <<>>
           /\ \E e \in Seq(LetGoCall) : /\ e \o Rest \in Seq(LowerCall)
                                       /\ calls' = <<WorkerLoop>> \o (e \o Rest)
<1>. USE DEF Inv
<1>1. /\ id \in Ids /\ Idle /\ Rest \in Seq(LowerCall)
      /\ calls /= <<>> /\ Head(calls) = AddCall(id) /\ calls \in Seq(Call)
  BY OnTop DEF Add, Top
<1>1a. ~Touched(id) /\ status[id] = "Done"
  <2>1. ToSet(calls) = {Head(calls)} \cup ToSet(Rest)
    BY <1>1, TailOf DEF Rest
  <2>. QED
    BY <1>1, <2>1 DEF ToAdd, Life
<1>2. PICK e : /\ e = Do("setDone", IF Failed(id) THEN <<id>> ELSE <<>>) /\ e \in Seq(LetGoCall)
  <2>1. (IF Failed(id) THEN <<id>> ELSE <<>>) \in Seq(Ids)
    BY <1>1
  <2>2. Do("setDone", IF Failed(id) THEN <<id>> ELSE <<>>) \in Seq(LetGoCall)
    BY <2>1, DoIs DEF LetGoCall
  <2>. QED
    BY <2>2
<1>3. e \o Rest \in Seq(LowerCall)
  <2>1. e \in Seq(LowerCall) /\ Rest \in Seq(LowerCall)
    BY <1>1, <1>2, CallFacts
  <2>. QED
    BY ONLY <2>1, Concatenated
<1>4. /\ keys' \in Seq(Ids) /\ Distinct(keys') /\ status' \in [Ids -> Statuses]
      /\ ToSet(keys') = {i \in Ids : status'[i] /= "Done"}
      /\ status'[id] = "Pending" /\ \A j \in Ids \ {id} : status'[j] = status[j]
  BY <1>1, Put DEF Add, KeysOK, WithStatus
<1>5. /\ inner' = ToStart(keys', status', Cardinality(WithStatus("InProgress", status')))
      /\ calls' = <<WorkerLoop>> \o (e \o Rest)
      /\ buffer' = <<>>
  <2>1. ~Contains(e \o Rest, WorkerLoop)
    BY <1>3, NoLoopBelow
  <2>2. Publish(e \o Rest)
    BY <1>2 DEF Add
  <2>3. WithStatus("Pending", status') /= {} /\ buffer = <<>>
    BY <1>1, <1>4 DEF WithStatus, Idle
  <2>. QED
    BY <2>1, <2>2, <2>3 DEF Publish
<1>. QED
  BY <1>1, <1>1a, <1>2, <1>3, <1>4, <1>5, ZenonT(60)

LEMMA AddKeepsQueue ==
    ASSUME Inv, Add
    PROVE  QueueOK'
<1>. USE DEF Inv
<1>1. PICK d : d \in Seq(LowerCall) /\ calls' = <<WorkerLoop>> \o d
  BY AddEffects
<1>2. /\ id \in Ids
      /\ keys' \in Seq(Ids) /\ Distinct(keys') /\ status' \in [Ids -> Statuses]
      /\ ToSet(keys') = {i \in Ids : status'[i] /= "Done"}
      /\ inner' = ToStart(keys', status', Cardinality(WithStatus("InProgress", status')))
      /\ buffer' = <<>>
  BY AddEffects
<1>3. Cardinality(WithStatus("InProgress", status')) \in Nat
  BY <1>2, StatusSets
<1>4. inner' \in Seq(Ids)
  BY <1>2, <1>3, StartedByUpdate
<1>5. calls' \in Seq(Call) /\ WorkerLoop \in ToSet(calls')
  BY <1>1, ShapeFacts
<1>6. TypeOK'
  BY <1>2, <1>4, <1>5 DEF TypeOK, Add
<1>7. Shape'
  BY <1>1 DEF Shape, Looping
<1>8. KeysOK'
  BY <1>2 DEF KeysOK
<1>9. UpToDate'
  BY <1>2, <1>5 DEF UpToDate, Busy, Count, InProgress
<1>. QED
  BY <1>6, <1>7, <1>8, <1>9 DEF QueueOK

LEMMA SetInProgressKeepsQueue ==
    ASSUME Inv, SetInProgress
    PROVE  QueueOK'
<1>. USE DEF Inv
<1>1. Looping(Rest) /\ Rest \in Seq(LowerCall) /\ inner \in Seq(Ids) /\ inner /= <<>>
  BY OnTop DEF SetInProgress, Top, TypeOK
<1>2. PICK d \in Seq(LowerCall) : d = Rest
  BY <1>1
<1>3. PICK i \in Ids : i = Head(inner)
  BY <1>1, TailOf
<1>4. /\ keys' = (IF status[i] = "Done" THEN Append(keys, i) ELSE keys)
      /\ status' = [status EXCEPT ![i] = "InProgress"]
      /\ inner' = Tail(inner)
      /\ buffer' = IF WithStatus("Pending", status') = {} THEN buffer
                   ELSE Append(buffer, Cardinality(WithStatus("InProgress", status')))
      /\ calls' = <<FetchCall(i)>> \o (<<WorkerLoop>> \o d)
  BY <1>2, <1>3, DoOne DEF SetInProgress, FetchCall
<1>5. keys' \in Seq(Ids) /\ status' \in [Ids -> Statuses] /\ KeysOK'
  BY <1>4, Put
<1>6. Cardinality(WithStatus("InProgress", status')) \in Nat
  BY <1>5, StatusSets DEF KeysOK
<1>7. buffer' \in Seq(Nat)
  BY <1>4, <1>6 DEF TypeOK
<1>8. inner' \in Seq(Ids)
  BY <1>1, <1>4, TailOf
<1>9. calls' \in Seq(Call) /\ WorkerLoop \in ToSet(calls')
  <2>1. /\ <<FetchCall(i)>> \o (<<WorkerLoop>> \o d) \in Seq(Call)
        /\ WorkerLoop \in ToSet(<<FetchCall(i)>> \o (<<WorkerLoop>> \o d))
    BY <1>1, StartShapes, Zenon
  <2>2. calls' = <<FetchCall(i)>> \o (<<WorkerLoop>> \o d)
    BY <1>4
  <2>. QED
    BY ONLY <2>1, <2>2, Zenon
<1>10. TypeOK'
  BY <1>5, <1>7, <1>8, <1>9 DEF TypeOK, SetInProgress
<1>11. Shape'
  BY <1>4 DEF Shape, Fetching
<1>12. UpToDate'
  <2>1. CASE WithStatus("Pending", status') = {}
    BY <2>1 DEF UpToDate, Waiting
  <2>2. CASE WithStatus("Pending", status') /= {}
    <3>1. buffer' = Append(buffer, Cardinality(WithStatus("InProgress", status'))) /\ buffer \in Seq(Nat)
      BY <1>4, <2>2 DEF TypeOK
    <3>2. buffer' /= <<>> /\ buffer'[Len(buffer')] = Cardinality(WithStatus("InProgress", status'))
      BY <1>6, <3>1, AppendProperties
    <3>. QED
      BY <1>9, <3>2 DEF UpToDate, Busy, Count, InProgress
  <2>. QED
    BY <2>1, <2>2
<1>. QED
  BY <1>5, <1>10, <1>11, <1>12 DEF QueueOK

LEMMA LastOfTail ==
    ASSUME NEW S, NEW q \in Seq(S), q /= <<>>
    PROVE  /\ Tail(q) = <<>> => Head(q) = q[Len(q)]
           /\ Tail(q) /= <<>> => Tail(q)[Len(Tail(q))] = q[Len(q)]
<1>1. /\ Len(q) \in Nat \ {0} /\ Len(Tail(q)) = Len(q) - 1
      /\ Head(q) = q[1] /\ Tail(q) \in Seq(S)
  BY EmptySeq, HeadTailProperties
<1>2. \A k \in 1..Len(Tail(q)) : Tail(q)[k] = q[k + 1]
  BY HeadTailProperties
<1>3. Tail(q) = <<>> => Len(Tail(q)) = 0
  BY EmptySeq, Zenon
<1>4. Tail(q) = <<>> => Len(q) = 1
  BY <1>1, <1>3
<1>5. Tail(q) /= <<>> => Len(Tail(q)) \in 1..Len(Tail(q)) /\ Len(Tail(q)) + 1 = Len(q)
  BY <1>1, EmptySeq
<1>. QED
  BY <1>1, <1>2, <1>4, <1>5

LEMMA NextUpdateKeepsQueue ==
    ASSUME Inv, NextUpdate
    PROVE  QueueOK'
<1>. USE DEF Inv
<1>1. /\ Looping(Rest) /\ Rest \in Seq(LowerCall) /\ Head(calls) = WorkerLoop /\ calls \in Seq(Call)
      /\ inner = <<>> /\ keys' = keys /\ status' = status
  BY OnTop DEF NextUpdate, Top
<1>2. PICK d \in Seq(LowerCall) : d = Rest
  BY <1>1
<1>3. WorkerLoop \in ToSet(calls) /\ calls = <<WorkerLoop>> \o d
  BY <1>1, <1>2, ShapeFacts DEF Looping
<1>4. /\ keys \in Seq(Ids) /\ status \in [Ids -> Statuses] /\ Distinct(keys) /\ Count \in Nat
      /\ ToSet(keys) = {i \in Ids : status[i] /= "Done"} /\ buffer \in Seq(Nat)
  BY StatusSets DEF TypeOK, KeysOK, Count, InProgress
<1>5. CASE buffer = <<>>
  <2>1. calls' = d /\ inner' = <<>> /\ buffer' = <<>>
    BY <1>1, <1>2, <1>5 DEF NextUpdate
  <2>2. TypeOK'
    BY <2>1, CallFacts DEF TypeOK, NextUpdate
  <2>3. Shape'
    BY <2>1 DEF Shape, Idle
  <2>4. UpToDate'
    <3>1. CASE Waiting = {}
      BY <1>1, <3>1 DEF UpToDate, Waiting
    <3>2. CASE Waiting /= {}
      <4>1. ToStart(keys, status, Count) = <<>>
        BY <1>1, <1>3, <1>5, <3>2 DEF UpToDate, Busy
      <4>2. WithStatus("Pending", status) \subseteq DataQueries /\ Count >= MaxParallel
        BY <1>4, <3>2, <4>1, StartedByUpdate DEF Waiting
      <4>3. WorkerLoop \notin ToSet(calls')
        BY <2>1, NoLoopBelow
      <4>. QED
        BY <1>1, <4>2, <4>3 DEF UpToDate, Busy, Waiting, Count, InProgress
    <3>. QED
      BY <3>1, <3>2
  <2>. QED
    BY <1>1, <2>2, <2>3, <2>4 DEF QueueOK, KeysOK
<1>6. CASE buffer /= <<>>
  <2>1. inner' = ToStart(keys, status, Head(buffer)) /\ buffer' = Tail(buffer) /\ calls' = calls
    BY <1>6 DEF NextUpdate
  <2>2. Head(buffer) \in Nat /\ Tail(buffer) \in Seq(Nat)
    BY <1>4, <1>6, TailOf
  <2>3. inner' \in Seq(Ids)
    BY <1>4, <2>1, <2>2, StartedByUpdate
  <2>4. TypeOK'
    BY <2>1, <2>2, <2>3 DEF TypeOK, NextUpdate
  <2>5. Shape'
    BY <1>3, <2>1 DEF Shape, Looping
  <2>6. UpToDate'
    <3>1. CASE Waiting = {}
      BY <1>1, <3>1 DEF UpToDate, Waiting
    <3>2. CASE Waiting /= {}
      <4>1. buffer[Len(buffer)] = Count
        BY <1>3, <1>6, <3>2 DEF UpToDate, Busy
      <4>2. /\ Tail(buffer) = <<>> => Head(buffer) = Count
            /\ Tail(buffer) /= <<>> => Tail(buffer)[Len(Tail(buffer))] = Count
        BY <1>4, <1>6, <4>1, LastOfTail
      <4>3. CASE Tail(buffer) = <<>>
        BY <1>1, <1>3, <2>1, <4>2, <4>3 DEF UpToDate, Busy, Waiting, Count, InProgress
      <4>4. CASE Tail(buffer) /= <<>>
        BY <1>1, <1>3, <2>1, <4>2, <4>4 DEF UpToDate, Busy, Waiting, Count, InProgress
      <4>. QED
        BY <4>3, <4>4
    <3>. QED
      BY <3>1, <3>2
  <2>. QED
    BY <1>1, <2>4, <2>5, <2>6 DEF QueueOK, KeysOK
<1>. QED
  BY <1>5, <1>6

(* Where neither the entries nor what the worker keeps change, an update   *)
(* that was still to be processed is so afterwards.                        *)
LEMMA SameQueue ==
    ASSUME KeysOK, UpToDate, UNCHANGED <<keys, status, inner, buffer>>, Busy' <=> Busy
    PROVE  KeysOK' /\ UpToDate'
BY DEF KeysOK, UpToDate, Waiting, Count, InProgress

(* The older requests with its ID are told before a request is subscribed. *)
LEMMA FetchEffects ==
    ASSUME Inv, Fetch
    PROVE  /\ id \in Ids
           /\ \E d \in Seq(LowerCall), older \in Seq(Ids) :
                /\ Fetching(id, d) /\ Rest = <<WorkerLoop>> \o d
                /\ ToSet(older) = Older(id) /\ Distinct(older)
                /\ Do("cancel", older) \in Seq(LetGoCall)
                /\ ToSet(Do("cancel", older)) = {CancelCall(k) : k \in Older(id)}
                /\ calls' = Do("cancel", older) \o (<<SubscribeCall(id)>> \o (<<WorkerLoop>> \o d))
<1>. USE DEF Inv
<1>1. id \in Ids /\ Rest \in Seq(Call) /\ \E d \in Seq(LowerCall) : Fetching(id, d) /\ Rest = <<WorkerLoop>> \o d
  BY OnTop DEF Fetch, Top
<1>2. PICK j \in Ids, d \in Seq(LowerCall) : j = id /\ Fetching(j, d) /\ Rest = <<WorkerLoop>> \o d
  BY <1>1
<1>. DEFINE older == IF RequestId[j] = NoId THEN <<>> ELSE Selected(started, Requested(RequestId[j]))
<1>3. older \in Seq(Ids) /\ ToSet(older) = Older(j) /\ Distinct(older)
  <2>1. started \in Seq(Ids) /\ Distinct(started)
    BY DEF TypeOK, Life
  <2>2. CASE RequestId[j] = NoId
    BY <2>2 DEF Older, ToSet, Distinct
  <2>3. CASE RequestId[j] /= NoId
    <3>1. /\ older \in Seq(Ids) /\ ToSet(older) = ToSet(started) \cap Requested(RequestId[j])
          /\ Distinct(older)
      BY <2>1, <2>3, SelectedProperties
    <3>2. ToSet(started) \subseteq Ids
      BY <2>1, SetOfSeq
    <3>3. ToSet(older) = Older(j)
      BY <2>3, <3>1, <3>2 DEF Older, Requested
    <3>. QED
      BY <3>1, <3>3
  <2>. QED
    BY <2>2, <2>3
<1>4. /\ Do("cancel", older) \in Seq(LetGoCall)
      /\ ToSet(Do("cancel", older)) = {CancelCall(k) : k \in Older(j)}
  <2>. HIDE DEF older
  <2>1. Do("cancel", older) \in Seq(LetGoCall)
    BY <1>3, DoIs DEF LetGoCall
  <2>2. ToSet(Do("cancel", older)) = {CancelCall(k) : k \in ToSet(older)}
    BY <1>3, DoIs DEF CancelCall
  <2>. QED
    BY <1>3, <2>1, <2>2
<1>5. calls' = Do("cancel", older) \o (<<SubscribeCall(j)>> \o (<<WorkerLoop>> \o d))
  <2>. DEFINE u == <<WorkerLoop>> \o d
  <2>1. calls' = Do("cancel", older) \o Do("subscribe", <<id>>) \o Rest
    BY <1>2 DEF Fetch
  <2>2. Do("subscribe", <<id>>) = <<SubscribeCall(j)>>
    BY <1>2, DoOne DEF SubscribeCall
  <2>. HIDE DEF older
  <2>3. calls' = (Do("cancel", older) \o <<SubscribeCall(j)>>) \o u
    BY <1>2, <2>1, <2>2
  <2>4. Do("cancel", older) \in Seq(Call) /\ <<SubscribeCall(j)>> \in Seq(Call) /\ u \in Seq(Call)
    BY <1>4, CallFacts, ShapeFacts, OneInFront
  <2>. QED
    BY <2>3, <2>4, ConcatAssociative
<1>. HIDE DEF older
<1>. QED
  BY <1>2, <1>3, <1>4, <1>5, ZenonT(60)

LEMMA FetchKeepsQueue ==
    ASSUME Inv, Fetch
    PROVE  QueueOK'
<1>. USE DEF Inv
<1>1. PICK d \in Seq(LowerCall), older \in Seq(Ids) :
                /\ id \in Ids /\ Fetching(id, d)
                /\ Do("cancel", older) \in Seq(LetGoCall)
                /\ ToSet(Do("cancel", older)) = {CancelCall(k) : k \in Older(id)}
                /\ calls' = Do("cancel", older) \o (<<SubscribeCall(id)>> \o (<<WorkerLoop>> \o d))
  BY FetchEffects
<1>2. PICK j \in Ids : j = id
  BY <1>1
<1>4. PICK w \in Seq(LetGoCall) : w = Do("cancel", older) /\ \A k \in Older(j) : CancelCall(k) \in ToSet(w)
  BY <1>1, <1>2
<1>5. calls' = w \o (<<SubscribeCall(j)>> \o (<<WorkerLoop>> \o d))
  BY <1>1, <1>2, <1>4
<1>6. calls' \in Seq(Call) /\ WorkerLoop \in ToSet(calls')
  <2>1. w \in Seq(Call)
    BY CallFacts
  <2>. DEFINE u == <<SubscribeCall(j)>> \o (<<WorkerLoop>> \o d)
  <2>2. u \in Seq(Call) /\ WorkerLoop \in ToSet(u) /\ calls' = w \o u
    BY <1>5, ShapeFacts
  <2>. HIDE DEF u
  <2>. QED
    BY <2>1, <2>2, Concatenated
<1>7. TypeOK'
  BY <1>6 DEF TypeOK, Fetch
<1>8. Shape'
  <2>1. Older(j)' = Older(j)
    BY DEF Older, Fetch
  <2>2. LettingGo(w, j, d)'
    BY <1>4, <1>5, <2>1 DEF LettingGo
  <2>. QED
    BY <2>2 DEF Shape
<1>9. Busy /\ Busy'
  <2>1. calls = <<FetchCall(j)>> \o (<<WorkerLoop>> \o d)
    BY <1>1, <1>2 DEF Fetching
  <2>2. WorkerLoop \in ToSet(<<FetchCall(j)>> \o (<<WorkerLoop>> \o d))
    BY StartShapes, Zenon
  <2>. QED
    BY <1>6, <2>1, <2>2 DEF Busy
<1>. QED
  BY <1>7, <1>8, <1>9, SameQueue DEF QueueOK, Fetch

LEMMA SubscribeKeepsQueue ==
    ASSUME Inv, Subscribe
    PROVE  QueueOK'
<1>. USE DEF Inv
<1>1. id \in Ids /\ \E d \in Seq(LowerCall) : LettingGo(<<>>, id, d) /\ Rest = <<WorkerLoop>> \o d
  BY OnTop DEF Subscribe, Top
<1>2. PICK j \in Ids, d \in Seq(LowerCall) : j = id /\ LettingGo(<<>>, j, d) /\ Rest = <<WorkerLoop>> \o d
  BY <1>1
<1>3. calls' = <<WorkerLoop>> \o d /\ calls' \in Seq(Call) /\ WorkerLoop \in ToSet(calls')
  BY <1>2, ShapeFacts DEF Subscribe
<1>4. started' \in Seq(Ids)
  BY <1>1 DEF Subscribe, TypeOK
<1>5. TypeOK'
  BY <1>3, <1>4 DEF TypeOK, Subscribe
<1>6. Shape'
  BY <1>3 DEF Shape, Looping
<1>7. Busy /\ Busy'
  <2>. DEFINE u == <<SubscribeCall(j)>> \o (<<WorkerLoop>> \o d)
  <2>1. u \in Seq(Call) /\ WorkerLoop \in ToSet(u)
    BY ShapeFacts
  <2>2. calls = <<>> \o u
    BY <1>2 DEF LettingGo
  <2>. HIDE DEF u
  <2>3. calls = u
    BY <2>1, <2>2, ConcatEmptySeq
  <2>. QED
    BY <1>3, <2>1, <2>3 DEF Busy
<1>. QED
  BY <1>5, <1>6, <1>7, SameQueue DEF QueueOK, Subscribe

(* A call that lets go of a request has been made above a request that is  *)
(* being started.                                                          *)
LEMMA LetGoStep ==
    ASSUME NEW w, w \in Seq(LetGoCall), w /= <<>>, NEW j, j \in Ids, NEW d, d \in Seq(LowerCall),
           LettingGo(w, j, d), NEW f, f \in Seq(LetGoCall),
           calls' = f \o (Tail(w) \o (<<SubscribeCall(j)>> \o (<<WorkerLoop>> \o d))),
           \A k \in Older(j)' : k \in Older(j) /\ CancelCall(k) /= Head(w)
    PROVE  /\ f \o Tail(w) \in Seq(LetGoCall)
           /\ LettingGo(f \o Tail(w), j, d)'
           /\ calls' \in Seq(Call) /\ Busy /\ Busy'
<1>0. w \in Seq(LetGoCall) /\ w /= <<>> /\ j \in Ids /\ d \in Seq(LowerCall) /\ f \in Seq(LetGoCall)
  OBVIOUS
<1>1. PICK u : /\ u = <<SubscribeCall(j)>> \o (<<WorkerLoop>> \o d)
               /\ u \in Seq(Call) /\ WorkerLoop \in ToSet(u)
  BY ONLY <1>0, StartShapes, Zenon
<1>2. PICK t : /\ t = Tail(w)
               /\ t \in Seq(LetGoCall) /\ ToSet(w) = {Head(w)} \cup ToSet(t)
  BY ONLY <1>0, TailOf
<1>2a. f \in Seq(LetGoCall) /\ t \in Seq(LetGoCall)
  BY <1>0, <1>2
<1>3. PICK v : /\ v = f \o t
               /\ v \in Seq(LetGoCall) /\ ToSet(v) = ToSet(f) \cup ToSet(t)
  <2>1. f \o t \in Seq(LetGoCall) /\ ToSet(f \o t) = ToSet(f) \cup ToSet(t)
    BY ONLY <1>2a, Concatenated
  <2>. QED
    BY ONLY <2>1, Zenon
<1>3a. v \in Seq(LetGoCall) /\ u \in Seq(Call)
  BY <1>1, <1>3
<1>4. f \in Seq(Call) /\ t \in Seq(Call) /\ w \in Seq(Call) /\ v \in Seq(Call) /\ u \in Seq(Call)
  BY ONLY <1>0, <1>2a, <1>3a, CallFacts
<1>5. calls = w \o u /\ \A k \in Older(j) : CancelCall(k) \in ToSet(w)
  BY <1>1 DEF LettingGo
<1>6. calls' = f \o (t \o u)
  BY <1>1, <1>2
<1>7. calls' = v \o u
  <2>1. f \in Seq(Call) /\ t \in Seq(Call) /\ u \in Seq(Call)
    BY ONLY <1>4
  <2>2. f \o (t \o u) = (f \o t) \o u
    BY ONLY <2>1, CallsConcat, Zenon
  <2>. QED
    BY ONLY <1>3, <1>6, <2>2
<1>8. \A k \in Older(j)' : CancelCall(k) \in ToSet(v)
  BY <1>2, <1>3, <1>5
<1>9. calls' \in Seq(Call) /\ Busy /\ Busy'
  <2>1. v \o u \in Seq(Call) /\ ToSet(v \o u) = ToSet(v) \cup ToSet(u)
    BY ONLY <1>4, Concatenated
  <2>2. ToSet(w \o u) = ToSet(w) \cup ToSet(u)
    BY ONLY <1>4, Concatenated
  <2>. QED
    BY <1>1, <1>5, <1>7, <2>1, <2>2 DEF Busy
<1>10. LettingGo(v, j, d)'
  BY <1>0, <1>1, <1>3, <1>7, <1>8 DEF LettingGo
<1>. QED
  BY <1>2, <1>3, <1>9, <1>10

LEMMA LoopBelow ==
    ASSUME NEW t, t \in Seq(Call), NEW j, j \in Ids, NEW d, d \in Seq(LowerCall)
    PROVE  WorkerLoop \in ToSet(t \o (<<SubscribeCall(j)>> \o (<<WorkerLoop>> \o d)))
<1>1. PICK u : /\ u = <<SubscribeCall(j)>> \o (<<WorkerLoop>> \o d)
               /\ u \in Seq(Call) /\ WorkerLoop \in ToSet(u)
  BY StartShapes, Zenon
<1>2. t \in Seq(Call) /\ u \in Seq(Call)
  BY <1>1
<1>3. ToSet(t \o u) = ToSet(t) \cup ToSet(u)
  BY ONLY <1>2, Concatenated
<1>. QED
  BY <1>1, <1>3, Zenon

LEMMA CancelKeepsQueue ==
    ASSUME Inv, Cancel
    PROVE  QueueOK'
<1>. USE DEF Inv
<1>1. id \in Ids /\ started \in Seq(Ids) /\ Distinct(started) /\ outcome \in [Ids -> Outcomes] /\ cancelled \subseteq Ids
  BY OnTop DEF Cancel, Top, TypeOK, Life
<1>2. PICK i \in Ids : i = id
  BY <1>1
<1>3. PICK f \in Seq(LetGoCall) : calls' = f \o Rest
  <2>1. CASE Contains(started, id)
    <3>1. LetGo(id) \in Seq(LetGoCall) /\ calls' = LetGo(id) \o Rest
      BY <1>1, <2>1, SiblingsAre DEF Cancel
    <3>. QED
      BY <3>1
  <2>2. CASE ~Contains(started, id)
    <3>1. Rest \in Seq(Call) /\ calls' = Rest
      BY <2>2, OnTop DEF Cancel, Top
    <3>2. <<>> \in Seq(LetGoCall) /\ <<>> \o Rest = Rest
      BY <3>1, ConcatEmptySeq
    <3>. QED
      BY <3>1, <3>2
  <2>. QED
    BY <2>1, <2>2
<1>4. started' \in Seq(Ids) /\ ToSet(started') = ToSet(started) \ {i}
  <2>1. CASE Contains(started, id)
    BY <1>1, <1>2, <2>1, RemovedFirst DEF Cancel
  <2>2. CASE ~Contains(started, id)
    BY <1>1, <1>2, <2>2, SetOfSeq DEF Cancel
  <2>. QED
    BY <2>1, <2>2
<1>5. outcome' \in [Ids -> Outcomes] /\ cancelled' \subseteq Ids
  BY <1>1 DEF Cancel, Outcomes
<1>6. /\ calls' \in Seq(Call) /\ (Busy' <=> Busy) /\ Shape'
  <2>1. CASE Idle /\ Rest \in Seq(LowerCall)
    <3>1. calls' \in Seq(LowerCall) /\ calls \in Seq(LowerCall)
      BY <1>3, <2>1, CallFacts, Concatenated DEF Idle
    <3>2. Idle'
      BY <2>1, <3>1 DEF Idle, Cancel
    <3>. QED
      BY <3>1, <3>2, CallFacts, NoLoopBelow DEF Shape, Busy
  <2>2. CASE \E j \in Ids, d \in Seq(LowerCall), w \in Seq(LetGoCall) :
                /\ w /= <<>> /\ LettingGo(w, j, d) /\ Head(w) = Head(calls)
                /\ Tail(w) \in Seq(LetGoCall)
                /\ Rest = Tail(w) \o (<<SubscribeCall(j)>> \o (<<WorkerLoop>> \o d))
    <3>1. PICK j \in Ids, d \in Seq(LowerCall), w \in Seq(LetGoCall) :
                /\ w /= <<>> /\ LettingGo(w, j, d) /\ Head(w) = Head(calls)
                /\ Tail(w) \in Seq(LetGoCall)
                /\ Rest = Tail(w) \o (<<SubscribeCall(j)>> \o (<<WorkerLoop>> \o d))
      BY <2>2
    <3>2. Head(w) = CancelCall(i)
      BY <1>2, <3>1, OnTop DEF Cancel, Top, CancelCall
    <3>3. \A k \in Older(j)' : k \in Older(j) /\ CancelCall(k) /= Head(w)
      BY <1>4, <3>2 DEF Older, CancelCall
    <3>4. calls' = f \o (Tail(w) \o (<<SubscribeCall(j)>> \o (<<WorkerLoop>> \o d)))
      BY <1>3, <3>1
    <3>5. /\ f \o Tail(w) \in Seq(LetGoCall) /\ LettingGo(f \o Tail(w), j, d)'
          /\ calls' \in Seq(Call) /\ Busy /\ Busy'
      BY <3>1, <3>3, <3>4, LetGoStep
    <3>. QED
      BY <3>5 DEF Shape
  <2>. QED
    BY <2>1, <2>2, OnTop DEF Cancel, Top
<1>7. TypeOK'
  BY <1>4, <1>5, <1>6 DEF TypeOK, Cancel
<1>. QED
  BY <1>6, <1>7, SameQueue DEF QueueOK, Cancel

LEMMA SetDoneKeepsQueue ==
    ASSUME Inv, SetDone
    PROVE  QueueOK'
<1>. USE DEF Inv
<1>1. /\ id \in Ids /\ started \in Seq(Ids) /\ Distinct(started) /\ outcome \in [Ids -> Outcomes]
      /\ listening \subseteq Ids /\ Rest \in Seq(Call) /\ buffer \in Seq(Nat) /\ inner \in Seq(Ids)
  BY OnTop DEF SetDone, Top, TypeOK, Life
<1>2. PICK i \in Ids : i = id
  BY <1>1
<1>3. started' \in Seq(Ids) /\ ToSet(started') \subseteq ToSet(started)
  <2>1. CASE id \in listening
    BY <1>1, <2>1, RemovedFirst DEF SetDone
  <2>2. CASE id \notin listening
    BY <1>1, <2>2 DEF SetDone
  <2>. QED
    BY <2>1, <2>2
<1>4. outcome' \in [Ids -> Outcomes] /\ listening' \subseteq Ids
  BY <1>1 DEF SetDone, Outcomes
<1>5. keys' \in Seq(Ids) /\ status' \in [Ids -> Statuses] /\ KeysOK'
  <2>1. CASE id \in listening
    BY <1>1, <2>1, Removed DEF SetDone
  <2>2. CASE id \notin listening
    BY <2>2 DEF SetDone, TypeOK, KeysOK
  <2>. QED
    BY <2>1, <2>2
<1>6. Cardinality(WithStatus("InProgress", status')) \in Nat
  BY <1>5, StatusSets DEF KeysOK
<1>7. CASE Idle /\ Rest \in Seq(LowerCall)
  <2>0. PICK d \in Seq(LowerCall) : d = Rest
    BY <1>7
  <2>1. inner = <<>> /\ buffer = <<>> /\ ~Busy
    BY <1>7, NoLoopBelow DEF Idle, Busy
  <2>2. \/ calls' = d /\ inner' = inner /\ buffer' = buffer
           /\ (UNCHANGED <<keys, status>> \/ Waiting' = {})
        \/ /\ calls' = <<WorkerLoop>> \o d /\ buffer' = buffer
           /\ inner' = ToStart(keys', status', Cardinality(WithStatus("InProgress", status')))
    BY <2>0, NoLoopBelow DEF SetDone, Publish, Waiting
  <2>3. CASE /\ calls' = d /\ inner' = inner /\ buffer' = buffer
             /\ (UNCHANGED <<keys, status>> \/ Waiting' = {})
    <3>1. Shape' /\ calls' \in Seq(Call) /\ ~Busy'
      BY <2>1, <2>3, CallFacts, NoLoopBelow DEF Shape, Idle, Busy
    <3>2. UpToDate'
      <4>1. CASE UNCHANGED <<keys, status>>
        BY <2>1, <2>3, <3>1, <4>1, SameQueue
      <4>2. CASE Waiting' = {}
        BY <4>2 DEF UpToDate
      <4>. QED
        BY <2>3, <4>1, <4>2
    <3>3. TypeOK'
      BY <1>1, <1>3, <1>4, <1>5, <2>3, <3>1 DEF TypeOK, SetDone
    <3>. QED
      BY <1>5, <3>1, <3>2, <3>3 DEF QueueOK
  <2>4. CASE /\ calls' = <<WorkerLoop>> \o d /\ buffer' = buffer
             /\ inner' = ToStart(keys', status', Cardinality(WithStatus("InProgress", status')))
    <3>1. Shape'
      BY <2>4 DEF Shape, Looping
    <3>2. calls' \in Seq(Call) /\ Busy'
      BY <2>4, ShapeFacts DEF Busy
    <3>3. UpToDate'
      BY <2>1, <2>4, <3>2 DEF UpToDate, Count, InProgress
    <3>4. inner' \in Seq(Ids)
      BY <1>5, <1>6, <2>4, StartedByUpdate DEF KeysOK
    <3>5. TypeOK'
      BY <1>1, <1>3, <1>4, <1>5, <2>4, <3>2, <3>4 DEF TypeOK, SetDone
    <3>. QED
      BY <1>5, <3>1, <3>3, <3>5 DEF QueueOK
  <2>. QED
    BY <2>2, <2>3, <2>4
<1>8. CASE \E j \in Ids, d \in Seq(LowerCall), w \in Seq(LetGoCall) :
                /\ w /= <<>> /\ LettingGo(w, j, d) /\ Head(w) = Head(calls)
                /\ Tail(w) \in Seq(LetGoCall)
                /\ Rest = Tail(w) \o (<<SubscribeCall(j)>> \o (<<WorkerLoop>> \o d))
  <2>1. PICK j \in Ids, d \in Seq(LowerCall), w \in Seq(LetGoCall) :
                /\ w /= <<>> /\ LettingGo(w, j, d) /\ Head(w) = Head(calls)
                /\ Tail(w) \in Seq(LetGoCall)
                /\ Rest = Tail(w) \o (<<SubscribeCall(j)>> \o (<<WorkerLoop>> \o d))
    BY <1>8
  <2>2. Contains(Rest, WorkerLoop)
    <3>1. Tail(w) \in Seq(Call)
      BY <2>1, CallFacts
    <3>5. WorkerLoop \in ToSet(Rest)
      BY <2>1, <3>1, LoopBelow
    <3>. QED
      BY <1>1, <3>5, SetOfSeq
  <2>3. /\ calls' = Rest /\ inner' = inner
        /\ \/ UNCHANGED <<keys, status, buffer>>
           \/ Waiting' = {} /\ buffer' = buffer
           \/ buffer' = Append(buffer, Cardinality(WithStatus("InProgress", status')))
    BY <2>2 DEF SetDone, Publish, Waiting
  <2>4. Head(w) = SetDoneCall(i)
    BY <1>2, <2>1, OnTop DEF SetDone, Top, SetDoneCall
  <2>5. \A k \in Older(j)' : k \in Older(j) /\ CancelCall(k) /= Head(w)
    BY <1>3, <2>4 DEF Older, CancelCall, SetDoneCall
  <2>6. <<>> \in Seq(LetGoCall) /\ calls' = <<>> \o (Tail(w) \o (<<SubscribeCall(j)>> \o (<<WorkerLoop>> \o d)))
    BY <1>1, <2>1, <2>3, ConcatEmptySeq
  <2>7. /\ <<>> \o Tail(w) \in Seq(LetGoCall) /\ LettingGo(<<>> \o Tail(w), j, d)'
        /\ calls' \in Seq(Call) /\ Busy /\ Busy'
    BY <2>1, <2>5, <2>6, LetGoStep
  <2>8. Shape'
    BY <2>7 DEF Shape
  <2>9. buffer' \in Seq(Nat)
    <3>1. buffer' = buffer \/ buffer' = Append(buffer, Cardinality(WithStatus("InProgress", status')))
      BY <2>3
    <3>2. Append(buffer, Cardinality(WithStatus("InProgress", status'))) \in Seq(Nat)
      BY <1>1, <1>6, AppendProperties
    <3>. QED
      BY <1>1, <3>1, <3>2
  <2>10. TypeOK'
    BY <1>1, <1>3, <1>4, <1>5, <2>3, <2>7, <2>9 DEF TypeOK, SetDone
  <2>11. UpToDate'
    <3>1. CASE UNCHANGED <<keys, status, buffer>>
      BY <2>3, <2>7, <3>1, SameQueue
    <3>2. CASE Waiting' = {}
      BY <3>2 DEF UpToDate
    <3>3. CASE buffer' = Append(buffer, Cardinality(WithStatus("InProgress", status')))
      <4>1. buffer' /= <<>> /\ buffer'[Len(buffer')] = Cardinality(WithStatus("InProgress", status'))
        BY <1>1, <1>6, <3>3, AppendProperties
      <4>. QED
        BY <2>7, <4>1 DEF UpToDate, Count, InProgress
    <3>. QED
      BY <2>3, <3>1, <3>2, <3>3
  <2>. QED
    BY <1>5, <2>8, <2>10, <2>11 DEF QueueOK
<1>. QED
  BY <1>7, <1>8, OnTop DEF SetDone, Top

-----------------------------------------------------------------------------
(* The events                                                              *)

Events == \/ \E c \in Consumers : Request(c) \/ Unsubscribe(c)
          \/ \E r \in RequestIds : ResolveCanceler(r)
          \/ CancelAllInFlightRequests
          \/ \E i \in Ids : Answer(i) \/ TokenRevoked(i) \/ Login(i) \/ LoggedIn(i)

(* Events begin with the calls of a consumer, with a loginPing, or with    *)
(* calls that let go of requests.                                          *)
Requesting(c) == /\ Untouched(c) /\ calls' = Do("add", CallsOf[c])
                 /\ UNCHANGED <<phase, outcome>>
Pinging(i) == /\ i \in ToSet(started) /\ phase[i] = "first" /\ LoginPing[i] /= NoId
              /\ calls' = Do("add", <<LoginPing[i]>>)
              /\ phase' = [phase EXCEPT ![i] = "login"] /\ UNCHANGED outcome
Ending == /\ calls' \in Seq(LetGoCall)
          /\ \/ UNCHANGED outcome
             \/ \E i \in ToSet(started), r \in {"value", "error", "cancelled"} :
                    outcome' = [outcome EXCEPT ![i] = r]
          /\ UNCHANGED phase \/ \E i \in Ids : phase' = [phase EXCEPT ![i] = "retry"]

LEMMA EndsEffects ==
    ASSUME TypeOK, NEW i \in ToSet(started), NEW r \in {"value", "error", "cancelled"}, Ends(i, r)
    PROVE  /\ calls = <<>> /\ UNCHANGED <<keys, status, inner, buffer, listening, started, cancelled>>
           /\ calls' \in Seq(LetGoCall)
           /\ outcome' = [outcome EXCEPT ![i] = r]
<1>1. i \in Ids
  BY SetOfSeq DEF TypeOK
<1>2. LetGo(i) \in Seq(LetGoCall)
  BY <1>1, SiblingsAre
<1>3. Do("setDone", <<i>>) \in Seq(LetGoCall)
  <2>1. <<i>> \in Seq(Ids)
    BY <1>1
  <2>. QED
    BY <2>1, DoIs DEF LetGoCall
<1>. QED
  BY <1>2, <1>3 DEF Ends, Begin

LEMMA EventEffects ==
    ASSUME TypeOK, Events
    PROVE  /\ calls = <<>> /\ UNCHANGED <<keys, status, inner, buffer, listening, started, cancelled>>
           /\ \/ \E c \in Consumers : Requesting(c)
              \/ \E i \in Ids : Pinging(i)
              \/ Ending
<1>0. started \in Seq(Ids) /\ ToSet(started) \subseteq Ids /\ \A e : Contains(started, e) <=> e \in ToSet(started)
  BY SetOfSeq DEF TypeOK
<1>. DEFINE Same == calls = <<>> /\ UNCHANGED <<keys, status, inner, buffer, listening, started, cancelled>>
<1>1. ASSUME NEW c \in Consumers, Request(c)
      PROVE  Same /\ Requesting(c)
  BY <1>1 DEF Request, Begin, Requesting
<1>2. ASSUME NEW c \in Consumers, Unsubscribe(c)
      PROVE  Same /\ Ending
  <2>1. CallsOf[c] \in Seq(Ids)
    BY ConsumerAssumption
  <2>2. Do("setDone", CallsOf[c]) \in Seq(LetGoCall)
    BY <2>1, DoIs DEF LetGoCall
  <2>. QED
    BY <1>2, <2>2 DEF Unsubscribe, Begin, Ending
<1>3. ASSUME NEW r \in RequestIds, ResolveCanceler(r)
      PROVE  Same /\ Ending
  <2>1. Selected(started, Requested(r)) \in Seq(Ids)
    BY <1>0, SelectedProperties
  <2>2. Do("cancel", Selected(started, Requested(r))) \in Seq(LetGoCall)
    BY <2>1, DoIs DEF LetGoCall
  <2>. QED
    BY <1>3, <2>2 DEF ResolveCanceler, Begin, Ending
<1>4. ASSUME CancelAllInFlightRequests
      PROVE  Same /\ Ending
  <2>1. Do("cancel", started) \in Seq(LetGoCall)
    BY <1>0, DoIs DEF LetGoCall
  <2>. QED
    BY <1>4, <2>1 DEF CancelAllInFlightRequests, Begin, Ending
<1>5. ASSUME NEW i \in ToSet(started), NEW r \in {"value", "error", "cancelled"}, Ends(i, r), UNCHANGED phase
      PROVE  Same /\ Ending
  <2>1. calls' \in Seq(LetGoCall) /\ outcome' = [outcome EXCEPT ![i] = r] /\ Same
    BY <1>5, EndsEffects
  <2>. QED
    BY <1>5, <2>1 DEF Ending
<1>6. ASSUME NEW i \in Ids, Answer(i)
      PROVE  Same /\ Ending
  <2>1. i \in ToSet(started) /\ UNCHANGED phase
        /\ (Ends(i, "value") \/ Ends(i, "cancelled") \/ Ends(i, "error"))
    BY <1>0, <1>6 DEF Answer
  <2>. QED
    BY <1>5, <2>1
<1>7. ASSUME NEW i \in Ids, TokenRevoked(i)
      PROVE  Same /\ Ending
  <2>1. i \in ToSet(started) /\ UNCHANGED phase /\ Ends(i, "cancelled")
    BY <1>0, <1>7 DEF TokenRevoked, Unauthorized
  <2>. QED
    BY <1>5, <2>1
<1>8. ASSUME NEW i \in Ids, Login(i)
      PROVE  Same /\ Pinging(i)
  BY <1>0, <1>8 DEF Login, Unauthorized, Begin, Pinging
<1>9. ASSUME NEW i \in Ids, LoggedIn(i)
      PROVE  Same /\ Ending
  <2>1. i \in ToSet(started)
    BY <1>0, <1>9 DEF LoggedIn
  <2>2. CASE Begin(<<>>) /\ UNCHANGED outcome /\ phase' = [phase EXCEPT ![i] = "retry"]
    <3>1. calls' \in Seq(LetGoCall) /\ Same
      BY <2>2 DEF Begin
    <3>2. UNCHANGED outcome /\ phase' = [phase EXCEPT ![i] = "retry"]
      BY <2>2
    <3>. QED
      BY <3>1, <3>2 DEF Ending
  <2>3. CASE Ends(i, "error") /\ UNCHANGED phase
    BY <1>5, <2>1, <2>3
  <2>. QED
    BY <1>9, <2>2, <2>3 DEF LoggedIn
<1>. HIDE DEF Same
<1>10. Same /\ ((\E c \in Consumers : Requesting(c)) \/ (\E i \in Ids : Pinging(i)) \/ Ending)
  BY <1>1, <1>2, <1>3, <1>4, <1>6, <1>7, <1>8, <1>9 DEF Events
<1>. QED
  BY <1>10 DEF Same

LEMMA BeganAs ==
    ASSUME TypeOK, Events
    PROVE  calls' \in Seq(LowerCall) /\ phase' \in [Ids -> Phases] /\ outcome' \in [Ids -> Outcomes]
<1>0. ToSet(started) \subseteq Ids /\ phase \in [Ids -> Phases] /\ outcome \in [Ids -> Outcomes]
  BY SetOfSeq DEF TypeOK
<1>1. ASSUME NEW c \in Consumers, Requesting(c)
      PROVE  calls' \in Seq(LowerCall) /\ phase' \in [Ids -> Phases] /\ outcome' \in [Ids -> Outcomes]
  <2>1. CallsOf[c] \in Seq(Ids)
    BY ConsumerAssumption
  <2>2. Do("add", CallsOf[c]) \in Seq(LowerCall)
    BY <2>1, DoIs DEF LowerCall
  <2>. QED
    BY <1>0, <1>1, <2>2 DEF Requesting
<1>2. ASSUME NEW i \in Ids, Pinging(i)
      PROVE  calls' \in Seq(LowerCall) /\ phase' \in [Ids -> Phases] /\ outcome' \in [Ids -> Outcomes]
  <2>1. LoginPing[i] \in Ids
    BY <1>2, OptionsAssumption DEF Pinging
  <2>2. <<LoginPing[i]>> \in Seq(Ids)
    BY <2>1
  <2>3. Do("add", <<LoginPing[i]>>) \in Seq(LowerCall)
    BY <2>2, DoIs DEF LowerCall
  <2>. QED
    BY <1>0, <1>2, <2>3 DEF Pinging, Phases
<1>3. ASSUME Ending
      PROVE  calls' \in Seq(LowerCall) /\ phase' \in [Ids -> Phases] /\ outcome' \in [Ids -> Outcomes]
  <2>1. phase' \in [Ids -> Phases] /\ outcome' \in [Ids -> Outcomes]
    BY <1>0, <1>3 DEF Ending, Phases, Outcomes
  <2>2. calls' \in Seq(LowerCall)
    BY <1>3, CallFacts DEF Ending
  <2>. QED
    BY <2>1, <2>2
<1>. QED
  BY <1>1, <1>2, <1>3, EventEffects

LEMMA NoCalls ==
    ASSUME Shape, calls = <<>>
    PROVE  Idle /\ ~Busy
<1>1. ~Busy
  BY DEF Busy, ToSet
<1>2. ASSUME NEW d \in Seq(LowerCall) PROVE ~Looping(d)
  BY <1>2, ShapeFacts DEF Looping
<1>3. ASSUME NEW d \in Seq(LowerCall), NEW j \in Ids PROVE ~Fetching(j, d)
  BY <1>3, ShapeFacts DEF Fetching
<1>4. ASSUME NEW d \in Seq(LowerCall), NEW j \in Ids, NEW w \in Seq(LetGoCall), LettingGo(w, j, d)
      PROVE  FALSE
  <2>1. calls = w \o (<<SubscribeCall(j)>> \o (<<WorkerLoop>> \o d)) /\ w \in Seq(Call)
    BY <1>4, CallFacts DEF LettingGo
  <2>2. Busy
    BY <2>1, LoopBelow DEF Busy
  <2>. QED
    BY <1>1, <2>2
<1>. QED
  BY <1>1, <1>2, <1>3, <1>4 DEF Shape

LEMMA EventKeepsQueue ==
    ASSUME Inv, Events
    PROVE  QueueOK'
<1>. USE DEF Inv
<1>1. calls = <<>> /\ UNCHANGED <<keys, status, inner, buffer, listening, started, cancelled>>
  BY EventEffects
<1>2. calls' \in Seq(LowerCall) /\ phase' \in [Ids -> Phases] /\ outcome' \in [Ids -> Outcomes]
  BY BeganAs
<1>3. Idle /\ ~Busy
  BY <1>1, NoCalls
<1>4. Shape' /\ ~Busy'
  BY <1>1, <1>2, <1>3, NoLoopBelow DEF Shape, Idle, Busy
<1>5. TypeOK'
  BY <1>1, <1>2, CallFacts DEF TypeOK
<1>. QED
  BY <1>1, <1>3, <1>4, <1>5, SameQueue DEF QueueOK

-----------------------------------------------------------------------------
(* The life of a call of fetch                                             *)

LEMMA StartingInShapes ==
    ASSUME NEW d, d \in Seq(LowerCall)
    PROVE  /\ StartingIn(d) = {}
           /\ StartingIn(<<WorkerLoop>> \o d) = {}
           /\ \A j \in Ids : StartingIn(<<FetchCall(j)>> \o (<<WorkerLoop>> \o d)) = {j}
           /\ \A j \in Ids, w \in Seq(LetGoCall) :
                StartingIn(w \o (<<SubscribeCall(j)>> \o (<<WorkerLoop>> \o d))) = {j}
<1>1. /\ \A i \in Ids : FetchCall(i) \notin ToSet(d) /\ SubscribeCall(i) \notin ToSet(d)
      /\ ToSet(d) \subseteq LowerCall
  BY SetOfSeq, CallFacts
<1>2. /\ \A i \in Ids : FetchCall(i) /= WorkerLoop /\ SubscribeCall(i) /= WorkerLoop
      /\ \A i, j \in Ids : /\ FetchCall(i) = FetchCall(j) => i = j
                           /\ SubscribeCall(i) = SubscribeCall(j) => i = j
                           /\ FetchCall(i) /= SubscribeCall(j)
  BY DEF FetchCall, SubscribeCall, WorkerLoop
<1>3. StartingIn(d) = {}
  BY <1>1 DEF StartingIn
<1>4. StartingIn(<<WorkerLoop>> \o d) = {}
  <2>1. ToSet(<<WorkerLoop>> \o d) = {WorkerLoop} \cup ToSet(d)
    BY ShapeFacts
  <2>. QED
    BY <1>1, <1>2, <2>1 DEF StartingIn
<1>5. ASSUME NEW j \in Ids
      PROVE  StartingIn(<<FetchCall(j)>> \o (<<WorkerLoop>> \o d)) = {j}
  <2>1. ToSet(<<FetchCall(j)>> \o (<<WorkerLoop>> \o d)) = {FetchCall(j), WorkerLoop} \cup ToSet(d)
    BY ShapeFacts
  <2>. QED
    BY <1>1, <1>2, <2>1 DEF StartingIn
<1>6. ASSUME NEW j, j \in Ids, NEW w, w \in Seq(LetGoCall)
      PROVE  StartingIn(w \o (<<SubscribeCall(j)>> \o (<<WorkerLoop>> \o d))) = {j}
  <2>1. PICK u : /\ u = <<SubscribeCall(j)>> \o (<<WorkerLoop>> \o d)
                 /\ u \in Seq(Call) /\ ToSet(u) = {SubscribeCall(j), WorkerLoop} \cup ToSet(d)
    BY <1>6, ShapeFacts
  <2>2. w \in Seq(Call) /\ w \in Seq(LowerCall) /\ u \in Seq(Call)
    BY <1>6, <2>1, CallFacts
  <2>3. ToSet(w \o u) = ToSet(w) \cup ToSet(u)
    BY ONLY <2>2, Concatenated
  <2>4. \A i \in Ids : FetchCall(i) \notin ToSet(w) /\ SubscribeCall(i) \notin ToSet(w)
    BY <2>2, SetOfSeq, CallFacts
  <2>5. ToSet(w \o u) = ToSet(w) \cup {SubscribeCall(j), WorkerLoop} \cup ToSet(d)
    BY <2>1, <2>3, Zenon
  <2>6. StartingIn(w \o u) = {j}
    BY ONLY <1>6, <1>1, <1>2, <2>4, <2>5 DEF StartingIn
  <2>. QED
    BY <2>1, <2>6, Zenon
<1>. QED
  BY <1>3, <1>4, <1>5, <1>6

(* What is to be added, and what touches a call.                           *)
LEMMA CallStep ==
    ASSUME Inv, calls /= <<>>, NEW f, f \in Seq(Call), \A c \in ToSet(f) : c.op /= "add",
           calls' = f \o Rest, UNCHANGED phase,
           \A i \in Ids : Touched(i)' => Touched(i) \/ (Top("add") /\ i = id)
    PROVE  /\ AddsOnce(calls)'
           /\ \A i \in ToAdd' : ~Touched(i)'
           /\ \A i \in Ids : phase'[i] = "first" /\ LoginPing[i] /= NoId =>
                    ~Touched(LoginPing[i])' /\ LoginPing[i] \notin ToAdd'
<1>1. calls \in Seq(Call) /\ Rest \in Seq(Call) /\ AddsOnce(calls)
  BY OnTop DEF Inv, Life
<1>2. /\ AddsOnce(Rest) /\ (Head(calls).op = "add" => Head(calls) \notin ToSet(Rest))
      /\ ToSet(calls) = {Head(calls)} \cup ToSet(Rest)
  BY <1>1, AddsOnceTail, TailOf DEF Rest
<1>3. AddsOnce(f \o Rest)
  BY <1>1, <1>2, AddsOnceConcat
<1>3a. ToSet(f \o Rest) = ToSet(f) \cup ToSet(Rest)
  <2>1. f \in Seq(Call) /\ Rest \in Seq(Call)
    BY <1>1
  <2>. QED
    BY ONLY <2>1, Concatenated
<1>4. ToSet(calls') = ToSet(f) \cup ToSet(Rest)
  BY <1>3a, Zenon
<1>5. \A i \in Ids : AddCall(i) \notin ToSet(f)
  BY DEF AddCall
<1>6. ToAdd' \subseteq ToAdd
  BY <1>2, <1>4, <1>5 DEF ToAdd
<1>7. Top("add") => id \in ToAdd /\ id \notin ToAdd'
  <2>. SUFFICES ASSUME Top("add") PROVE id \in ToAdd /\ id \notin ToAdd'
    OBVIOUS
  <2>1. id \in Ids /\ Head(calls) = AddCall(id) /\ Head(calls).op = "add"
    BY OnTop DEF Inv, Top
  <2>. QED
    BY <1>2, <1>4, <1>5, <2>1 DEF ToAdd
<1>8. ToAdd \subseteq Ids
  BY DEF ToAdd
<1>9. \A i \in ToAdd' : ~Touched(i)'
  BY <1>6, <1>7, <1>8 DEF Inv, Life
<1>10. ASSUME NEW i \in Ids, phase'[i] = "first", LoginPing[i] /= NoId
       PROVE  ~Touched(LoginPing[i])' /\ LoginPing[i] \notin ToAdd'
  <2>1. ~Touched(LoginPing[i]) /\ LoginPing[i] \notin ToAdd /\ LoginPing[i] \in Ids
    BY <1>10, OptionsAssumption DEF Inv, Life
  <2>. QED
    BY <1>6, <1>7, <2>1
<1>11. AddsOnce(calls)'
  <2>1. AddsOnce(calls')
    BY <1>3, Zenon
  <2>. QED
    BY <2>1 DEF AddsOnce
<1>. QED
  BY <1>9, <1>10, <1>11

(* The calls an action makes are none of a request to be added.            *)
LEMMA NoAdds ==
    ASSUME NEW f, f \in Seq([op : {"setInProgress", "fetch", "subscribe", "cancel", "setDone"},
                             id : Ids \cup {NoId}])
    PROVE  f \in Seq(Call) /\ \A c \in ToSet(f) : c.op /= "add"
<1>. DEFINE S == [op : {"setInProgress", "fetch", "subscribe", "cancel", "setDone"},
                  id : Ids \cup {NoId}]
<1>1. S \subseteq Call /\ \A c \in S : c.op /= "add"
  BY DEF Call
<1>2. f \in Seq(S)
  OBVIOUS
<1>. HIDE DEF S
<1>3. ToSet(f) \subseteq S
  BY <1>2, SetOfSeq
<1>4. f \in Seq(Call)
  BY <1>1, <1>2
<1>. QED
  BY <1>1, <1>3, <1>4

LEMMA OnlyLetsGo ==
    ASSUME NEW f, f \in Seq(LetGoCall)
    PROVE  f \in Seq(Call) /\ \A c \in ToSet(f) : c.op /= "add"
<1>1. ToSet(f) \subseteq LetGoCall
  BY SetOfSeq
<1>2. f \in Seq(Call)
  BY CallFacts
<1>. QED
  BY <1>1, <1>2 DEF LetGoCall

LEMMA AddKeepsLife ==
    ASSUME Inv, Add
    PROVE  Life'
<1>. USE DEF Inv
<1>1. /\ id \in Ids /\ Idle /\ Rest \in Seq(LowerCall) /\ Rest \in Seq(Call)
      /\ calls /= <<>> /\ Head(calls) = AddCall(id) /\ calls \in Seq(Call)
      /\ calls \in Seq(LowerCall)
  BY OnTop DEF Add, Top, Idle
<1>2. ~Touched(id)
  BY AddEffects
<1>3. PICK e : /\ e \in Seq(LetGoCall) /\ e \o Rest \in Seq(LowerCall)
               /\ calls' = <<WorkerLoop>> \o (e \o Rest)
  BY AddEffects
<1>4. e \o Rest \in Seq(LowerCall)
  BY <1>3
<1>5. /\ keys' \in Seq(Ids) /\ Distinct(keys') /\ status' \in [Ids -> Statuses]
      /\ ToSet(keys') = {i \in Ids : status'[i] /= "Done"}
      /\ status'[id] = "Pending" /\ \A j \in Ids \ {id} : status'[j] = status[j]
  BY AddEffects
<1>6. /\ inner' = ToStart(keys', status', Cardinality(WithStatus("InProgress", status')))
      /\ calls' = <<WorkerLoop>> \o (e \o Rest)
  BY <1>3, AddEffects
<1>7. ToSet(inner') \subseteq Waiting' /\ Distinct(inner')
  <2>1. Cardinality(WithStatus("InProgress", status')) \in Nat
    BY <1>5, StatusSets
  <2>2. /\ ToSet(ToStart(keys', status', Cardinality(WithStatus("InProgress", status'))))
                \subseteq WithStatus("Pending", status')
        /\ Distinct(ToStart(keys', status', Cardinality(WithStatus("InProgress", status'))))
    BY <1>5, <2>1, StartedByUpdate
  <2>. QED
    BY <1>6, <2>2 DEF Waiting, Distinct
<1>8. Waiting' \subseteq Waiting \cup {id}
  BY <1>5 DEF Waiting, WithStatus
<1>9. Starting = {} /\ Starting' = {}
  <2>1. StartingIn(calls) = {} /\ StartingIn(<<WorkerLoop>> \o (e \o Rest)) = {}
    BY <1>1, <1>4, StartingInShapes
  <2>2. StartingIn(calls') = {}
    BY <1>6, <2>1, Zenon
  <2>. QED
    BY <2>1, <2>2 DEF Starting, StartingIn
<1>10. UNCHANGED <<started, phase, outcome>> /\ listening' = listening \cup {id}
  BY DEF Add
<1>11. \A i \in Ids : Touched(i)' <=> Touched(i) \/ i = id
  BY <1>10 DEF Touched
<1>12. /\ AddsOnce(calls)'
       /\ \A i \in ToAdd' : ~Touched(i)'
       /\ \A i \in Ids : phase'[i] = "first" /\ LoginPing[i] /= NoId =>
                ~Touched(LoginPing[i])' /\ LoginPing[i] \notin ToAdd'
  <2>1. PICK f : f = <<WorkerLoop>> \o e /\ f \in Seq(Call) /\ \A c \in ToSet(f) : c.op /= "add"
    <3>1. e \in Seq(Call) /\ \A c \in ToSet(e) : c.op /= "add"
      BY <1>3, OnlyLetsGo
    <3>2. WorkerLoop \in Call /\ WorkerLoop.op /= "add"
      BY CallFacts DEF WorkerLoop
    <3>3. <<WorkerLoop>> \o e \in Seq(Call) /\ ToSet(<<WorkerLoop>> \o e) = {WorkerLoop} \cup ToSet(e)
      BY <3>1, <3>2, OneInFront
    <3>. QED
      BY <3>1, <3>2, <3>3
  <2>2. calls' = f \o Rest
    <3>1. <<WorkerLoop>> \in Seq(Call) /\ e \in Seq(Call) /\ Rest \in Seq(Call)
      BY <1>1, <1>3, CallFacts, OnlyLetsGo
    <3>2. <<WorkerLoop>> \o (e \o Rest) = (<<WorkerLoop>> \o e) \o Rest
      BY ONLY <3>1, ConcatAssociative
    <3>. QED
      BY <1>6, <2>1, <3>2, Zenon
  <2>3. f \in Seq(Call) /\ \A c \in ToSet(f) : c.op /= "add"
    BY <2>1
  <2>4. \A i \in Ids : Touched(i)' => Touched(i) \/ (Top("add") /\ i = id)
    BY <1>11 DEF Add
  <2>. QED
    BY <1>1, <1>10, <2>2, <2>3, <2>4, CallStep
<1>13. ToSet(started') = ToSet(started) /\ Distinct(started')
  BY <1>10 DEF Life
<1>14. \A i \in Ids : ~Touched(i)' => status'[i] = "Done" /\ i \notin ToSet(inner') \cup Starting'
  BY <1>5, <1>7, <1>8, <1>9, <1>11 DEF Life, Waiting, WithStatus
<1>15. (Waiting' \cup ToSet(inner')) \cap (ToSet(started') \cup Starting') = {}
  BY <1>2, <1>7, <1>8, <1>9, <1>13 DEF Life, Touched
<1>16. ToSet(started') \subseteq listening' \ Starting'
  BY <1>9, <1>10, <1>13 DEF Life
<1>. QED
  BY <1>7, <1>12, <1>13, <1>14, <1>15, <1>16 DEF Life, Distinct, Touched

(* A request leaves inner to be started.                                   *)
LEMMA SetInProgressKeepsLife ==
    ASSUME Inv, SetInProgress
    PROVE  Life'
<1>. USE DEF Inv
<1>1. /\ Looping(Rest) /\ Rest \in Seq(LowerCall) /\ Rest \in Seq(Call)
      /\ inner \in Seq(Ids) /\ inner /= <<>> /\ calls /= <<>> /\ calls \in Seq(Call)
  BY OnTop DEF SetInProgress, Top, TypeOK
<1>2. PICK d : d = Rest /\ d \in Seq(LowerCall) /\ d \in Seq(Call)
  BY <1>1
<1>3. PICK i \in Ids : i = Head(inner)
  BY <1>1, TailOf
<1>4. /\ status' = [status EXCEPT ![i] = "InProgress"] /\ inner' = Tail(inner)
      /\ keys' = (IF status[i] = "Done" THEN Append(keys, i) ELSE keys)
      /\ calls' = <<FetchCall(i)>> \o (<<WorkerLoop>> \o d)
      /\ UNCHANGED <<listening, started, phase, outcome, cancelled>>
  BY <1>2, <1>3, DoOne DEF SetInProgress, FetchCall
<1>5. status'[i] = "InProgress" /\ \A j \in Ids \ {i} : status'[j] = status[j]
  BY <1>4 DEF TypeOK
<1>6. ToSet(inner) = {i} \cup ToSet(inner') /\ Distinct(inner') /\ i \notin ToSet(inner')
  BY <1>1, <1>3, <1>4, TailOf DEF Life
<1>7. Starting = {} /\ Starting' = {i}
  <2>1. calls = <<WorkerLoop>> \o d
    BY <1>1, <1>2 DEF Looping
  <2>2. d \in Seq(LowerCall)
    BY <1>2
  <2>3. StartingIn(<<WorkerLoop>> \o d) = {} /\ StartingIn(<<FetchCall(i)>> \o (<<WorkerLoop>> \o d)) = {i}
    BY <2>2, StartingInShapes
  <2>4. StartingIn(calls) = {}
    BY <2>1, <2>3, Zenon
  <2>5. StartingIn(calls') = {i}
    BY <1>4, <2>3, Zenon
  <2>. QED
    BY <2>4, <2>5 DEF Starting, StartingIn
<1>8. Waiting' = Waiting \ {i}
  BY <1>5 DEF Waiting, WithStatus
<1>9. Touched(i) /\ i \notin ToSet(started)
  BY <1>6 DEF Life
<1>10. \A j \in Ids : Touched(j)' <=> Touched(j)
  BY <1>4 DEF Touched
<1>11. /\ AddsOnce(calls)'
       /\ \A j \in ToAdd' : ~Touched(j)'
       /\ \A j \in Ids : phase'[j] = "first" /\ LoginPing[j] /= NoId =>
                ~Touched(LoginPing[j])' /\ LoginPing[j] \notin ToAdd'
  <2>1. /\ <<FetchCall(i)>> \in Seq(Call) /\ <<WorkerLoop>> \in Seq(Call)
        /\ ToSet(<<FetchCall(i)>>) = {FetchCall(i)} /\ ToSet(<<WorkerLoop>>) = {WorkerLoop}
    BY CallFacts DEF ToSet
  <2>2. d \in Seq(Call)
    BY <1>2
  <2>3. PICK f : /\ f = <<FetchCall(i)>> \o <<WorkerLoop>>
                 /\ f \in Seq(Call) /\ \A c \in ToSet(f) : c.op /= "add"
    <3>1. FetchCall(i) \in Call /\ <<WorkerLoop>> \in Seq(Call)
      BY <2>1, CallFacts
    <3>2. /\ <<FetchCall(i)>> \o <<WorkerLoop>> \in Seq(Call)
          /\ ToSet(<<FetchCall(i)>> \o <<WorkerLoop>>) = {FetchCall(i)} \cup ToSet(<<WorkerLoop>>)
      BY ONLY <3>1, OneInFront
    <3>3. FetchCall(i).op /= "add" /\ WorkerLoop.op /= "add"
      BY DEF FetchCall, WorkerLoop
    <3>4. \A c \in ToSet(<<FetchCall(i)>> \o <<WorkerLoop>>) : c.op /= "add"
      BY ONLY <2>1, <3>2, <3>3, Zenon
    <3>. QED
      BY ONLY <3>2, <3>4, Zenon
  <2>4. <<FetchCall(i)>> \o (<<WorkerLoop>> \o d) = (<<FetchCall(i)>> \o <<WorkerLoop>>) \o d
    BY ONLY <2>1, <2>2, ConcatAssociative
  <2>5. calls' = f \o Rest
    BY <1>2, <1>4, <2>3, <2>4, Zenon
  <2>6. f \in Seq(Call) /\ \A c \in ToSet(f) : c.op /= "add"
    BY <2>3
  <2>. QED
    BY <1>1, <1>4, <1>10, <2>5, <2>6, CallStep
<1>12. ToSet(started') = ToSet(started) /\ Distinct(started') /\ listening' = listening
  BY <1>4 DEF Life
<1>13. \A j \in Ids : ~Touched(j)' => status'[j] = "Done" /\ j \notin ToSet(inner') \cup Starting'
  BY <1>5, <1>6, <1>7, <1>9, <1>10 DEF Life
<1>14. (Waiting' \cup ToSet(inner')) \cap (ToSet(started') \cup Starting') = {}
  BY <1>6, <1>7, <1>8, <1>12 DEF Life
<1>15. ToSet(started') \subseteq listening' \ Starting'
  BY <1>7, <1>9, <1>12 DEF Life
<1>. QED
  BY <1>6, <1>11, <1>12, <1>13, <1>14, <1>15 DEF Life, Distinct, Touched

LEMMA NextUpdateKeepsLife ==
    ASSUME Inv, NextUpdate
    PROVE  Life'
<1>. USE DEF Inv
<1>1. /\ Looping(Rest) /\ Rest \in Seq(LowerCall) /\ Rest \in Seq(Call) /\ calls /= <<>>
      /\ Head(calls) = WorkerLoop /\ calls \in Seq(Call) /\ inner = <<>>
      /\ UNCHANGED <<keys, status, listening, started, phase, outcome, cancelled>>
  BY OnTop DEF NextUpdate, Top
<1>2. /\ keys \in Seq(Ids) /\ status \in [Ids -> Statuses] /\ Distinct(keys)
      /\ ToSet(keys) = {i \in Ids : status[i] /= "Done"} /\ buffer \in Seq(Nat)
  BY DEF TypeOK, KeysOK
<1>3. ToSet(inner') \subseteq Waiting /\ Distinct(inner')
  <2>1. CASE buffer = <<>>
    <3>1. inner' = <<>>
      BY <1>1, <2>1 DEF NextUpdate
    <3>. QED
      BY <3>1 DEF ToSet, Distinct
  <2>2. CASE buffer /= <<>>
    <3>1. inner' = ToStart(keys, status, Head(buffer)) /\ Head(buffer) \in Nat
      BY <1>2, <2>2, TailOf DEF NextUpdate
    <3>2. /\ ToSet(ToStart(keys, status, Head(buffer))) \subseteq WithStatus("Pending", status)
          /\ Distinct(ToStart(keys, status, Head(buffer)))
      BY <1>2, <3>1, StartedByUpdate
    <3>. QED
      BY <3>1, <3>2 DEF Waiting, Distinct
  <2>. QED
    BY <2>1, <2>2
<1>4. PICK d : d = Rest /\ d \in Seq(LowerCall) /\ d \in Seq(Call)
  BY <1>1
<1>5. calls = <<WorkerLoop>> \o d
  BY <1>1, <1>4 DEF Looping
<1>6. calls' = calls \/ calls' = d
  BY <1>4 DEF NextUpdate
<1>7. Starting = {} /\ Starting' = {}
  <2>1. d \in Seq(LowerCall)
    BY <1>4
  <2>2. StartingIn(<<WorkerLoop>> \o d) = {} /\ StartingIn(d) = {}
    BY <2>1, StartingInShapes
  <2>3. StartingIn(calls) = {}
    BY <1>5, <2>2, Zenon
  <2>4. StartingIn(calls') = {}
    BY <1>6, <2>2, <2>3, Zenon
  <2>. QED
    BY <2>3, <2>4 DEF Starting, StartingIn
<1>8. \A i \in Ids : Touched(i)' <=> Touched(i)
  BY <1>1 DEF Touched
<1>9. /\ AddsOnce(calls)'
      /\ \A i \in ToAdd' : ~Touched(i)'
      /\ \A i \in Ids : phase'[i] = "first" /\ LoginPing[i] /= NoId =>
               ~Touched(LoginPing[i])' /\ LoginPing[i] \notin ToAdd'
  <2>1. PICK f : calls' = f \o Rest /\ f \in Seq(Call) /\ \A c \in ToSet(f) : c.op /= "add"
    <3>1. CASE calls' = calls
      <4>1. <<WorkerLoop>> \in Seq(Call) /\ ToSet(<<WorkerLoop>>) = {WorkerLoop}
        BY CallFacts DEF ToSet
      <4>2. calls' = <<WorkerLoop>> \o Rest
        BY <1>4, <1>5, <3>1, Zenon
      <4>3. \A c \in ToSet(<<WorkerLoop>>) : c.op /= "add"
        BY <4>1 DEF WorkerLoop
      <4>. QED
        BY <4>1, <4>2, <4>3, Zenon
    <3>2. CASE calls' = d
      <4>1. d \in Seq(Call)
        BY <1>4
      <4>2. <<>> \in Seq(Call) /\ <<>> \o d = d /\ \A c \in ToSet(<<>>) : c.op /= "add"
        BY ONLY <4>1, ConcatEmptySeq DEF ToSet
      <4>. QED
        BY <1>4, <3>2, <4>2, Zenon
    <3>. QED
      BY <1>6, <3>1, <3>2
  <2>2. f \in Seq(Call) /\ \A c \in ToSet(f) : c.op /= "add"
    BY <2>1
  <2>3. calls' = f \o Rest
    BY <2>1
  <2>. QED
    BY <1>1, <1>8, <2>2, <2>3, CallStep
<1>10. /\ ToSet(started') = ToSet(started) /\ Distinct(started') /\ listening' = listening
       /\ Waiting' = Waiting
  BY <1>1 DEF Life, Waiting
<1>11. \A i \in Ids : ~Touched(i)' => status'[i] = "Done" /\ i \notin ToSet(inner') \cup Starting'
  BY <1>1, <1>3, <1>7, <1>8 DEF Life, Waiting, WithStatus
<1>12. (Waiting' \cup ToSet(inner')) \cap (ToSet(started') \cup Starting') = {}
  BY <1>3, <1>7, <1>10 DEF Life
<1>13. ToSet(started') \subseteq listening' \ Starting'
  BY <1>7, <1>10 DEF Life
<1>. QED
  BY <1>3, <1>9, <1>10, <1>11, <1>12, <1>13 DEF Life, Distinct, Touched

(* The request stays the one that is being started.                        *)
LEMMA FetchKeepsLife ==
    ASSUME Inv, Fetch
    PROVE  Life'
<1>. USE DEF Inv
<1>1. PICK d, older :
                /\ d \in Seq(LowerCall)
                /\ id \in Ids /\ Fetching(id, d) /\ Rest = <<WorkerLoop>> \o d
                /\ Do("cancel", older) \in Seq(LetGoCall)
                /\ calls' = Do("cancel", older) \o (<<SubscribeCall(id)>> \o (<<WorkerLoop>> \o d))
  BY FetchEffects
<1>2. PICK j, w, e : /\ j = id /\ j \in Ids /\ w = Do("cancel", older) /\ w \in Seq(LetGoCall)
                     /\ e = d /\ e \in Seq(LowerCall)
  BY <1>1
<1>3. calls' = w \o (<<SubscribeCall(j)>> \o (<<WorkerLoop>> \o e)) /\ Rest = <<WorkerLoop>> \o e
  BY <1>1, <1>2
<1>4. j \in Ids /\ w \in Seq(LetGoCall) /\ e \in Seq(LowerCall)
  BY <1>2
<1>5. calls = <<FetchCall(j)>> \o (<<WorkerLoop>> \o e)
  BY <1>1, <1>2 DEF Fetching
<1>6. UNCHANGED <<keys, status, inner, buffer, listening, started, phase, outcome, cancelled>>
  BY DEF Fetch
<1>7. Starting = {j} /\ Starting' = {j}
  <2>1. /\ StartingIn(<<FetchCall(j)>> \o (<<WorkerLoop>> \o e)) = {j}
        /\ StartingIn(w \o (<<SubscribeCall(j)>> \o (<<WorkerLoop>> \o e))) = {j}
    BY ONLY <1>4, StartingInShapes
  <2>2. StartingIn(calls) = {j}
    BY <1>5, <2>1, Zenon
  <2>3. StartingIn(calls') = {j}
    BY <1>3, <2>1, Zenon
  <2>. QED
    BY <2>2, <2>3 DEF Starting, StartingIn
<1>8. /\ AddsOnce(calls)'
      /\ \A i \in ToAdd' : ~Touched(i)'
      /\ \A i \in Ids : phase'[i] = "first" /\ LoginPing[i] /= NoId =>
               ~Touched(LoginPing[i])' /\ LoginPing[i] \notin ToAdd'
  <2>1. /\ SubscribeCall(j) \in Call /\ <<SubscribeCall(j)>> \in Seq(Call)
        /\ ToSet(<<SubscribeCall(j)>>) = {SubscribeCall(j)}
    BY <1>4, CallFacts DEF ToSet
  <2>2. w \in Seq(Call) /\ \A c \in ToSet(w) : c.op /= "add"
    BY <1>4, OnlyLetsGo
  <2>3. <<SubscribeCall(j)>> \in Seq(Call) /\ <<WorkerLoop>> \o e \in Seq(Call)
    BY <1>4, <2>1, ShapeFacts
  <2>4. PICK o : o = <<SubscribeCall(j)>> /\ o \in Seq(Call) /\ ToSet(o) = {SubscribeCall(j)}
    BY <2>1
  <2>5. w \in Seq(Call) /\ o \in Seq(Call)
    BY <2>2, <2>4
  <2>6. w \o o \in Seq(Call) /\ ToSet(w \o o) = ToSet(w) \cup ToSet(o)
    BY ONLY <2>5, Concatenated
  <2>6a. \A c : c = SubscribeCall(j) => c.op /= "add"
    BY DEF SubscribeCall
  <2>6b. \A c \in ToSet(w \o o) : c.op /= "add"
    <3>. SUFFICES ASSUME NEW c, c \in ToSet(w \o o) PROVE c.op /= "add"
      OBVIOUS
    <3>1. c \in ToSet(w) \/ c = SubscribeCall(j)
      BY <2>4, <2>6, Zenon
    <3>2. \A b \in ToSet(w) : b.op /= "add"
      BY <2>2
    <3>. QED
      BY ONLY <2>6a, <3>1, <3>2, Zenon
  <2>7. PICK u : u = <<WorkerLoop>> \o e /\ u \in Seq(Call)
    BY <2>3
  <2>7a. w \in Seq(Call) /\ o \in Seq(Call) /\ u \in Seq(Call)
    BY ONLY <2>5, <2>7, Zenon
  <2>7b. w \o (o \o u) = (w \o o) \o u
    BY ONLY <2>7a, CallsConcat, Zenon
  <2>8. PICK f : calls' = f \o Rest /\ f \in Seq(Call) /\ \A c \in ToSet(f) : c.op /= "add"
    BY <1>3, <2>4, <2>6, <2>6b, <2>7, <2>7b, Zenon
  <2>9. f \in Seq(Call) /\ \A c \in ToSet(f) : c.op /= "add"
    BY <2>8
  <2>10. calls' = f \o Rest
    BY <2>8
  <2>11. \A i \in Ids : Touched(i)' => Touched(i)
    BY <1>6 DEF Touched
  <2>12. calls /= <<>> /\ UNCHANGED phase
    BY DEF Fetch, Top
  <2>. QED
    BY <2>9, <2>10, <2>11, <2>12, CallStep
<1>. QED
  BY <1>6, <1>7, <1>8 DEF Life, Waiting, Touched, Distinct

(* Unless its observer has gone, the request is underway from now on.      *)
LEMMA SubscribeKeepsLife ==
    ASSUME Inv, Subscribe
    PROVE  Life'
<1>. USE DEF Inv
<1>1. /\ id \in Ids /\ calls /= <<>> /\ started \in Seq(Ids) /\ Distinct(started)
      /\ \E d \in Seq(LowerCall) : LettingGo(<<>>, id, d) /\ Rest = <<WorkerLoop>> \o d
  BY OnTop DEF Subscribe, Top, TypeOK, Life
<1>2. PICK j, d : /\ j = id /\ j \in Ids /\ d \in Seq(LowerCall)
                  /\ LettingGo(<<>>, j, d) /\ Rest = <<WorkerLoop>> \o d
  BY <1>1
<1>3. j \in Ids /\ d \in Seq(LowerCall) /\ <<>> \in Seq(LetGoCall)
  BY <1>2
<1>4. calls = <<>> \o (<<SubscribeCall(j)>> \o (<<WorkerLoop>> \o d)) /\ calls' = <<WorkerLoop>> \o d
  BY <1>2 DEF LettingGo, Subscribe
<1>5. Starting = {j} /\ Starting' = {}
  <2>0. /\ StartingIn(<<WorkerLoop>> \o d) = {}
        /\ \A i \in Ids, w \in Seq(LetGoCall) :
              StartingIn(w \o (<<SubscribeCall(i)>> \o (<<WorkerLoop>> \o d))) = {i}
    BY ONLY <1>3, StartingInShapes
  <2>1. StartingIn(<<>> \o (<<SubscribeCall(j)>> \o (<<WorkerLoop>> \o d))) = {j}
    BY ONLY <1>3, <2>0, Zenon
  <2>2. StartingIn(calls) = {j}
    BY <1>4, <2>1, Zenon
  <2>3. StartingIn(calls') = {}
    BY <1>4, <2>0, Zenon
  <2>. QED
    BY <2>2, <2>3 DEF Starting, StartingIn
<1>6. UNCHANGED <<keys, status, inner, buffer, listening, phase, outcome, cancelled>>
  BY DEF Subscribe
<1>7. j \notin ToSet(started)
  BY <1>5 DEF Life
<1>8. /\ ToSet(started') \subseteq ToSet(started) \cup {j} /\ Distinct(started')
      /\ ToSet(started') \subseteq listening
  <2>1. CASE j \in listening
    BY <1>1, <1>2, <1>7, <2>1, SetOfAppend DEF Subscribe, Life
  <2>2. CASE j \notin listening
    BY <1>1, <1>2, <2>2 DEF Subscribe, Life
  <2>. QED
    BY <2>1, <2>2
<1>9. /\ AddsOnce(calls)'
      /\ \A i \in ToAdd' : ~Touched(i)'
      /\ \A i \in Ids : phase'[i] = "first" /\ LoginPing[i] /= NoId =>
               ~Touched(LoginPing[i])' /\ LoginPing[i] \notin ToAdd'
  <2>1. <<WorkerLoop>> \o d \in Seq(Call)
    BY <1>3, ShapeFacts
  <2>2. calls' = <<>> \o Rest
    <3>1. <<>> \o (<<WorkerLoop>> \o d) = <<WorkerLoop>> \o d
      BY ONLY <2>1, ConcatEmptySeq
    <3>. QED
      BY <1>2, <1>4, <3>1, Zenon
  <2>3. <<>> \in Seq(Call) /\ \A c \in ToSet(<<>>) : c.op /= "add"
    BY DEF ToSet
  <2>4. \A i \in Ids : Touched(i)' => Touched(i)
    BY <1>6 DEF Touched
  <2>. QED
    BY <1>1, <1>6, <2>2, <2>3, <2>4, CallStep
<1>10. (Waiting' \cup ToSet(inner')) \cap (ToSet(started') \cup Starting') = {}
  BY <1>5, <1>6, <1>8 DEF Life, Waiting
<1>. QED
  BY <1>5, <1>6, <1>8, <1>9, <1>10 DEF Life, Touched, Distinct

(* The calls that let go of requests leave alone what is being started.    *)
LEMMA StillStarting ==
    ASSUME Shape, calls /= <<>>, NEW op, op \in {"cancel", "setDone"}, Top(op),
           NEW f, f \in Seq(LetGoCall), calls' = f \o Rest
    PROVE  Starting' = Starting
<1>1. CASE Idle /\ Rest \in Seq(LowerCall)
  <2>1. f \in Seq(LowerCall) /\ Rest \in Seq(LowerCall)
    BY <1>1, CallFacts
  <2>2. f \o Rest \in Seq(LowerCall)
    BY ONLY <2>1, Concatenated
  <2>3. calls \in Seq(LowerCall)
    BY <1>1 DEF Idle
  <2>4. StartingIn(f \o Rest) = {} /\ StartingIn(calls) = {}
    BY ONLY <2>2, <2>3, StartingInShapes
  <2>5. StartingIn(calls') = {}
    BY <2>4, Zenon
  <2>. QED
    BY <2>4, <2>5 DEF Starting, StartingIn
<1>2. CASE \E j \in Ids, d \in Seq(LowerCall), w \in Seq(LetGoCall) :
                /\ w /= <<>> /\ LettingGo(w, j, d) /\ Head(w) = Head(calls)
                /\ Tail(w) \in Seq(LetGoCall)
                /\ Rest = Tail(w) \o (<<SubscribeCall(j)>> \o (<<WorkerLoop>> \o d))
  <2>1. PICK j, d, w : /\ j \in Ids /\ d \in Seq(LowerCall) /\ w \in Seq(LetGoCall)
                       /\ LettingGo(w, j, d) /\ Tail(w) \in Seq(LetGoCall)
                       /\ Rest = Tail(w) \o (<<SubscribeCall(j)>> \o (<<WorkerLoop>> \o d))
    BY <1>2
  <2>2. PICK t : t = Tail(w) /\ t \in Seq(LetGoCall)
    BY <2>1
  <2>3. PICK u : u = <<SubscribeCall(j)>> \o (<<WorkerLoop>> \o d) /\ u \in Seq(Call)
    BY <2>1, ShapeFacts
  <2>4. f \in Seq(Call) /\ t \in Seq(Call) /\ u \in Seq(Call)
    BY <2>2, <2>3, CallFacts
  <2>5. f \o (t \o u) = (f \o t) \o u
    BY ONLY <2>4, CallsConcat, Zenon
  <2>6. f \in Seq(LetGoCall) /\ t \in Seq(LetGoCall)
    BY <2>2
  <2>7. PICK v : v = f \o t /\ v \in Seq(LetGoCall)
    <3>1. f \o t \in Seq(LetGoCall)
      BY ONLY <2>6, Concatenated
    <3>. QED
      BY ONLY <3>1, Zenon
  <2>8. calls' = v \o (<<SubscribeCall(j)>> \o (<<WorkerLoop>> \o d))
    BY <2>1, <2>2, <2>3, <2>5, <2>7, Zenon
  <2>9. calls = w \o (<<SubscribeCall(j)>> \o (<<WorkerLoop>> \o d))
    BY <2>1 DEF LettingGo
  <2>10. d \in Seq(LowerCall) /\ j \in Ids /\ w \in Seq(LetGoCall) /\ v \in Seq(LetGoCall)
    BY <2>1, <2>7
  <2>11. /\ StartingIn(v \o (<<SubscribeCall(j)>> \o (<<WorkerLoop>> \o d))) = {j}
         /\ StartingIn(w \o (<<SubscribeCall(j)>> \o (<<WorkerLoop>> \o d))) = {j}
    BY ONLY <2>10, StartingInShapes
  <2>12. StartingIn(calls') = {j} /\ StartingIn(calls) = {j}
    BY <2>8, <2>9, <2>11, Zenon
  <2>. QED
    BY <2>12 DEF Starting, StartingIn
<1>. QED
  BY <1>1, <1>2, OnTop

LEMMA CancelKeepsLife ==
    ASSUME Inv, Cancel
    PROVE  Life'
<1>. USE DEF Inv
<1>1. /\ id \in Ids /\ calls /= <<>> /\ started \in Seq(Ids) /\ Distinct(started)
      /\ outcome \in [Ids -> Outcomes] /\ Rest \in Seq(Call) /\ Top("cancel")
  BY OnTop DEF Cancel, Top, TypeOK, Life
<1>2. PICK f : f \in Seq(LetGoCall) /\ calls' = f \o Rest
  <2>1. CASE Contains(started, id)
    <3>1. LetGo(id) \in Seq(LetGoCall) /\ calls' = LetGo(id) \o Rest
      BY <1>1, <2>1, SiblingsAre DEF Cancel
    <3>. QED
      BY <3>1
  <2>2. CASE ~Contains(started, id)
    <3>1. Rest \in Seq(Call) /\ calls' = Rest
      BY <1>1, <2>2 DEF Cancel
    <3>2. <<>> \in Seq(LetGoCall) /\ <<>> \o Rest = Rest
      BY <3>1, ConcatEmptySeq
    <3>. QED
      BY <3>1, <3>2
  <2>. QED
    BY <2>1, <2>2
<1>3. Starting' = Starting
  BY <1>1, <1>2, StillStarting
<1>4. /\ ToSet(started') \subseteq ToSet(started) /\ Distinct(started')
      /\ \A i \in Ids : outcome'[i] /= outcome[i] => i \in ToSet(started) /\ outcome'[i] = "cancelled"
  <2>1. CASE Contains(started, id)
    <3>1. ToSet(started') \subseteq ToSet(started) /\ Distinct(started')
      BY <1>1, <2>1, RemovedFirst DEF Cancel, Distinct
    <3>2. id \in ToSet(started) /\ outcome' = [outcome EXCEPT ![id] = "cancelled"]
      BY <1>1, <2>1, SetOfSeq DEF Cancel
    <3>. QED
      BY <1>1, <3>1, <3>2
  <2>2. CASE ~Contains(started, id)
    BY <1>1, <2>2 DEF Cancel, Distinct
  <2>. QED
    BY <2>1, <2>2
<1>5. UNCHANGED <<keys, status, inner, buffer, listening, phase>>
  BY DEF Cancel
<1>6. \A i \in Ids : Touched(i)' <=> Touched(i)
  BY <1>4, <1>5 DEF Touched, Life
<1>7. /\ AddsOnce(calls)'
      /\ \A i \in ToAdd' : ~Touched(i)'
      /\ \A i \in Ids : phase'[i] = "first" /\ LoginPing[i] /= NoId =>
               ~Touched(LoginPing[i])' /\ LoginPing[i] \notin ToAdd'
  <2>1. f \in Seq(Call) /\ \A c \in ToSet(f) : c.op /= "add"
    BY <1>2, OnlyLetsGo
  <2>. QED
    BY <1>1, <1>2, <1>5, <1>6, <2>1, CallStep
<1>8. (Waiting' \cup ToSet(inner')) \cap (ToSet(started') \cup Starting') = {}
  BY <1>3, <1>4, <1>5 DEF Life, Waiting
<1>9. \A i \in Ids : ~Touched(i)' => status'[i] = "Done" /\ i \notin ToSet(inner') \cup Starting'
  BY <1>3, <1>5, <1>6 DEF Life
<1>10. ToSet(started') \subseteq listening' \ Starting' /\ Distinct(inner')
  BY <1>3, <1>4, <1>5 DEF Life, Distinct
<1>. QED
  BY <1>4, <1>7, <1>8, <1>9, <1>10 DEF Life, Touched, Distinct

LEMMA SetDoneKeepsLife ==
    ASSUME Inv, SetDone
    PROVE  Life'
<1>. USE DEF Inv
<1>1. /\ id \in Ids /\ calls /= <<>> /\ started \in Seq(Ids) /\ Distinct(started)
      /\ outcome \in [Ids -> Outcomes] /\ Rest \in Seq(Call) /\ Top("setDone")
  BY OnTop DEF SetDone, Top, TypeOK, Life
<1>2. \/ calls' = Rest /\ inner' = inner
      \/ /\ calls' = <<WorkerLoop>> \o Rest /\ ~Contains(Rest, WorkerLoop)
         /\ inner' = ToStart(keys', status', Cardinality(WithStatus("InProgress", status')))
         /\ id \in listening
  BY DEF SetDone, Publish
<1>3. /\ ToSet(started') \subseteq ToSet(started) /\ Distinct(started')
      /\ ToSet(started') \subseteq listening'
  <2>1. CASE id \in listening
    BY <1>1, <2>1, RemovedFirst DEF SetDone, Life, Distinct
  <2>2. CASE id \notin listening
    BY <1>1, <2>2 DEF SetDone, Life, Distinct
  <2>. QED
    BY <2>1, <2>2
<1>4. /\ \A i \in Ids : Touched(i)' <=> Touched(i)
      /\ \A i \in Ids : status'[i] = status[i] \/ status'[i] = "Done"
      /\ UNCHANGED phase
  BY <1>1 DEF SetDone, Touched, TypeOK
<1>5. ToSet(inner') \subseteq Waiting' \cup ToSet(inner) /\ Distinct(inner')
  <2>1. CASE inner' = inner
    BY <2>1 DEF Life, Distinct
  <2>2. CASE /\ inner' = ToStart(keys', status', Cardinality(WithStatus("InProgress", status')))
             /\ id \in listening
    <3>1. /\ keys' \in Seq(Ids) /\ status' \in [Ids -> Statuses] /\ KeysOK'
      BY <1>1, <2>2, Removed DEF SetDone
    <3>2. Cardinality(WithStatus("InProgress", status')) \in Nat
      BY <3>1, StatusSets DEF KeysOK
    <3>3. /\ ToSet(ToStart(keys', status', Cardinality(WithStatus("InProgress", status'))))
                    \subseteq WithStatus("Pending", status')
          /\ Distinct(ToStart(keys', status', Cardinality(WithStatus("InProgress", status'))))
      BY <3>1, <3>2, StartedByUpdate DEF KeysOK
    <3>. QED
      BY <2>2, <3>3 DEF Waiting, Distinct
  <2>. QED
    BY <1>2, <2>1, <2>2
<1>6. Waiting' \subseteq Waiting
  BY <1>4 DEF Waiting, WithStatus
<1>7. PICK d : d = Rest /\ d \in Seq(Call)
  BY <1>1
<1>8. Starting' = Starting
  <2>1. CASE calls' = Rest
    <3>1. d \in Seq(Call)
      BY <1>7
    <3>2. <<>> \o d = d /\ <<>> \in Seq(LetGoCall)
      BY ONLY <3>1, ConcatEmptySeq
    <3>3. calls' = <<>> \o Rest /\ <<>> \in Seq(LetGoCall)
      BY <1>7, <2>1, <3>2, Zenon
    <3>. QED
      BY <1>1, <3>3, StillStarting
  <2>2. CASE calls' = <<WorkerLoop>> \o Rest /\ ~Contains(Rest, WorkerLoop)
    <3>1. Idle /\ Rest \in Seq(LowerCall)
      <4>1. ASSUME NEW j \in Ids, NEW e \in Seq(LowerCall), NEW t \in Seq(LetGoCall),
                   Rest = t \o (<<SubscribeCall(j)>> \o (<<WorkerLoop>> \o e))
            PROVE  FALSE
        <5>1. t \in Seq(Call)
          BY CallFacts
        <5>2. WorkerLoop \in ToSet(Rest)
          BY <4>1, <5>1, LoopBelow
        <5>. QED
          BY <1>1, <2>2, <5>2, SetOfSeq
      <4>. QED
        BY <1>1, <4>1, OnTop
    <3>2. d \in Seq(LowerCall) /\ calls \in Seq(LowerCall)
      BY <1>7, <3>1 DEF Idle
    <3>3. StartingIn(<<WorkerLoop>> \o d) = {} /\ StartingIn(calls) = {}
      BY ONLY <3>2, StartingInShapes
    <3>4. StartingIn(calls') = {}
      BY <1>7, <2>2, <3>3, Zenon
    <3>. QED
      BY <3>3, <3>4 DEF Starting, StartingIn
  <2>. QED
    BY <1>2, <2>1, <2>2
<1>9. /\ AddsOnce(calls)'
      /\ \A i \in ToAdd' : ~Touched(i)'
      /\ \A i \in Ids : phase'[i] = "first" /\ LoginPing[i] /= NoId =>
               ~Touched(LoginPing[i])' /\ LoginPing[i] \notin ToAdd'
  <2>1. PICK f : calls' = f \o Rest /\ f \in Seq(Call) /\ \A c \in ToSet(f) : c.op /= "add"
    <3>1. CASE calls' = <<WorkerLoop>> \o Rest
      <4>1. <<WorkerLoop>> \in Seq(Call) /\ ToSet(<<WorkerLoop>>) = {WorkerLoop}
        BY CallFacts DEF ToSet
      <4>2. \A c \in ToSet(<<WorkerLoop>>) : c.op /= "add"
        BY <4>1 DEF WorkerLoop
      <4>. QED
        BY <3>1, <4>1, <4>2, Zenon
    <3>2. CASE calls' = Rest
      <4>1. d \in Seq(Call)
        BY <1>7
      <4>2. <<>> \in Seq(Call) /\ <<>> \o d = d /\ \A c \in ToSet(<<>>) : c.op /= "add"
        BY ONLY <4>1, ConcatEmptySeq DEF ToSet
      <4>. QED
        BY <1>7, <3>2, <4>2, Zenon
    <3>. QED
      BY <1>2, <3>1, <3>2
  <2>2. f \in Seq(Call) /\ \A c \in ToSet(f) : c.op /= "add"
    BY <2>1
  <2>3. calls' = f \o Rest
    BY <2>1
  <2>. QED
    BY <1>1, <1>4, <2>2, <2>3, CallStep
<1>10. (Waiting' \cup ToSet(inner')) \cap (ToSet(started') \cup Starting') = {}
  BY <1>3, <1>5, <1>6, <1>8 DEF Life
<1>11. \A i \in Ids : ~Touched(i)' => status'[i] = "Done" /\ i \notin ToSet(inner') \cup Starting'
  <2>. SUFFICES ASSUME NEW i \in Ids, ~Touched(i)'
                PROVE  status'[i] = "Done" /\ i \notin ToSet(inner') \cup Starting'
    OBVIOUS
  <2>1. ~Touched(i)
    BY <1>4
  <2>2. status[i] = "Done" /\ i \notin ToSet(inner) \cup Starting
    BY <2>1 DEF Life
  <2>3. status'[i] = "Done"
    BY <1>4, <2>2
  <2>4. i \notin Waiting'
    BY <2>3 DEF Waiting, WithStatus
  <2>. QED
    BY <1>5, <1>8, <2>2, <2>3, <2>4
<1>12. ToSet(started') \subseteq listening' \ Starting'
  BY <1>3, <1>8 DEF Life
<1>. QED
  BY <1>3, <1>5, <1>9, <1>10, <1>11, <1>12 DEF Life, Touched, Distinct

LEMMA EventKeepsLife ==
    ASSUME Inv, Events
    PROVE  Life'
<1>. USE DEF Inv
<1>1. calls = <<>> /\ UNCHANGED <<keys, status, inner, buffer, listening, started, cancelled>>
  BY EventEffects
<1>2. calls' \in Seq(LowerCall) /\ calls \in Seq(LowerCall)
  BY <1>1, BeganAs
<1>3. Starting = {} /\ Starting' = {}
  <2>1. StartingIn(calls) = {} /\ StartingIn(calls') = {}
    BY <1>2, StartingInShapes
  <2>. QED
    BY <2>1 DEF Starting, StartingIn
<1>4. ToSet(started) \subseteq Ids /\ outcome \in [Ids -> Outcomes] /\ phase \in [Ids -> Phases]
  BY SetOfSeq DEF TypeOK
<1>5. /\ (Waiting' \cup ToSet(inner')) \cap (ToSet(started') \cup Starting') = {}
      /\ ToSet(started') \subseteq listening' \ Starting'
      /\ Distinct(started') /\ Distinct(inner')
  BY <1>1, <1>3 DEF Life, Waiting, Distinct
<1>. DEFINE Added == /\ AddsOnce(calls)'
                     /\ \A i \in ToAdd' : ~Touched(i)'
                     /\ \A i \in Ids : phase'[i] = "first" /\ LoginPing[i] /= NoId =>
                              ~Touched(LoginPing[i])' /\ LoginPing[i] \notin ToAdd'
<1>6. ASSUME NEW c \in Consumers, Requesting(c)
      PROVE  (\A i \in Ids : Touched(i)' <=> Touched(i)) /\ Added
  <2>1. calls' = Do("add", CallsOf[c]) /\ UNCHANGED <<phase, outcome>> /\ Untouched(c)
    BY <1>6 DEF Requesting
  <2>2. \A i \in Ids : Touched(i)' <=> Touched(i)
    BY <1>1, <2>1 DEF Touched
  <2>3. PICK s : s = CallsOf[c] /\ s \in Seq(Ids) /\ Distinct(s)
    BY ConsumerAssumption, CallAssumption DEF Distinct
  <2>4. s \in Seq(Ids) /\ Ids \in SUBSET Ids
    BY <2>3
  <2>5. ToSet(Do("add", s)) = {[op |-> "add", id |-> i] : i \in ToSet(s)} /\ (Distinct(s) => Distinct(Do("add", s)))
    BY ONLY <2>4, DoIs
  <2>6. ToAdd' = ToSet(s)
    <3>1. ToSet(s) \subseteq Ids
      BY <2>3, SetOfSeq
    <3>2. ToSet(calls') = {AddCall(i) : i \in ToSet(s)}
      BY <2>1, <2>3, <2>5 DEF AddCall
    <3>. QED
      BY <3>1, <3>2 DEF ToAdd, AddCall
  <2>7. AddsOnce(calls)'
    BY <2>1, <2>3, <2>5 DEF AddsOnce, Distinct
  <2>8. \A i \in ToSet(s) : ~Touched(i)
    BY <2>1, <2>3 DEF Untouched, Touched, ToSet
  <2>9. \A i \in ToAdd' : ~Touched(i)'
    BY <2>2, <2>6, <2>8 DEF ToAdd
  <2>10. ASSUME NEW i \in Ids, phase'[i] = "first", LoginPing[i] /= NoId
         PROVE  ~Touched(LoginPing[i])' /\ LoginPing[i] \notin ToAdd'
    <3>1. LoginPing[i] \in Ids /\ ~Contains(CallsOf[c], LoginPing[i])
      BY <2>10, OptionsAssumption, CallAssumption
    <3>2. LoginPing[i] \notin ToSet(s)
      BY <2>3, <3>1, SetOfSeq
    <3>3. ~Touched(LoginPing[i])
      BY <2>1, <2>10 DEF Life
    <3>. QED
      BY <2>2, <2>6, <3>1, <3>2, <3>3
  <2>. QED
    BY <2>2, <2>7, <2>9, <2>10
<1>7. ASSUME NEW i \in Ids, Pinging(i)
      PROVE  (\A k \in Ids : Touched(k)' <=> Touched(k)) /\ Added
  <2>1. /\ phase[i] = "first" /\ LoginPing[i] /= NoId /\ LoginPing[i] \in Ids
        /\ calls' = <<AddCall(LoginPing[i])>>
        /\ phase' = [phase EXCEPT ![i] = "login"] /\ UNCHANGED outcome
    BY <1>7, DoOne, OptionsAssumption DEF Pinging, AddCall
  <2>2. \A k \in Ids : Touched(k)' <=> Touched(k)
    BY <1>1, <2>1 DEF Touched
  <2>3. ToAdd' = {LoginPing[i]}
    <3>1. ToSet(calls') = {AddCall(LoginPing[i])}
      BY <2>1 DEF ToSet
    <3>. QED
      BY <2>1, <3>1 DEF ToAdd, AddCall
  <2>4. AddsOnce(calls)'
    BY <2>1 DEF AddsOnce
  <2>5. ~Touched(LoginPing[i])
    BY <2>1 DEF Life
  <2>6. ASSUME NEW k \in Ids, phase'[k] = "first", LoginPing[k] /= NoId
        PROVE  ~Touched(LoginPing[k])' /\ LoginPing[k] \notin ToAdd'
    <3>1. k /= i /\ phase[k] = "first" /\ LoginPing[k] \in Ids
      BY <1>4, <2>1, <2>6, OptionsAssumption
    <3>2. LoginPing[k] /= LoginPing[i]
      BY <2>6, <3>1, CallAssumption
    <3>3. ~Touched(LoginPing[k])
      BY <2>6, <3>1 DEF Life
    <3>. QED
      BY <2>2, <2>3, <3>1, <3>2, <3>3
  <2>. QED
    BY <2>1, <2>2, <2>3, <2>4, <2>5, <2>6
<1>8. ASSUME Ending
      PROVE  (\A i \in Ids : Touched(i)' <=> Touched(i)) /\ Added
  <2>1. \A i \in Ids : Touched(i)' <=> Touched(i)
    BY <1>1, <1>4, <1>8 DEF Ending, Touched, Life
  <2>2. calls' \in Seq(Call) /\ \A c \in ToSet(calls') : c.op /= "add"
    BY <1>8, OnlyLetsGo DEF Ending
  <2>3. AddsOnce(calls)'
    BY <2>2 DEF AddsOnce, ToSet
  <2>4. ToAdd' = {}
    BY <2>2 DEF ToAdd, AddCall
  <2>5. \A i \in Ids : phase'[i] = "first" => phase[i] = "first"
    BY <1>4, <1>8 DEF Ending
  <2>6. ASSUME NEW i \in Ids, phase'[i] = "first", LoginPing[i] /= NoId
        PROVE  ~Touched(LoginPing[i])' /\ LoginPing[i] \notin ToAdd'
    <3>1. LoginPing[i] \in Ids /\ ~Touched(LoginPing[i])
      BY <2>5, <2>6, OptionsAssumption DEF Life
    <3>. QED
      BY <2>1, <2>4, <3>1
  <2>. QED
    BY <2>1, <2>3, <2>4, <2>6
<1>. HIDE DEF Added
<1>9. (\A i \in Ids : Touched(i)' <=> Touched(i)) /\ Added
  BY <1>6, <1>7, <1>8, EventEffects
<1>10. \A i \in Ids : ~Touched(i)' => status'[i] = "Done" /\ i \notin ToSet(inner') \cup Starting'
  BY <1>1, <1>3, <1>9 DEF Life
<1>. QED
  BY <1>5, <1>9, <1>10 DEF Added, Life, Touched, Distinct

-----------------------------------------------------------------------------
(* The invariant holds                                                     *)

LEMMA InvAtInit ==
    ASSUME Init
    PROVE  Inv
<1>. USE DEF Init
<1>1. TypeOK
  BY DEF TypeOK, Statuses, Phases, Outcomes
<1>2. Shape
  BY DEF Shape, Idle
<1>3. KeysOK
  BY DEF KeysOK, Distinct, ToSet
<1>4. UpToDate
  BY DEF UpToDate, Waiting, WithStatus
<1>5. Starting = {} /\ ToAdd = {} /\ ToSet(started) = {} /\ ToSet(inner) = {}
  BY DEF Starting, StartingIn, ToAdd, ToSet
<1>6. \A i \in Ids : ~Touched(i)
  BY DEF Touched
<1>7. \A i \in Ids : LoginPing[i] /= NoId => LoginPing[i] \in Ids
  BY OptionsAssumption
<1>8. Life
  BY <1>5, <1>6, <1>7 DEF Life, AddsOnce, Distinct, Waiting, WithStatus
<1>. QED
  BY <1>1, <1>2, <1>3, <1>4, <1>8 DEF Inv

LEMMA InvStep ==
    ASSUME Inv, [Next]_vars
    PROVE  Inv'
<1>1. CASE Add
  BY <1>1, AddKeepsQueue, AddKeepsLife DEF QueueOK, Inv
<1>2. CASE SetInProgress
  BY <1>2, SetInProgressKeepsQueue, SetInProgressKeepsLife DEF QueueOK, Inv
<1>3. CASE NextUpdate
  BY <1>3, NextUpdateKeepsQueue, NextUpdateKeepsLife DEF QueueOK, Inv
<1>4. CASE Fetch
  BY <1>4, FetchKeepsQueue, FetchKeepsLife DEF QueueOK, Inv
<1>5. CASE Subscribe
  BY <1>5, SubscribeKeepsQueue, SubscribeKeepsLife DEF QueueOK, Inv
<1>6. CASE Cancel
  BY <1>6, CancelKeepsQueue, CancelKeepsLife DEF QueueOK, Inv
<1>7. CASE SetDone
  BY <1>7, SetDoneKeepsQueue, SetDoneKeepsLife DEF QueueOK, Inv
<1>8. CASE Events
  BY <1>8, EventKeepsQueue, EventKeepsLife DEF QueueOK, Inv
<1>9. CASE UNCHANGED vars
  <2>. USE <1>9 DEF vars
  <2>1. TypeOK'
    BY DEF Inv, TypeOK
  <2>2. Shape'
    BY DEF Inv, Shape, Idle, Looping, Fetching, LettingGo, Older
  <2>3. KeysOK'
    BY DEF Inv, KeysOK, Distinct
  <2>4. UpToDate'
    BY DEF Inv, UpToDate, Waiting, Busy, Count, InProgress
  <2>5. Life'
    BY DEF Inv, Life, AddsOnce, Distinct, Waiting, Starting, StartingIn, ToAdd, Touched
  <2>. QED
    BY <2>1, <2>2, <2>3, <2>4, <2>5 DEF Inv
<1>. QED
  BY <1>1, <1>2, <1>3, <1>4, <1>5, <1>6, <1>7, <1>8, <1>9 DEF Next, Proceed, Events

LEMMA Invariance == Spec => []Inv
BY InvAtInit, InvStep, PTL DEF Spec

(* The variables of the queue keep their types: among them, that the       *)
(* calls an event makes are calls of fetch that somebody made.             *)
THEOREM TypeCorrect == Spec => []TypeOK
<1>1. Inv => TypeOK
  BY DEF Inv
<1>. QED
  BY <1>1, Invariance, PTL

(* The worker never leaves a request behind, whatever the observers of one *)
(* event do to each other: an update with the present count is always      *)
(* still to be processed when a request waits that need not                *)
(* (FetchQueueWorker.ts, concatMap and filter).                            *)
THEOREM NoneWaitsNeedlessly == Spec => []NothingWaitsNeedlessly
<1>1. ASSUME Inv PROVE NothingWaitsNeedlessly
  <2>. SUFFICES ASSUME Quiet, NEW i \in WithStatus("Pending", status)
                PROVE  i \in DataQueries /\ Cardinality(InProgress) >= MaxParallel
    BY DEF NothingWaitsNeedlessly
  <2>1. ~Busy
    BY <1>1, NoCalls DEF Inv, Quiet
  <2>. QED
    BY <1>1, <2>1 DEF Inv, UpToDate, Waiting, Count
<1>. QED
  BY <1>1, Invariance, PTL

(* No older request with the ID is left when a request is subscribed.      *)
LEMMA OneInFlightStep ==
    ASSUME Inv, OneInFlight, [Next]_vars
    PROVE  OneInFlight'
<1>. USE DEF Inv
<1>1. started \in Seq(Ids) /\ Distinct(started)
  BY DEF TypeOK, Life
<1>2. CASE ToSet(started') \subseteq ToSet(started)
  BY <1>2 DEF OneInFlight
<1>3. CASE Subscribe
  <2>1. id \in Ids /\ \E d \in Seq(LowerCall) : LettingGo(<<>>, id, d)
    BY <1>3, OnTop DEF Subscribe, Top
  <2>2. Older(id) = {}
    BY <2>1 DEF LettingGo, ToSet
  <2>3. ToSet(started') \subseteq ToSet(started) \cup {id}
    BY <1>1, <1>3, <2>1, SetOfAppend DEF Subscribe
  <2>. QED
    BY <2>2, <2>3 DEF OneInFlight, Older
<1>4. CASE Cancel
  BY <1>1, <1>2, <1>4, RemovedFirst DEF Cancel
<1>5. CASE SetDone
  BY <1>1, <1>2, <1>5, RemovedFirst DEF SetDone
<1>6. CASE Events
  BY <1>2, <1>6, EventEffects
<1>7. CASE UNCHANGED started
  BY <1>2, <1>7
<1>. QED
  BY <1>3, <1>4, <1>5, <1>6, <1>7
     DEF Next, Proceed, Events, Add, SetInProgress, NextUpdate, Fetch, vars

(* Of the requests with one request ID the latest alone is underway: the   *)
(* older ones are told before a request is subscribed, and the subscribed  *)
(* ones are all there is to be told (backend_srv.ts, inFlightRequests).    *)
THEOREM LatestAlone == Spec => []OneInFlight
<1>1. Init => OneInFlight
  BY DEF Init, OneInFlight, ToSet
<1>. QED
  BY <1>1, OneInFlightStep, Invariance, PTL DEF Spec

-----------------------------------------------------------------------------
(* Slots                                                                   *)

(* What follows holds as long as a request that is underway while a later  *)
(* one with its request ID listens has a consumer of its own,              *)
(* SharersAreSingle.  A request that is being started then lets go of one  *)
(* other at most, and no update is published while a second one waits to   *)
(* be processed whose count is out of date by more than one.               *)

(* An entry is held by an observer, and those underway are in progress.    *)
Held == /\ \A i \in Ids : status[i] /= "Done" => i \in listening
        /\ ToSet(inner) \subseteq Waiting
        /\ ToSet(started) \cup Starting \subseteq InProgress

(* An update of the worker lets one request go at a time.                  *)
Emitting(i) == /\ inner = <<i>> /\ buffer = <<>> /\ i \in Waiting
               /\ Waiting \ {i} \subseteq DataQueries
               /\ i \in DataQueries => Count < MaxParallel
               /\ Waiting \ {i} /= {} =>
                    Count >= IF i \in DataQueries THEN MaxParallel - 1 ELSE MaxParallel

(* The counts that are still to be processed: none is below the present    *)
(* one, and at most one slot has become free meanwhile.                    *)
Emitted == inner = <<>> /\ Waiting \subseteq DataQueries
Backlog == IF Waiting = {} THEN buffer = <<>>
           ELSE \/ buffer = <<>> /\ Count >= MaxParallel
                \/ buffer = <<Count>> /\ Count + 1 >= MaxParallel
                \/ buffer = <<Count + 1, Count>> /\ Count + 1 >= MaxParallel

LoopQuota == (\E i \in Ids : Emitting(i)) \/ (Emitted /\ Backlog)
StartQuota == /\ Emitted
              /\ IF Waiting = {} THEN buffer = <<>> ELSE buffer = <<Count>> /\ Count >= MaxParallel
LetGoQuota(w, j) ==
    \/ w = <<>> /\ Emitted /\ Backlog
    \/ /\ StartQuota
       /\ \E x \in InProgress \ {j} : /\ Siblings(x) = <<x>>
                                      /\ w = <<CancelCall(x)>> \/ w = <<SetDoneCall(x)>>

Quota == \/ Idle
         \/ \E d \in Seq(LowerCall) : Looping(d) /\ LoopQuota
         \/ \E d \in Seq(LowerCall), j \in Ids : Fetching(j, d) /\ StartQuota
         \/ \E d \in Seq(LowerCall), j \in Ids, w \in Seq(LetGoCall) :
                LettingGo(w, j, d) /\ LetGoQuota(w, j)

(* Which of the quotas the call on top tells.                              *)
LEMMA QuotaOnTop ==
    ASSUME Quota, calls /= <<>>
    PROVE  /\ Top("setInProgress") => LoopQuota
           /\ Top("fetch") => StartQuota
           /\ Top("subscribe") => Emitted /\ Backlog
           /\ \A op \in {"cancel", "setDone"} : Top(op) =>
                \/ Idle /\ Rest \in Seq(LowerCall)
                \/ \E j \in Ids, d \in Seq(LowerCall), w \in Seq(LetGoCall) :
                        /\ w /= <<>> /\ LettingGo(w, j, d) /\ LetGoQuota(w, j)
                        /\ Head(w) = Head(calls) /\ Tail(w) \in Seq(LetGoCall)
                        /\ Rest = Tail(w) \o (<<SubscribeCall(j)>> \o (<<WorkerLoop>> \o d))
<1>. DEFINE h == Head(calls)
<1>1. /\ WorkerLoop.op = "setInProgress"
      /\ \A j \in Ids : FetchCall(j).op = "fetch" /\ SubscribeCall(j).op = "subscribe"
      /\ \A c \in LowerCall : c.op \in {"add", "cancel", "setDone"}
      /\ \A c \in LetGoCall : c.op \in {"cancel", "setDone"}
  BY DEF WorkerLoop, FetchCall, SubscribeCall, LowerCall, LetGoCall
<1>2. CASE Idle
  <2>1. h \in LowerCall /\ Rest \in Seq(LowerCall)
    BY <1>2, PlaceOf
  <2>2. h.op \in {"add", "cancel", "setDone"}
    BY <1>1, <2>1
  <2>. HIDE DEF h
  <2>3. \A op : Top(op) => h.op = op
    BY DEF Top, h
  <2>. QED
    BY <1>2, <2>1, <2>2, <2>3
<1>3. CASE \E d \in Seq(LowerCall) : Looping(d) /\ LoopQuota
  <2>1. h = WorkerLoop /\ LoopQuota
    BY <1>3, PlaceOf
  <2>2. \A op : Top(op) => op = "setInProgress"
    BY <1>1, <2>1 DEF Top
  <2>. QED
    BY <2>1, <2>2
<1>4. CASE \E d \in Seq(LowerCall), j \in Ids : Fetching(j, d) /\ StartQuota
  <2>1. (\E j \in Ids : h = FetchCall(j)) /\ StartQuota
    BY <1>4, PlaceOf
  <2>2. \A op : Top(op) => op = "fetch"
    BY <1>1, <2>1 DEF Top
  <2>. QED
    BY <2>1, <2>2
<1>5. CASE \E d \in Seq(LowerCall), j \in Ids, w \in Seq(LetGoCall) :
                LettingGo(w, j, d) /\ LetGoQuota(w, j)
  <2>1. PICK d, j, w : /\ d \in Seq(LowerCall) /\ j \in Ids /\ w \in Seq(LetGoCall)
                       /\ LettingGo(w, j, d) /\ LetGoQuota(w, j)
    BY <1>5
  <2>2. CASE w = <<>>
    <3>1. h = SubscribeCall(j)
      BY <2>1, <2>2, PlaceOf
    <3>2. \A op : Top(op) => op = "subscribe"
      BY <1>1, <2>1, <3>1 DEF Top
    <3>3. Emitted /\ Backlog
      BY <2>1, <2>2 DEF LetGoQuota
    <3>. QED
      BY <3>2, <3>3
  <2>3. CASE w /= <<>>
    <3>1. /\ h = Head(w) /\ h \in LetGoCall /\ Tail(w) \in Seq(LetGoCall)
          /\ Rest = Tail(w) \o (<<SubscribeCall(j)>> \o (<<WorkerLoop>> \o d))
      BY <2>1, <2>3, PlaceOf
    <3>2. h.op \in {"cancel", "setDone"}
      BY <1>1, <3>1
    <3>3. ~Top("setInProgress") /\ ~Top("fetch") /\ ~Top("subscribe")
      BY <3>2 DEF Top
    <3>4. /\ j \in Ids /\ d \in Seq(LowerCall) /\ w \in Seq(LetGoCall)
          /\ w /= <<>> /\ LettingGo(w, j, d) /\ LetGoQuota(w, j)
          /\ Head(w) = Head(calls) /\ Tail(w) \in Seq(LetGoCall)
          /\ Rest = Tail(w) \o (<<SubscribeCall(j)>> \o (<<WorkerLoop>> \o d))
      BY <2>1, <2>3, <3>1
    <3>5. \E i \in Ids, e \in Seq(LowerCall), v \in Seq(LetGoCall) :
            /\ v /= <<>> /\ LettingGo(v, i, e) /\ LetGoQuota(v, i)
            /\ Head(v) = Head(calls) /\ Tail(v) \in Seq(LetGoCall)
            /\ Rest = Tail(v) \o (<<SubscribeCall(i)>> \o (<<WorkerLoop>> \o e))
      BY ONLY <3>4, ZenonT(60)
    <3>. QED
      BY <3>3, <3>5, ZenonT(60)
  <2>. QED
    BY <2>2, <2>3
<1>. QED
  BY <1>2, <1>3, <1>4, <1>5 DEF Quota

(* The counts after a request has been started, and after one has gone.    *)
LEMMA CountStarted ==
    ASSUME TypeOK, KeysOK, NEW i \in Waiting, status' = [status EXCEPT ![i] = "InProgress"]
    PROVE  /\ InProgress' = InProgress \cup {i} /\ Waiting' = Waiting \ {i}
           /\ Count \in Nat /\ Count' = Count + 1
           /\ LET n == Cardinality(InProgress \cap DataQueries)
              IN  /\ n \in Nat /\ n <= Count
                  /\ Cardinality((InProgress \cap DataQueries)') = IF i \in DataQueries THEN n + 1 ELSE n
<1>1. i \in Ids /\ i \notin InProgress /\ status \in [Ids -> Statuses]
  BY DEF Waiting, InProgress, WithStatus, TypeOK
<1>2. status'[i] = "InProgress" /\ \A k \in Ids \ {i} : status'[k] = status[k]
  BY <1>1
<1>3. InProgress' = InProgress \cup {i} /\ Waiting' = Waiting \ {i}
  BY <1>1, <1>2 DEF Waiting, InProgress, WithStatus
<1>4. IsFiniteSet(InProgress)
  BY <1>1, StatusSets DEF InProgress, KeysOK, TypeOK
<1>5. Count \in Nat /\ Count' = Count + 1
  BY <1>1, <1>3, <1>4, FS_CardinalityType, FS_AddElement DEF Count
<1>6. LET D == InProgress \cap DataQueries
      IN  IsFiniteSet(D) /\ Cardinality(D) \in Nat /\ Cardinality(D) <= Count /\ i \notin D
  BY <1>1, <1>4, FS_Subset, FS_CardinalityType DEF Count
<1>7. (InProgress \cap DataQueries)' =
            IF i \in DataQueries THEN (InProgress \cap DataQueries) \cup {i} ELSE InProgress \cap DataQueries
  BY <1>3
<1>. QED
  BY <1>3, <1>5, <1>6, <1>7, FS_AddElement

LEMMA CountGone ==
    ASSUME TypeOK, KeysOK, NEW i \in Ids, status' = [status EXCEPT ![i] = "Done"]
    PROVE  /\ InProgress' = InProgress \ {i} /\ Waiting' = Waiting \ {i}
           /\ Count \in Nat /\ Count' = IF i \in InProgress THEN Count - 1 ELSE Count
           /\ Count' \in Nat
           /\ Cardinality((InProgress \cap DataQueries)') <= Cardinality(InProgress \cap DataQueries)
           /\ Cardinality((InProgress \cap DataQueries)') \in Int
           /\ Cardinality(InProgress \cap DataQueries) \in Int
<1>1. status \in [Ids -> Statuses]
  BY DEF TypeOK
<1>2. status'[i] = "Done" /\ \A k \in Ids \ {i} : status'[k] = status[k]
  BY <1>1
<1>3. InProgress' = InProgress \ {i} /\ Waiting' = Waiting \ {i}
  BY <1>1, <1>2 DEF Waiting, InProgress, WithStatus
<1>4. IsFiniteSet(InProgress)
  BY <1>1, StatusSets DEF InProgress, KeysOK, TypeOK
<1>5. /\ Count \in Nat /\ Count' = IF i \in InProgress THEN Count - 1 ELSE Count
      /\ Count' \in Nat
  <2>1. CASE i \in InProgress
    BY <1>3, <1>4, <2>1, FS_CardinalityType, FS_RemoveElement, FS_EmptySet DEF Count
  <2>2. CASE i \notin InProgress
    BY <1>3, <1>4, <2>2, FS_CardinalityType DEF Count
  <2>. QED
    BY <2>1, <2>2
<1>6. LET D == InProgress \cap DataQueries
          E == (InProgress \cap DataQueries)'
      IN  IsFiniteSet(D) /\ E \subseteq D
  BY <1>3, <1>4, FS_Subset
<1>7. LET D == InProgress \cap DataQueries
          E == (InProgress \cap DataQueries)'
      IN  Cardinality(E) \in Nat /\ Cardinality(D) \in Nat /\ Cardinality(E) <= Cardinality(D)
  BY <1>6, FS_Subset, FS_CardinalityType
<1>. QED
  BY <1>3, <1>5, <1>7

(* When one slot is free at most, an update lets go of one request at most.*)
LEMMA OneLetGo ==
    ASSUME NEW ks \in Seq(Ids), NEW st \in [Ids -> Statuses],
           Distinct(ks), ToSet(ks) = {i \in Ids : st[i] /= "Done"}, NEW n \in Nat,
           WithStatus("Pending", st) \subseteq DataQueries,
           WithStatus("Pending", st) = {} \/ n + 1 >= MaxParallel
    PROVE  LET s == ToStart(ks, st, n)
               P == WithStatus("Pending", st)
           IN  \/ s = <<>> /\ (P = {} \/ n >= MaxParallel)
               \/ n < MaxParallel /\ \E i \in P : s = <<i>>
<1>1. PICK s : s = ToStart(ks, st, n)
  OBVIOUS
<1>2. PICK P : P = WithStatus("Pending", st)
  OBVIOUS
<1>3. /\ s \in Seq(Ids) /\ ToSet(s) \subseteq P
      /\ s = <<>> => P = {} \/ n >= MaxParallel
      /\ Len(s) = 0 \/ Len(s) <= MaxParallel - n
  BY <1>1, <1>2, StartedByUpdate
<1>4. Len(s) \in Nat /\ (s = <<>> <=> Len(s) = 0) /\ DOMAIN s = 1..Len(s) /\ (s = <<>> <=> ToSet(s) = {})
  BY <1>3, EmptySeq, SetOfSeq
<1>5. CASE s = <<>>
  BY <1>1, <1>2, <1>3, <1>5
<1>6. CASE s /= <<>>
  <2>1. P /= {}
    BY <1>3, <1>4, <1>6
  <2>2. Len(s) = 1 /\ n < MaxParallel
    BY <1>2, <1>3, <1>4, <1>6, <2>1, MaxParallelAssumption
  <2>3. s[1] \in P
    BY <1>3, <1>4, <2>2 DEF ToSet
  <2>4. s = <<s[1]>>
    BY <1>3, <2>2
  <2>. QED
    BY <1>1, <1>2, <2>2, <2>3, <2>4
<1>. QED
  BY <1>5, <1>6

(* What an update that has just been taken up lets go, is as the quota     *)
(* says.                                                                   *)
LEMMA QuotaOfUpdate ==
    ASSUME TypeOK', KeysOK', (Waiting \subseteq DataQueries)',
           Waiting' = {} \/ Count' + 1 >= MaxParallel,
           buffer' = <<>>, inner' = ToStart(keys', status', Count')
    PROVE  LoopQuota'
<1>1. /\ keys' \in Seq(Ids) /\ status' \in [Ids -> Statuses] /\ Distinct(keys')
      /\ ToSet(keys') = {i \in Ids : status'[i] /= "Done"}
  BY DEF TypeOK, KeysOK, Distinct
<1>2. Count' \in Nat
  BY <1>1, StatusSets DEF Count, InProgress
<1>3. PICK n \in Nat : n = Count'
  BY <1>2
<1>4. WithStatus("Pending", status') = Waiting'
  BY DEF Waiting
<1>5. \/ inner' = <<>> /\ (Waiting' = {} \/ n >= MaxParallel)
      \/ n < MaxParallel /\ \E i \in Waiting' : inner' = <<i>>
  BY <1>1, <1>3, <1>4, OneLetGo
<1>6. CASE inner' = <<>> /\ (Waiting' = {} \/ n >= MaxParallel)
  BY <1>3, <1>6 DEF LoopQuota, Emitted, Backlog
<1>7. CASE n < MaxParallel /\ \E i \in Waiting' : inner' = <<i>>
  <2>1. PICK i \in Waiting' : inner' = <<i>>
    BY <1>7
  <2>2. i \in Ids /\ i \in DataQueries
    BY DEF Waiting, WithStatus
  <2>3. n + 1 >= MaxParallel
    BY <1>3
  <2>3a. n >= MaxParallel - 1
    BY ONLY <2>3, MaxParallelAssumption
  <2>4. Emitting(i)'
    BY <1>3, <1>7, <2>1, <2>2, <2>3a DEF Emitting
  <2>. QED
    BY <2>2, <2>4 DEF LoopQuota
<1>. QED
  BY <1>5, <1>6, <1>7

QInv == Held /\ Quota /\ AtMostMaxParallel

LEMMA AddKeepsSlots ==
    ASSUME Inv, Inv', QInv, Add
    PROVE  QInv'
<1>. USE DEF QInv
<1>1. /\ id \in Ids /\ Idle /\ ~Touched(id) /\ status[id] = "Done"
      /\ keys' \in Seq(Ids) /\ Distinct(keys') /\ status' \in [Ids -> Statuses]
      /\ ToSet(keys') = {i \in Ids : status'[i] /= "Done"}
      /\ status'[id] = "Pending" /\ \A j \in Ids \ {id} : status'[j] = status[j]
      /\ inner' = ToStart(keys', status', Count')
      /\ buffer' = <<>> /\ started' = started /\ listening' = listening \cup {id}
      /\ \E d \in Seq(LowerCall) : calls' = <<WorkerLoop>> \o d
  BY AddEffects DEF Add, Count, InProgress
<1>1a. PICK k \in Ids : k = id
  BY <1>1
<1>2. PICK d : d \in Seq(LowerCall) /\ calls' = <<WorkerLoop>> \o d
  BY <1>1
<1>3. InProgress' = InProgress /\ Waiting' = Waiting \cup {id} /\ Count' = Count /\ id \notin Waiting
  BY <1>1 DEF InProgress, Waiting, WithStatus, Count
<1>4. Count \in Nat
  BY StatusSets DEF Count, InProgress, Inv, TypeOK, KeysOK
<1>5. Waiting = {} \/ (Waiting \subseteq DataQueries /\ Count >= MaxParallel)
  <2>1. ~Busy
    BY <1>1, NoLoopBelow DEF Idle, Busy
  <2>. QED
    BY <2>1 DEF Inv, UpToDate
<1>6. /\ TypeOK' /\ KeysOK'
  BY DEF Inv
<1>7. LoopQuota'
  <2>1. CASE id \in DataQueries /\ (Waiting /= {} \/ Count + 1 >= MaxParallel)
    <3>1. (Waiting \subseteq DataQueries)' /\ Count' + 1 >= MaxParallel
      BY <1>3, <1>4, <1>5, <2>1, MaxParallelAssumption
    <3>. QED
      BY <1>1, <1>6, <3>1, QuotaOfUpdate
  <2>2. CASE id \in DataQueries /\ Waiting = {} /\ ~(Count + 1 >= MaxParallel)
    <3>1. WithStatus("Pending", status') = {id}
      BY <1>3, <2>2 DEF Waiting
    <3>2. /\ inner' \in Seq(Ids) /\ Distinct(inner') /\ ToSet(inner') \subseteq {id}
          /\ inner' = <<>> => Count' >= MaxParallel
      <4>1. \A n \in Nat : LET t == ToStart(keys', status', n)
                             P == WithStatus("Pending", status')
                         IN  /\ t \in Seq(Ids) /\ Distinct(t) /\ ToSet(t) \subseteq P
                             /\ t = <<>> => P = {} \/ (P \subseteq DataQueries /\ n >= MaxParallel)
        BY <1>1, StartedByUpdate
      <4>2. Count' \in Nat /\ inner' = ToStart(keys', status', Count')
        BY <1>1, <1>3, <1>4
      <4>. HIDE DEF ToStart
      <4>. QED
        BY <3>1, <4>1, <4>2
    <3>3. ToSet(inner') = {id}
      BY <1>3, <1>4, <2>2, <3>2, SetOfSeq, MaxParallelAssumption
    <3>4. inner' = <<id>>
      BY <3>2, <3>3, SequenceOfOne DEF Distinct
    <3>5. Count < MaxParallel
      BY <1>4, <2>2, MaxParallelAssumption
    <3>6. Emitting(k)'
      BY <1>1, <1>1a, <1>3, <2>2, <3>4, <3>5 DEF Emitting
    <3>. QED
      BY <3>6 DEF LoopQuota
  <2>3. CASE id \notin DataQueries
    <3>1. /\ WithStatus("Pending", status') \ DataQueries = {id}
          /\ WithStatus("Pending", status') = {id} \/ Count' + 1 >= MaxParallel
      BY <1>3, <1>4, <1>5, <2>3, MaxParallelAssumption DEF Waiting
    <3>2. inner' = <<id>>
      BY <1>1, <1>3, <1>4, <3>1, StartedByUpdate
    <3>3. Emitting(k)'
      BY <1>1, <1>1a, <1>3, <1>5, <2>3, <3>2 DEF Emitting
    <3>. QED
      BY <3>3 DEF LoopQuota
  <2>. QED
    BY <2>1, <2>2, <2>3
<1>8. Quota'
  BY <1>2, <1>7 DEF Quota, Looping
<1>9. Starting = {} /\ Starting' = {}
  <2>1. calls \in Seq(LowerCall)
    BY <1>1 DEF Idle
  <2>2. StartingIn(calls) = {} /\ StartingIn(<<WorkerLoop>> \o d) = {}
    BY ONLY <1>2, <2>1, StartingInShapes
  <2>3. StartingIn(calls') = {}
    BY <1>2, <2>2, Zenon
  <2>. QED
    BY <2>2, <2>3 DEF Starting, StartingIn
<1>10. ToSet(inner') \subseteq Waiting'
  <2>1. ToSet(ToStart(keys', status', Count')) \subseteq WithStatus("Pending", status')
    BY <1>1, <1>3, <1>4, StartedByUpdate
  <2>. QED
    BY <1>1, <2>1 DEF Waiting
<1>11. Held'
  BY <1>1, <1>3, <1>9, <1>10 DEF Held
<1>12. AtMostMaxParallel'
  BY <1>3 DEF AtMostMaxParallel
<1>. QED
  BY <1>8, <1>11, <1>12

LEMMA SetInProgressKeepsSlots ==
    ASSUME Inv, Inv', QInv, SetInProgress
    PROVE  QInv'
<1>. USE DEF QInv
<1>1. /\ Top("setInProgress") /\ calls /= <<>> /\ inner /= <<>>
      /\ Looping(Rest) /\ Rest \in Seq(LowerCall)
  BY OnTop DEF SetInProgress, Top, Inv
<1>2. PICK d : d = Rest /\ d \in Seq(LowerCall)
  BY <1>1
<1>3. LoopQuota
  BY <1>1, QuotaOnTop
<1>4. PICK i \in Ids : Emitting(i)
  BY <1>1, <1>3 DEF LoopQuota, Emitted
<1>5. i \in Waiting /\ inner = <<i>> /\ buffer = <<>> /\ Head(inner) = i /\ Tail(inner) = <<>>
  BY <1>4 DEF Emitting
<1>6. /\ status' = [status EXCEPT ![i] = "InProgress"] /\ inner' = <<>>
      /\ buffer' = (IF Waiting' = {} THEN buffer ELSE Append(buffer, Count'))
      /\ calls' = <<FetchCall(i)>> \o (<<WorkerLoop>> \o d)
      /\ UNCHANGED <<listening, started>>
  BY <1>2, <1>5, DoOne DEF SetInProgress, FetchCall, Waiting, Count, InProgress
<1>7. /\ InProgress' = InProgress \cup {i} /\ Waiting' = Waiting \ {i}
      /\ Count \in Nat /\ Count' = Count + 1
      /\ Cardinality(InProgress \cap DataQueries) \in Nat
      /\ Cardinality(InProgress \cap DataQueries) <= Count
      /\ Cardinality((InProgress \cap DataQueries)') =
            IF i \in DataQueries THEN Cardinality(InProgress \cap DataQueries) + 1
                                 ELSE Cardinality(InProgress \cap DataQueries)
  BY <1>5, <1>6, CountStarted DEF Inv
<1>8. StartQuota'
  <2>1. Waiting' \subseteq DataQueries /\ (Waiting' /= {} => Count' >= MaxParallel)
    BY <1>4, <1>7, MaxParallelAssumption DEF Emitting
  <2>2. Waiting' /= {} => buffer' = <<Count'>>
    BY <1>5, <1>6, <1>7
  <2>3. Waiting' = {} => buffer' = <<>>
    BY <1>5, <1>6
  <2>. QED
    BY <1>6, <2>1, <2>2, <2>3 DEF StartQuota, Emitted
<1>9. Fetching(i, d)'
  BY <1>2, <1>6 DEF Fetching
<1>10. Quota'
  BY <1>2, <1>8, <1>9 DEF Quota
<1>11. Starting' = {i} /\ Starting = {}
  <2>1. d \in Seq(LowerCall) /\ i \in Ids
    BY <1>2
  <2>2. StartingIn(<<FetchCall(i)>> \o (<<WorkerLoop>> \o d)) = {i} /\ StartingIn(<<WorkerLoop>> \o d) = {}
    BY ONLY <2>1, StartingInShapes
  <2>3. StartingIn(calls') = {i}
    BY <1>6, <2>2, Zenon
  <2>4. StartingIn(calls) = {}
    BY <1>1, <1>2, <2>2 DEF Looping
  <2>. QED
    BY <2>3, <2>4 DEF Starting, StartingIn
<1>12. Held'
  <2>1. ToSet(inner') = {}
    BY <1>6 DEF ToSet
  <2>2. \A k \in Ids : status'[k] /= "Done" => status[k] /= "Done"
    BY <1>5, <1>6 DEF Inv, TypeOK, Waiting, WithStatus
  <2>. QED
    BY <1>6, <1>7, <1>11, <2>1, <2>2 DEF Held
<1>13. AtMostMaxParallel'
  <2>1. CASE i \in DataQueries
    <3>1. Count < MaxParallel
      BY <1>4, <2>1 DEF Emitting
    <3>. QED
      BY <1>7, <2>1, <3>1, MaxParallelAssumption DEF AtMostMaxParallel
  <2>2. CASE i \notin DataQueries
    BY <1>7, <2>2 DEF AtMostMaxParallel
  <2>. QED
    BY <2>1, <2>2
<1>. QED
  BY <1>10, <1>12, <1>13

LEMMA NextUpdateKeepsSlots ==
    ASSUME Inv, Inv', QInv, NextUpdate
    PROVE  QInv'
<1>. USE DEF QInv
<1>1. /\ Top("setInProgress") /\ calls /= <<>> /\ inner = <<>>
      /\ Looping(Rest) /\ Rest \in Seq(LowerCall)
      /\ UNCHANGED <<keys, status, listening, started, phase, outcome, cancelled>>
  BY OnTop DEF NextUpdate, Top, Inv
<1>2. PICK d : d = Rest /\ d \in Seq(LowerCall)
  BY <1>1
<1>3. Emitted /\ Backlog
  <2>1. \A i \in Ids : ~Emitting(i)
    BY <1>1 DEF Emitting
  <2>. QED
    BY <1>1, <2>1, QuotaOnTop DEF LoopQuota
<1>4. InProgress' = InProgress /\ Waiting' = Waiting /\ Count' = Count
  BY <1>1 DEF InProgress, Waiting, Count
<1>5. /\ keys \in Seq(Ids) /\ status \in [Ids -> Statuses] /\ Distinct(keys) /\ Count \in Nat
      /\ ToSet(keys) = {i \in Ids : status[i] /= "Done"}
  BY StatusSets DEF Inv, TypeOK, KeysOK, Count, InProgress
<1>6. calls = <<WorkerLoop>> \o d /\ (calls' = calls \/ calls' = d)
  BY <1>1, <1>2 DEF Looping, NextUpdate
<1>7. Starting = {} /\ Starting' = {}
  <2>1. d \in Seq(LowerCall)
    BY <1>2
  <2>2. StartingIn(d) = {} /\ StartingIn(<<WorkerLoop>> \o d) = {}
    BY ONLY <2>1, StartingInShapes
  <2>3. StartingIn(calls) = {} /\ StartingIn(calls') = {}
    BY <1>6, <2>2, Zenon
  <2>. QED
    BY <2>3 DEF Starting, StartingIn
<1>8. Quota' /\ ToSet(inner') \subseteq Waiting
  <2>1. CASE buffer = <<>>
    <3>1. Idle' /\ inner' = <<>>
      BY <1>1, <1>2, <2>1 DEF NextUpdate, Idle
    <3>. QED
      BY <3>1 DEF Quota, ToSet
  <2>2. CASE buffer /= <<>>
    <3>1. /\ inner' = ToStart(keys, status, Head(buffer)) /\ buffer' = Tail(buffer) /\ calls' = calls
      BY <2>2 DEF NextUpdate
    <3>2. Waiting /= {} /\ Waiting \subseteq DataQueries /\ Count + 1 >= MaxParallel
          /\ (buffer = <<Count>> \/ buffer = <<Count + 1, Count>>)
      BY <1>3, <2>2 DEF Backlog, Emitted
    <3>3. CASE buffer = <<Count>>
      <4>1. inner' = ToStart(keys', status', Count') /\ buffer' = <<>>
        BY <1>1, <1>4, <3>1, <3>3
      <4>2. TypeOK' /\ KeysOK' /\ (Waiting \subseteq DataQueries)' /\ Count' + 1 >= MaxParallel
        BY <1>4, <3>2 DEF Inv
      <4>3. LoopQuota'
        BY <4>1, <4>2, QuotaOfUpdate
      <4>4. ToSet(ToStart(keys, status, Count)) \subseteq WithStatus("Pending", status)
        BY <1>5, StartedByUpdate
      <4>5. Head(buffer) = Count
        BY <3>3
      <4>6. Looping(d)'
        BY <1>2, <1>6, <3>1 DEF Looping
      <4>. QED
        BY <1>2, <3>1, <4>3, <4>4, <4>5, <4>6 DEF Quota, Waiting
    <3>4. CASE buffer = <<Count + 1, Count>>
      <4>1. Head(buffer) = Count + 1 /\ Tail(buffer) = <<Count>> /\ Count + 1 \in Nat
        BY <1>5, <3>4
      <4>2. PICK n \in Nat : n = Count + 1
        BY <4>1
      <4>3. PICK s : s = ToStart(keys, status, n) /\ s \in Seq(Ids) /\ (Len(s) = 0 \/ Len(s) <= MaxParallel - n)
        BY <1>5, <3>2, StartedByUpdate DEF Waiting
      <4>4. inner' = <<>>
        <5>1. Len(s) = 0
          <6>1. Len(s) \in Nat /\ n >= MaxParallel
            BY <3>2, <4>2, <4>3, LenProperties
          <6>. QED
            BY <4>3, <6>1, MaxParallelAssumption
        <5>2. s = <<>>
          BY <4>3, <5>1, EmptySeq
        <5>. QED
          BY <3>1, <4>1, <4>2, <4>3, <5>2
      <4>5. LoopQuota'
        BY <1>4, <3>1, <3>2, <4>1, <4>4 DEF LoopQuota, Emitted, Backlog
      <4>6. Looping(d)'
        BY <1>2, <1>6, <3>1 DEF Looping
      <4>. QED
        BY <1>2, <4>4, <4>5, <4>6 DEF Quota, ToSet
    <3>. QED
      BY <3>2, <3>3, <3>4
  <2>. QED
    BY <2>1, <2>2
<1>9. Held'
  BY <1>1, <1>4, <1>7, <1>8 DEF Held
<1>10. AtMostMaxParallel'
  BY <1>4 DEF AtMostMaxParallel
<1>. QED
  BY <1>8, <1>9, <1>10

(* Here the hypothesis is needed: the older request has no siblings.       *)
LEMMA FetchKeepsSlots ==
    ASSUME SharersAreSingle, Inv, Inv', QInv, OneInFlight, Fetch
    PROVE  QInv'
<1>. USE DEF QInv
<1>1. /\ Top("fetch") /\ calls /= <<>> /\ started \in Seq(Ids) /\ ToSet(started) \subseteq Ids
      /\ UNCHANGED <<keys, status, inner, buffer, listening, started, phase, outcome, cancelled>>
  BY SetOfSeq DEF Fetch, Top, Inv, TypeOK
<1>2. StartQuota
  BY <1>1, QuotaOnTop
<1>3. PICK d, older :
                /\ d \in Seq(LowerCall) /\ older \in Seq(Ids)
                /\ id \in Ids /\ Fetching(id, d)
                /\ ToSet(older) = Older(id) /\ Distinct(older)
                /\ Do("cancel", older) \in Seq(LetGoCall)
                /\ calls' = Do("cancel", older) \o (<<SubscribeCall(id)>> \o (<<WorkerLoop>> \o d))
  BY FetchEffects
<1>4. PICK j, w : /\ j = id /\ j \in Ids
                  /\ w = Do("cancel", older) /\ w \in Seq(LetGoCall)
  BY <1>3
<1>5. calls' = w \o (<<SubscribeCall(j)>> \o (<<WorkerLoop>> \o d))
  BY <1>3, <1>4
<1>6. InProgress' = InProgress /\ Waiting' = Waiting /\ Count' = Count
  BY <1>1 DEF InProgress, Waiting, Count
<1>7. j \in Ids /\ w \in Seq(LetGoCall) /\ d \in Seq(LowerCall)
  BY <1>3, <1>4
<1>8. Starting = {j} /\ Starting' = {j}
  <2>1. /\ StartingIn(<<FetchCall(j)>> \o (<<WorkerLoop>> \o d)) = {j}
        /\ StartingIn(w \o (<<SubscribeCall(j)>> \o (<<WorkerLoop>> \o d))) = {j}
    BY ONLY <1>7, StartingInShapes
  <2>2. StartingIn(calls) = {j}
    BY <1>3, <1>4, <2>1 DEF Fetching
  <2>3. StartingIn(calls') = {j}
    BY <1>5, <2>1, Zenon
  <2>. QED
    BY <2>2, <2>3 DEF Starting, StartingIn
<1>9. LettingGo(w, j, d)'
  <2>1. Shape' /\ Top("fetch")
    BY <1>1 DEF Inv
  <2>2. Older(j)' = Older(j)
    BY <1>1 DEF Older
  <2>3. ToSet(w) = {CancelCall(k) : k \in Older(j)}
    <3>1. older \in Seq(Ids) /\ Ids \in SUBSET Ids
      BY <1>3
    <3>2. ToSet(Do("cancel", older)) = {[op |-> "cancel", id |-> k] : k \in ToSet(older)}
      BY ONLY <3>1, DoIs
    <3>. QED
      BY <1>3, <1>4, <3>2 DEF CancelCall
  <2>. QED
    BY <1>5, <1>7, <2>2, <2>3 DEF LettingGo
<1>10. LetGoQuota(w, j)'
  <2>1. CASE Older(j) = {}
    <3>1. older = <<>>
      BY <1>3, <1>4, <2>1, SetOfSeq
    <3>2. w = <<>>
      BY <1>4, <3>1 DEF Do
    <3>3. Emitted' /\ Backlog'
      <4>1. Count \in Nat
        BY StatusSets DEF Inv, TypeOK, KeysOK, Count, InProgress
      <4>. QED
        BY <1>1, <1>2, <1>6, <4>1, MaxParallelAssumption DEF StartQuota, Emitted, Backlog
    <3>. QED
      BY <3>2, <3>3 DEF LetGoQuota
  <2>2. CASE Older(j) /= {}
    <3>1. PICK x \in Older(j) : TRUE
      BY <2>2
    <3>2. x \in ToSet(started) /\ x \in Ids /\ RequestId[x] = RequestId[j] /\ RequestId[x] /= NoId
      BY <1>1, <3>1 DEF Older
    <3>3. Older(j) = {x}
      BY <3>2 DEF Older, OneInFlight
    <3>4. x \in InProgress /\ x /= j
      BY <1>8, <3>2 DEF Inv, Life, Held
    <3>5. Siblings(x) = <<x>>
      <4>1. j \in listening
        BY <1>4, <1>8 DEF Held, InProgress, WithStatus
      <4>. QED
        BY <3>2, <3>4, <4>1 DEF SharersAreSingle
    <3>6. older = <<x>>
      BY <1>3, <1>4, <3>3, SequenceOfOne
    <3>7. w = <<CancelCall(x)>>
      BY <1>4, <3>6, DoOne DEF CancelCall
    <3>8. StartQuota'
      BY <1>1, <1>2, <1>6 DEF StartQuota, Emitted
    <3>. QED
      BY <1>6, <3>4, <3>5, <3>7, <3>8 DEF LetGoQuota, Siblings, Alone, ConsumerOf
  <2>. QED
    BY <2>1, <2>2
<1>11. Quota'
  BY <1>7, <1>9, <1>10 DEF Quota
<1>12. Held'
  BY <1>1, <1>6, <1>8 DEF Held
<1>13. AtMostMaxParallel'
  BY <1>6 DEF AtMostMaxParallel
<1>. QED
  BY <1>11, <1>12, <1>13

LEMMA SubscribeKeepsSlots ==
    ASSUME Inv, Inv', QInv, Subscribe
    PROVE  QInv'
<1>. USE DEF QInv
<1>1. /\ Top("subscribe") /\ calls /= <<>> /\ id \in Ids /\ started \in Seq(Ids)
      /\ \E d \in Seq(LowerCall) : LettingGo(<<>>, id, d) /\ Rest = <<WorkerLoop>> \o d
      /\ UNCHANGED <<keys, status, inner, buffer, listening, phase, outcome, cancelled>>
  BY OnTop DEF Subscribe, Top, Inv, TypeOK
<1>2. PICK j, d : /\ j = id /\ j \in Ids /\ d \in Seq(LowerCall)
                  /\ LettingGo(<<>>, j, d) /\ Rest = <<WorkerLoop>> \o d
  BY <1>1
<1>3. calls = <<>> \o (<<SubscribeCall(j)>> \o (<<WorkerLoop>> \o d)) /\ calls' = <<WorkerLoop>> \o d
  BY <1>2 DEF LettingGo, Subscribe
<1>4. Emitted /\ Backlog
  BY <1>1, QuotaOnTop
<1>5. InProgress' = InProgress /\ Waiting' = Waiting /\ Count' = Count
  BY <1>1 DEF InProgress, Waiting, Count
<1>6. LoopQuota'
  BY <1>1, <1>4, <1>5 DEF LoopQuota, Emitted, Backlog
<1>7. Quota'
  BY <1>2, <1>3, <1>6 DEF Quota, Looping
<1>8. Starting = {j} /\ Starting' = {}
  <2>1. j \in Ids /\ d \in Seq(LowerCall) /\ <<>> \in Seq(LetGoCall)
    BY <1>2
  <2>2. /\ StartingIn(<<WorkerLoop>> \o d) = {}
        /\ \A i \in Ids, w \in Seq(LetGoCall) :
              StartingIn(w \o (<<SubscribeCall(i)>> \o (<<WorkerLoop>> \o d))) = {i}
    BY ONLY <2>1, StartingInShapes
  <2>2a. StartingIn(<<>> \o (<<SubscribeCall(j)>> \o (<<WorkerLoop>> \o d))) = {j}
    BY ONLY <2>1, <2>2, Zenon
  <2>3. StartingIn(calls) = {j} /\ StartingIn(calls') = {}
    BY <1>3, <2>2, <2>2a, Zenon
  <2>. QED
    BY <2>3 DEF Starting, StartingIn
<1>9. ToSet(started') \subseteq ToSet(started) \cup {j}
  BY <1>1, <1>2, SetOfAppend DEF Subscribe
<1>10. Held'
  BY <1>1, <1>5, <1>8, <1>9 DEF Held
<1>11. AtMostMaxParallel'
  BY <1>5 DEF AtMostMaxParallel
<1>. QED
  BY <1>7, <1>10, <1>11

LEMMA CancelKeepsSlots ==
    ASSUME Inv, Inv', QInv, Cancel
    PROVE  QInv'
<1>. USE DEF QInv
<1>1. /\ id \in Ids /\ calls /= <<>> /\ started \in Seq(Ids) /\ Distinct(started)
      /\ Rest \in Seq(Call) /\ Top("cancel")
      /\ UNCHANGED <<keys, status, inner, buffer, listening, phase>>
  BY OnTop DEF Cancel, Top, Inv, TypeOK, Life
<1>2. PICK i : i = id /\ i \in Ids
  BY <1>1
<1>3. PICK f : f \in Seq(LetGoCall) /\ calls' = f \o Rest /\ (f = LetGo(i) \/ f = <<>>)
  <2>1. CASE Contains(started, id)
    <3>1. LetGo(i) \in Seq(LetGoCall) /\ calls' = LetGo(i) \o Rest
      BY <1>2, <2>1, SiblingsAre DEF Cancel
    <3>. QED
      BY <3>1
  <2>2. CASE ~Contains(started, id)
    <3>1. Rest \in Seq(Call) /\ calls' = Rest
      BY <1>1, <2>2 DEF Cancel
    <3>2. <<>> \in Seq(LetGoCall) /\ <<>> \o Rest = Rest
      BY <3>1, ConcatEmptySeq
    <3>. QED
      BY <3>1, <3>2
  <2>. QED
    BY <2>1, <2>2
<1>4. InProgress' = InProgress /\ Waiting' = Waiting /\ Count' = Count /\ Count \in Nat
  BY <1>1, StatusSets DEF InProgress, Waiting, Count, Inv, TypeOK, KeysOK
<1>5. ToSet(started') \subseteq ToSet(started)
  BY <1>1, RemovedFirst DEF Cancel
<1>6. Starting' = Starting
  BY <1>1, <1>3, StillStarting DEF Inv
<1>7. CASE Idle /\ Rest \in Seq(LowerCall)
  <2>1. f \in Seq(LowerCall) /\ Rest \in Seq(LowerCall)
    BY <1>3, <1>7, CallFacts
  <2>2. f \o Rest \in Seq(LowerCall)
    BY ONLY <2>1, Concatenated
  <2>3. Quota'
    BY <1>1, <1>3, <1>7, <2>2 DEF Quota, Idle
  <2>. QED
    BY <1>1, <1>4, <1>5, <1>6, <2>3 DEF Held, AtMostMaxParallel
<1>8. CASE \E j \in Ids, d \in Seq(LowerCall), w \in Seq(LetGoCall) :
                /\ w /= <<>> /\ LettingGo(w, j, d) /\ LetGoQuota(w, j)
                /\ Head(w) = Head(calls) /\ Tail(w) \in Seq(LetGoCall)
                /\ Rest = Tail(w) \o (<<SubscribeCall(j)>> \o (<<WorkerLoop>> \o d))
  <2>1. PICK j, d, w :
                /\ j \in Ids /\ d \in Seq(LowerCall) /\ w \in Seq(LetGoCall)
                /\ w /= <<>> /\ LettingGo(w, j, d) /\ LetGoQuota(w, j)
                /\ Head(w) = Head(calls) /\ Tail(w) \in Seq(LetGoCall)
                /\ Rest = Tail(w) \o (<<SubscribeCall(j)>> \o (<<WorkerLoop>> \o d))
    BY <1>8
  <2>2. Head(w) = CancelCall(i)
    BY <1>1, <1>2, <2>1, OnTop DEF Inv, CancelCall
  <2>3. PICK x \in InProgress \ {j} : /\ Siblings(x) = <<x>> /\ StartQuota
                                      /\ w = <<CancelCall(x)>> \/ w = <<SetDoneCall(x)>>
    BY <2>1 DEF LetGoQuota
  <2>4. x = i /\ w = <<CancelCall(i)>> /\ Tail(w) = <<>>
    <3>1. \A a, b : (CancelCall(a) = CancelCall(b) => a = b) /\ CancelCall(a) /= SetDoneCall(b)
      BY DEF CancelCall, SetDoneCall
    <3>2. \A c : Head(<<c>>) = c /\ Tail(<<c>>) = <<>>
      OBVIOUS
    <3>3. CASE w = <<CancelCall(x)>>
      <4>1. Head(w) = CancelCall(x) /\ Tail(w) = <<>>
        BY ONLY <3>2, <3>3
      <4>2. x = i
        BY ONLY <2>2, <3>1, <4>1
      <4>. QED
        BY ONLY <3>3, <4>1, <4>2
    <3>4. CASE w = <<SetDoneCall(x)>>
      <4>1. Head(w) = SetDoneCall(x)
        BY ONLY <3>2, <3>4
      <4>. QED
        BY ONLY <2>2, <3>1, <4>1
    <3>. QED
      BY ONLY <2>3, <3>3, <3>4
  <2>5. PICK v : v = f \o Tail(w) /\ v \in Seq(LetGoCall) /\ LettingGo(v, j, d)'
    <3>1. ToSet(started') = ToSet(started) \ {i}
      BY <1>1, <1>2, RemovedFirst, SetOfSeq DEF Cancel
    <3>2. \A k \in Older(j)' : k \in Older(j) /\ CancelCall(k) /= Head(w)
      BY <2>2, <3>1 DEF Older, CancelCall
    <3>3. calls' = f \o (Tail(w) \o (<<SubscribeCall(j)>> \o (<<WorkerLoop>> \o d)))
      BY <1>3, <2>1
    <3>. QED
      BY <1>3, <2>1, <3>2, <3>3, LetGoStep
  <2>6. v = f
    <3>1. f \in Seq(LetGoCall)
      BY <1>3
    <3>2. f \o <<>> = f
      BY ONLY <3>1, ConcatEmptySeq
    <3>. QED
      BY <2>4, <2>5, <3>2, Zenon
  <2>7. StartQuota' /\ Emitted' /\ Backlog'
    BY <1>1, <1>4, <2>3, MaxParallelAssumption DEF StartQuota, Emitted, Backlog
  <2>8. f = <<>> \/ f = <<SetDoneCall(i)>>
    BY <1>3, <2>3, <2>4, DoOne DEF LetGo, SetDoneCall
  <2>9. LetGoQuota(v, j)'
    <3>1. CASE f = <<>>
      BY <2>6, <2>7, <3>1 DEF LetGoQuota
    <3>2. CASE f = <<SetDoneCall(i)>>
      BY <1>4, <2>3, <2>4, <2>6, <2>7, <3>2 DEF LetGoQuota, Siblings, Alone, ConsumerOf
    <3>. QED
      BY <2>8, <3>1, <3>2
  <2>10. Quota'
    BY <2>1, <2>5, <2>9 DEF Quota
  <2>. QED
    BY <1>1, <1>4, <1>5, <1>6, <2>10 DEF Held, AtMostMaxParallel
<1>. QED
  BY <1>1, <1>7, <1>8, QuotaOnTop

LEMMA AppendedToOne ==
    ASSUME NEW a, NEW b
    PROVE  Append(<<a>>, b) = <<a, b>>
<1>. DEFINE p == Append(<<a>>, b)
<1>1. <<a>> \in Seq({a, b}) /\ <<a, b>> \in Seq({a, b}) /\ b \in {a, b}
  OBVIOUS
<1>2. /\ p \in Seq({a, b}) /\ Len(p) = 2
      /\ p[1] = a /\ p[2] = b
  BY <1>1, AppendProperties
<1>3. Len(<<a, b>>) = 2 /\ <<a, b>>[1] = a /\ <<a, b>>[2] = b
  OBVIOUS
<1>. HIDE DEF p
<1>4. \A k \in 1..2 : p[k] = <<a, b>>[k]
  <2>1. \A k \in 1..2 : k = 1 \/ k = 2
    OBVIOUS
  <2>. QED
    BY <1>2, <1>3, <2>1
<1>. QED
  BY <1>1, <1>2, <1>3, <1>4, SeqEqual DEF p

LEMMA SetDoneKeepsSlots ==
    ASSUME Inv, Inv', QInv, SetDone
    PROVE  QInv'
<1>. USE DEF QInv
<1>1. /\ id \in Ids /\ calls /= <<>> /\ started \in Seq(Ids) /\ Distinct(started)
      /\ Rest \in Seq(Call) /\ calls \in Seq(Call) /\ Top("setDone")
  BY OnTop DEF SetDone, Top, Inv, TypeOK, Life
<1>2. PICK i : i = id /\ i \in Ids
  BY <1>1
<1>3. CASE i \notin listening
  <2>1. /\ calls' = Rest
        /\ UNCHANGED <<keys, status, inner, buffer, listening, started, outcome, phase, cancelled>>
    BY <1>2, <1>3 DEF SetDone
  <2>2. InProgress' = InProgress /\ Waiting' = Waiting /\ Count' = Count
    BY <2>1 DEF InProgress, Waiting, Count
  <2>3. CASE Idle /\ Rest \in Seq(LowerCall)
    <3>1. Starting' = {}
      <4>1. StartingIn(Rest) = {}
        BY <2>3, StartingInShapes
      <4>. QED
        BY <2>1, <4>1 DEF Starting, StartingIn
    <3>2. Quota'
      BY <2>1, <2>3 DEF Quota, Idle
    <3>. QED
      BY <2>1, <2>2, <3>1, <3>2 DEF Held, AtMostMaxParallel
  <2>4. CASE \E j \in Ids, d \in Seq(LowerCall), w \in Seq(LetGoCall) :
                /\ w /= <<>> /\ LettingGo(w, j, d) /\ LetGoQuota(w, j)
                /\ Head(w) = Head(calls) /\ Tail(w) \in Seq(LetGoCall)
                /\ Rest = Tail(w) \o (<<SubscribeCall(j)>> \o (<<WorkerLoop>> \o d))
    <3>1. PICK j, d, w :
                /\ j \in Ids /\ d \in Seq(LowerCall) /\ w \in Seq(LetGoCall)
                /\ w /= <<>> /\ LettingGo(w, j, d) /\ LetGoQuota(w, j) /\ Head(w) = Head(calls)
      BY <2>4
    <3>2. Head(w) = SetDoneCall(i)
      BY <1>1, <1>2, <3>1, OnTop DEF Inv, SetDoneCall
    <3>3. i \in InProgress
      <4>1. \A a, b : (SetDoneCall(a) = SetDoneCall(b) => a = b) /\ CancelCall(a) /= SetDoneCall(b)
        BY DEF CancelCall, SetDoneCall
      <4>2. \A c : Head(<<c>>) = c
        OBVIOUS
      <4>. QED
        BY <3>1, <3>2, <4>1, <4>2 DEF LetGoQuota
    <3>. QED
      BY <1>2, <1>3, <3>3 DEF Held, InProgress, WithStatus
  <2>. QED
    BY <1>1, <2>3, <2>4, QuotaOnTop
<1>4. CASE i \in listening
  <2>1. /\ listening' = listening \ {i} /\ started' = RemoveFirst(started, i)
        /\ status' = [status EXCEPT ![i] = "Done"] /\ Publish(Rest)
    BY <1>2, <1>4 DEF SetDone
  <2>2. /\ InProgress' = InProgress \ {i} /\ Waiting' = Waiting \ {i}
        /\ Count \in Nat /\ Count' = (IF i \in InProgress THEN Count - 1 ELSE Count) /\ Count' \in Nat
        /\ Cardinality((InProgress \cap DataQueries)') <= Cardinality(InProgress \cap DataQueries)
        /\ Cardinality((InProgress \cap DataQueries)') \in Int
        /\ Cardinality(InProgress \cap DataQueries) \in Int
    BY <1>2, <2>1, CountGone DEF Inv
  <2>3. ToSet(started') = ToSet(started) \ {i}
    BY <1>1, <2>1, RemovedFirst
  <2>4. AtMostMaxParallel'
    BY <2>2, MaxParallelAssumption DEF AtMostMaxParallel
  <2>5. /\ \A k \in Ids : status'[k] /= "Done" => k \in listening'
    BY <1>2, <2>1 DEF Held, Inv, TypeOK
  <2>6. CASE Idle /\ Rest \in Seq(LowerCall)
    <3>1. PICK d : d = Rest /\ d \in Seq(LowerCall)
      BY <2>6
    <3>2. ~Contains(d, WorkerLoop) /\ inner = <<>> /\ buffer = <<>> /\ calls \in Seq(LowerCall)
      BY <2>6, <3>1, NoLoopBelow DEF Idle
    <3>3. Starting = {} /\ StartingIn(d) = {} /\ StartingIn(<<WorkerLoop>> \o d) = {}
      <4>1. d \in Seq(LowerCall) /\ calls \in Seq(LowerCall)
        BY <3>1, <3>2
      <4>2. StartingIn(calls) = {} /\ StartingIn(d) = {} /\ StartingIn(<<WorkerLoop>> \o d) = {}
        BY ONLY <4>1, StartingInShapes
      <4>. QED
        BY <4>2 DEF Starting, StartingIn
    <3>4. CASE Waiting' = {}
      <4>1. calls' = d /\ inner' = <<>> /\ buffer' = <<>>
        BY <2>1, <3>1, <3>2, <3>4 DEF Publish, Waiting
      <4>2. Quota'
        BY <3>1, <4>1 DEF Quota, Idle
      <4>3. Starting' = {}
        <5>1. StartingIn(calls') = {}
          BY <3>3, <4>1, Zenon
        <5>. QED
          BY <5>1 DEF Starting, StartingIn
      <4>4. ToSet(inner') = {}
        BY <4>1 DEF ToSet
      <4>. QED
        BY <2>2, <2>3, <2>4, <2>5, <3>3, <4>2, <4>3, <4>4 DEF Held
    <3>5. CASE Waiting' /= {}
      <4>1. /\ calls' = <<WorkerLoop>> \o d /\ buffer' = <<>>
            /\ inner' = ToStart(keys', status', Count')
        BY <2>1, <3>1, <3>2, <3>5 DEF Publish, Waiting, Count, InProgress
      <4>2. Waiting \subseteq DataQueries /\ Count >= MaxParallel
        <5>1. ~Busy /\ Waiting /= {}
          BY <2>2, <2>6, <3>5, NoLoopBelow DEF Idle, Busy
        <5>. QED
          BY <5>1 DEF Inv, UpToDate
      <4>3. Waiting' \subseteq DataQueries /\ Count' + 1 >= MaxParallel
        BY <2>2, <4>2, MaxParallelAssumption
      <4>4. LoopQuota'
        BY <4>1, <4>3, QuotaOfUpdate DEF Inv
      <4>5. Quota'
        BY <3>1, <4>1, <4>4 DEF Quota, Looping
      <4>6. Starting' = {}
        <5>1. StartingIn(calls') = {}
          BY <3>3, <4>1, Zenon
        <5>. QED
          BY <5>1 DEF Starting, StartingIn
      <4>7. ToSet(inner') \subseteq Waiting'
        <5>1. /\ keys' \in Seq(Ids) /\ status' \in [Ids -> Statuses] /\ Distinct(keys')
              /\ ToSet(keys') = {k \in Ids : status'[k] /= "Done"}
          BY DEF Inv, TypeOK, KeysOK, Distinct
        <5>2. ToSet(ToStart(keys', status', Count')) \subseteq WithStatus("Pending", status')
          BY <2>2, <5>1, StartedByUpdate
        <5>. QED
          BY <4>1, <5>2 DEF Waiting
      <4>. QED
        BY <2>2, <2>3, <2>4, <2>5, <3>3, <4>5, <4>6, <4>7 DEF Held
    <3>. QED
      BY <3>4, <3>5
  <2>7. CASE \E j \in Ids, d \in Seq(LowerCall), w \in Seq(LetGoCall) :
                /\ w /= <<>> /\ LettingGo(w, j, d) /\ LetGoQuota(w, j)
                /\ Head(w) = Head(calls) /\ Tail(w) \in Seq(LetGoCall)
                /\ Rest = Tail(w) \o (<<SubscribeCall(j)>> \o (<<WorkerLoop>> \o d))
    <3>1. PICK j, d, w :
                /\ j \in Ids /\ d \in Seq(LowerCall) /\ w \in Seq(LetGoCall)
                /\ w /= <<>> /\ LettingGo(w, j, d) /\ LetGoQuota(w, j)
                /\ Head(w) = Head(calls) /\ Tail(w) \in Seq(LetGoCall)
                /\ Rest = Tail(w) \o (<<SubscribeCall(j)>> \o (<<WorkerLoop>> \o d))
      BY <2>7
    <3>2. Head(w) = SetDoneCall(i)
      BY <1>1, <1>2, <3>1, OnTop DEF Inv, SetDoneCall
    <3>3. PICK x \in InProgress \ {j} : /\ StartQuota
                                        /\ w = <<CancelCall(x)>> \/ w = <<SetDoneCall(x)>>
      BY <3>1 DEF LetGoQuota
    <3>4. x = i /\ Tail(w) = <<>>
      <4>1. \A a, b : (SetDoneCall(a) = SetDoneCall(b) => a = b) /\ CancelCall(a) /= SetDoneCall(b)
        BY DEF CancelCall, SetDoneCall
      <4>2. \A c : Head(<<c>>) = c /\ Tail(<<c>>) = <<>>
        OBVIOUS
      <4>3. w /= <<CancelCall(x)>>
        BY <3>2, <4>1, <4>2
      <4>4. w = <<SetDoneCall(x)>>
        BY <3>3, <4>3
      <4>5. Head(w) = SetDoneCall(x) /\ Tail(w) = <<>>
        BY <4>2, <4>4, Zenon
      <4>. QED
        BY <3>2, <4>1, <4>5
    <3>5. Contains(Rest, WorkerLoop)
      <4>1. Tail(w) \in Seq(Call)
        BY <3>1, CallFacts
      <4>2. WorkerLoop \in ToSet(Rest)
        BY <3>1, <4>1, LoopBelow
      <4>. QED
        BY <1>1, <4>2, SetOfSeq
    <3>6. /\ calls' = Rest /\ inner' = inner
          /\ buffer' = (IF Waiting' = {} THEN buffer ELSE Append(buffer, Count'))
      BY <2>1, <3>5 DEF Publish, Waiting, Count, InProgress
    <3>7. i \in InProgress /\ i /= j /\ i \notin Waiting /\ Waiting' = Waiting /\ Count' = Count - 1
      BY <2>2, <3>3, <3>4 DEF InProgress, Waiting, WithStatus
    <3>8. <<>> \in Seq(LetGoCall) /\ calls' = <<>> \o (Tail(w) \o (<<SubscribeCall(j)>> \o (<<WorkerLoop>> \o d)))
      BY <1>1, <3>1, <3>6, ConcatEmptySeq
    <3>9. PICK v : v = <<>> \o Tail(w) /\ v \in Seq(LetGoCall) /\ LettingGo(v, j, d)'
      <4>1. \A k \in Older(j)' : k \in Older(j) /\ CancelCall(k) /= Head(w)
        BY <2>3, <3>2 DEF Older, CancelCall, SetDoneCall
      <4>. QED
        BY <3>1, <3>8, <4>1, LetGoStep
    <3>10. v = <<>>
      <4>1. <<>> \o <<>> = <<>>
        OBVIOUS
      <4>. QED
        BY <3>4, <3>9, <4>1, Zenon
    <3>11. Emitted' /\ Backlog'
      <4>1. Emitted'
        BY <3>3, <3>6, <3>7 DEF StartQuota, Emitted
      <4>2. CASE Waiting = {}
        <5>1. buffer' = <<>>
          BY <3>3, <3>6, <3>7, <4>2, Zenon DEF StartQuota
        <5>2. Waiting' = {}
          BY <3>7, <4>2
        <5>. QED
          BY <4>1, <5>1, <5>2, Zenon DEF Backlog
      <4>3. CASE Waiting /= {}
        <5>1. buffer = <<Count>> /\ Count >= MaxParallel
          BY <3>3, <4>3 DEF StartQuota
        <5>2. Count' + 1 = Count
          BY <2>2, <3>7
        <5>3. buffer' = <<Count' + 1, Count'>>
          <6>1. Append(<<Count>>, Count') = <<Count, Count'>>
            BY AppendedToOne
          <6>2. buffer' = Append(<<Count>>, Count')
            BY <3>6, <3>7, <4>3, <5>1, Zenon
          <6>3. buffer' = <<Count, Count'>>
            BY <6>1, <6>2, Zenon
          <6>. QED
            BY <5>2, <6>3, Zenon
        <5>4. Count' + 1 >= MaxParallel
          BY <5>1, <5>2
        <5>5. Waiting' /= {}
          BY <3>7, <4>3
        <5>. QED
          BY <4>1, <5>3, <5>4, <5>5, Zenon DEF Backlog
      <4>. QED
        BY <4>1, <4>2, <4>3
    <3>12. LetGoQuota(v, j)'
      BY <3>10, <3>11 DEF LetGoQuota
    <3>13. Quota'
      BY <3>1, <3>9, <3>12 DEF Quota
    <3>14. Starting' = Starting
      <4>1. calls' = <<>> \o Rest /\ <<>> \in Seq(LetGoCall)
        BY <1>1, <3>6, ConcatEmptySeq
      <4>. QED
        BY <1>1, <4>1, StillStarting DEF Inv
    <3>15. Starting = {j}
      <4>1. j \in Ids /\ d \in Seq(LowerCall) /\ w \in Seq(LetGoCall)
        BY <3>1
      <4>2. StartingIn(w \o (<<SubscribeCall(j)>> \o (<<WorkerLoop>> \o d))) = {j}
        BY ONLY <4>1, StartingInShapes
      <4>3. calls = w \o (<<SubscribeCall(j)>> \o (<<WorkerLoop>> \o d))
        BY <3>1 DEF LettingGo
      <4>4. StartingIn(calls) = {j}
        BY <4>2, <4>3, Zenon
      <4>. QED
        BY <4>4 DEF Starting, StartingIn
    <3>16. ToSet(inner') \subseteq Waiting'
      BY <3>6, <3>7 DEF Held
    <3>17. ToSet(started') \cup Starting' \subseteq InProgress'
      BY <2>2, <2>3, <3>7, <3>14, <3>15 DEF Held
    <3>. QED
      BY <2>4, <2>5, <3>13, <3>16, <3>17 DEF Held
  <2>. QED
    BY <1>1, <2>6, <2>7, QuotaOnTop
<1>. QED
  BY <1>3, <1>4

LEMMA EventKeepsSlots ==
    ASSUME Inv, QInv, Events
    PROVE  QInv'
<1>. USE DEF QInv
<1>1. calls = <<>> /\ UNCHANGED <<keys, status, inner, buffer, listening, started, cancelled>>
  BY EventEffects DEF Inv
<1>2. calls' \in Seq(LowerCall)
  BY BeganAs DEF Inv
<1>3. Idle
  BY <1>1, NoCalls DEF Inv
<1>4. Quota'
  BY <1>1, <1>2, <1>3 DEF Quota, Idle
<1>5. Starting' = {}
  <2>1. StartingIn(calls') = {}
    BY <1>2, StartingInShapes
  <2>. QED
    BY <2>1 DEF Starting, StartingIn
<1>6. InProgress' = InProgress /\ Waiting' = Waiting
  BY <1>1 DEF InProgress, Waiting
<1>. QED
  BY <1>1, <1>4, <1>5, <1>6 DEF Held, AtMostMaxParallel

LEMMA SlotsStep ==
    ASSUME SharersAreSingle, Inv, Inv', OneInFlight, QInv, [Next]_vars
    PROVE  QInv'
<1>1. CASE UNCHANGED vars
  <2>. USE <1>1 DEF vars
  <2>1. InProgress' = InProgress /\ Waiting' = Waiting /\ Count' = Count /\ Starting' = Starting
    BY DEF InProgress, Waiting, Count, Starting, StartingIn
  <2>2. Held' /\ AtMostMaxParallel'
    BY <2>1 DEF QInv, Held, AtMostMaxParallel
  <2>3. Quota'
    <3>1. LoopQuota => LoopQuota'
      BY <2>1 DEF LoopQuota, Emitting, Emitted, Backlog
    <3>2. StartQuota => StartQuota'
      BY <2>1 DEF StartQuota, Emitted
    <3>3. \A w, j : LetGoQuota(w, j) => LetGoQuota(w, j)'
      BY <2>1, <3>2 DEF LetGoQuota, Emitted, Backlog, Siblings, Alone, ConsumerOf
    <3>4. Idle => Idle'
      BY DEF Idle
    <3>5. /\ \A d : Looping(d) => Looping(d)'
          /\ \A j, d : Fetching(j, d) => Fetching(j, d)'
          /\ \A w, j, d : LettingGo(w, j, d) => LettingGo(w, j, d)'
      BY DEF Looping, Fetching, LettingGo, Older
    <3>. QED
      BY <3>1, <3>2, <3>3, <3>4, <3>5 DEF QInv, Quota
  <2>. QED
    BY <2>2, <2>3 DEF QInv
<1>. QED
  BY <1>1, AddKeepsSlots, SetInProgressKeepsSlots, NextUpdateKeepsSlots, FetchKeepsSlots,
     SubscribeKeepsSlots, CancelKeepsSlots, SetDoneKeepsSlots, EventKeepsSlots
     DEF Next, Proceed, Events

LEMMA SlotsAtInit ==
    ASSUME Init
    PROVE  QInv
<1>1. InProgress = {} /\ ToSet(inner) = {} /\ ToSet(started) = {} /\ Starting = {}
  BY DEF Init, InProgress, WithStatus, ToSet, Starting, StartingIn
<1>2. Held
  BY <1>1 DEF Init, Held
<1>3. Quota
  BY DEF Init, Quota, Idle
<1>4. Cardinality(InProgress \cap DataQueries) = 0
  <2>1. InProgress \cap DataQueries = {}
    BY <1>1
  <2>. QED
    BY <2>1, FS_EmptySet
<1>. QED
  BY <1>2, <1>3, <1>4, MaxParallelAssumption DEF QInv, AtMostMaxParallel

LEMMA SlotsInvariance == Spec /\ []SharersAreSingle => []QInv
<1>1. Init => QInv
  BY SlotsAtInit
<1>2. SharersAreSingle /\ Inv /\ Inv' /\ OneInFlight /\ QInv /\ [Next]_vars => QInv'
  BY SlotsStep
<1>. QED
  BY <1>1, <1>2, Invariance, LatestAlone, PTL DEF Spec

(* As long as requests that share a request ID are on their own, every     *)
(* slot of the queue is held for an observer that listens: the entry that  *)
(* ResponseQueue puts back is never one whose consumer let go while        *)
(* concatMap was emitting (ResponseQueue.ts, setInProgress).               *)
THEOREM SlotsHeld == Spec /\ []SharersAreSingle => []SlotsAreHeld
<1>1. QInv => SlotsAreHeld
  BY DEF QInv, Held, SlotsAreHeld, InProgress, WithStatus
<1>. QED
  BY <1>1, SlotsInvariance, PTL

(* And no more data queries are underway than there are slots, although    *)
(* the counts the worker goes by may be out of date (FetchQueueWorker.ts,  *)
(* concatMap).                                                             *)
THEOREM WithinSlots == Spec /\ []SharersAreSingle => []AtMostMaxParallel
<1>1. QInv => AtMostMaxParallel
  BY DEF QInv
<1>. QED
  BY <1>1, SlotsInvariance, PTL

=============================================================================
