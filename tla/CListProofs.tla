----------------------------- MODULE CListProofs -----------------------------
(***************************************************************************)
(* Lemmas about lists, and the least element and induction for the numbers *)
(* of their nodes.                                                         *)
(***************************************************************************)
EXTENDS CList, SequenceTheorems, WellFoundedInduction, TLAPS
------------------------------------------------------------------------------
(***************************************************************************)
(* Lists.                                                                  *)
(***************************************************************************)
\* A node that is on a list has a position there.
LEMMA PositionProps ==
  ASSUME NEW S, NEW s \in Seq(S), NEW e \in ToSet(s)
  PROVE  /\ PositionOf(s, e) \in 1 .. Len(s)
         /\ s[PositionOf(s, e)] = e
  BY DEF PositionOf, ToSet

\* RemoveAt closes the gap: what came after the node moves up by one.
LEMMA RemoveAtProps ==
  ASSUME NEW S, NEW s \in Seq(S), NEW n \in 1 .. Len(s)
  PROVE  /\ RemoveAt(s, n) \in Seq(S)
         /\ Len(RemoveAt(s, n)) = Len(s) - 1
         /\ \A i \in 1 .. Len(s) - 1 :
              RemoveAt(s, n)[i] = IF i < n THEN s[i] ELSE s[i + 1]
<1> DEFINE a == SubSeq(s, 1, n - 1)
           b == SubSeq(s, n + 1, Len(s))
<1>1. a \in Seq(S) /\ Len(a) = n - 1 /\ \A i \in 1 .. n - 1 : a[i] = s[i]
  BY SubSeqProperties
<1>2. /\ b \in Seq(S) /\ Len(b) = Len(s) - n
      /\ \A i \in 1 .. Len(s) - n : b[i] = s[n + i]
  BY SubSeqProperties
<1>3. RemoveAt(s, n) = a \o b
  BY DEF RemoveAt
<1> HIDE DEF a, b
<1>4. /\ a \o b \in Seq(S)
      /\ Len(a \o b) = Len(a) + Len(b)
      /\ \A i \in 1 .. Len(a) + Len(b) :
           (a \o b)[i] = IF i <= Len(a) THEN a[i] ELSE b[i - Len(a)]
  BY <1>1, <1>2, ConcatProperties
<1> QED
  BY <1>1, <1>2, <1>3, <1>4

LEMMA WithoutType ==
  ASSUME NEW S, NEW s \in Seq(S), NEW e
  PROVE  Without(s, e) \in Seq(S)
<1>1. CASE e \in ToSet(s)
  <2>1. PositionOf(s, e) \in 1 .. Len(s)
    BY <1>1, PositionProps
  <2> QED
    BY <1>1, <2>1, RemoveAtProps DEF Without
<1>2. CASE e \notin ToSet(s)
  BY <1>2 DEF Without
<1> QED
  BY <1>1, <1>2

\* Removing a node from a list of distinct nodes leaves the others, each once.
LEMMA WithoutProps ==
  ASSUME NEW S, NEW s \in Seq(S), IsInjective(s), NEW e
  PROVE  /\ Without(s, e) \in Seq(S)
         /\ ToSet(Without(s, e)) = ToSet(s) \ {e}
         /\ IsInjective(Without(s, e))
<1>1. CASE e \notin ToSet(s)
  BY <1>1 DEF Without
<1>2. CASE e \in ToSet(s)
  <2> DEFINE n == PositionOf(s, e)
             r == RemoveAt(s, n)
  <2>1. n \in 1 .. Len(s) /\ s[n] = e
    BY <1>2, PositionProps
  <2>2. r = Without(s, e)
    BY <1>2 DEF Without
  <2>3. /\ r \in Seq(S)
        /\ Len(r) = Len(s) - 1
        /\ \A i \in 1 .. Len(s) - 1 : r[i] = IF i < n THEN s[i] ELSE s[i + 1]
    BY <2>1, RemoveAtProps
  <2> HIDE DEF r, n
  <2>4. IsInjective(r)
    BY <2>1, <2>3 DEF IsInjective
  <2>5. ASSUME NEW x \in ToSet(r) PROVE x \in ToSet(s) \ {e}
    BY <2>1, <2>3, <2>5, SMTT(30) DEF IsInjective, ToSet
  <2>6. ASSUME NEW x \in ToSet(s) \ {e} PROVE x \in ToSet(r)
    <3>1. PICK i \in 1 .. Len(s) : s[i] = x
      BY DEF ToSet
    <3>2. i # n
      BY <2>1, <3>1
    <3>3. CASE i < n
      BY <2>1, <2>3, <3>1, <3>3 DEF ToSet
    <3>4. CASE i > n
      <4>1. i - 1 \in 1 .. Len(r) /\ r[i - 1] = x
        BY <2>1, <2>3, <3>1, <3>4
      <4> QED
        BY <4>1, <2>3 DEF ToSet
    <3> QED
      BY <2>1, <3>1, <3>2, <3>3, <3>4
  <2> QED
    BY <2>2, <2>3, <2>4, <2>5, <2>6
<1> QED
  BY <1>1, <1>2

\* Joining a list at its tail.
LEMMA AppendProps ==
  ASSUME NEW S, NEW s \in Seq(S), IsInjective(s), NEW e \in S, e \notin ToSet(s)
  PROVE  /\ Append(s, e) \in Seq(S)
         /\ ToSet(Append(s, e)) = ToSet(s) \cup {e}
         /\ IsInjective(Append(s, e))
         /\ Append(s, e) # <<>>
<1> DEFINE r == Append(s, e)
<1>1. /\ r \in Seq(S)
      /\ Len(r) = Len(s) + 1
      /\ \A i \in 1 .. Len(s) : r[i] = s[i]
      /\ r[Len(s) + 1] = e
      /\ r # <<>>
  BY AppendProperties
<1> HIDE DEF r
<1>2. IsInjective(r)
  BY <1>1 DEF IsInjective, ToSet
<1>3. ToSet(r) = ToSet(s) \cup {e}
  <2>1. ToSet(r) \subseteq ToSet(s) \cup {e}
    BY <1>1 DEF ToSet
  <2>2. ASSUME NEW x \in ToSet(s) PROVE x \in ToSet(r)
    BY <1>1, <2>2 DEF ToSet
  <2>3. e \in ToSet(r)
    <3>1. Len(s) + 1 \in DOMAIN r
      BY <1>1
    <3> QED
      BY <1>1, <3>1 DEF ToSet
  <2> QED
    BY <2>1, <2>2, <2>3
<1> QED
  BY <1>1, <1>2, <1>3 DEF r

\* Taking the head off a list without repetitions.
LEMMA TailProps ==
  ASSUME NEW S, NEW s \in Seq(S), IsInjective(s), s # <<>>
  PROVE  /\ IsInjective(Tail(s))
         /\ ToSet(Tail(s)) = ToSet(s) \ {Head(s)}
<1> DEFINE a == Tail(s)
           h == Head(s)
<1>1. /\ a \in Seq(S) /\ h \in S
      /\ Len(a) = Len(s) - 1
      /\ \A i \in 1 .. Len(s) - 1 : a[i] = s[i + 1]
      /\ h = s[1]
      /\ Len(s) \in Nat /\ Len(s) > 0
  BY HeadTailProperties, EmptySeq
<1> HIDE DEF a, h
<1>2. \A i, j \in 1 .. Len(s) : s[i] = s[j] => i = j
  BY DEF IsInjective
<1>3. IsInjective(a)
  <2>1. ASSUME NEW i \in 1 .. Len(a), NEW j \in 1 .. Len(a), a[i] = a[j]
        PROVE  i = j
    <3>1. /\ i + 1 \in 1 .. Len(s) /\ j + 1 \in 1 .. Len(s)
          /\ s[i + 1] = s[j + 1]
      BY <1>1, <2>1
    <3> QED
      BY <1>2, <3>1
  <2> QED
    BY <1>1, <2>1 DEF IsInjective
<1>4. h \notin ToSet(a)
  <2> SUFFICES ASSUME NEW i \in 1 .. Len(a), a[i] = h
               PROVE  FALSE
    BY <1>1 DEF ToSet
  <2>1. 1 \in 1 .. Len(s) /\ i + 1 \in 1 .. Len(s) /\ s[i + 1] = s[1]
    BY <1>1
  <2>2. i + 1 = 1
    BY <1>2, <2>1
  <2> QED
    BY <2>2
<1>5. ToSet(s) \subseteq ToSet(a) \cup {h}
  <2> SUFFICES ASSUME NEW i \in 1 .. Len(s)
               PROVE  s[i] \in ToSet(a) \cup {h}
    BY DEF ToSet
  <2>1. CASE i = 1
    BY <1>1, <2>1
  <2>2. CASE i # 1
    <3>1. i - 1 \in 1 .. Len(a) /\ a[i - 1] = s[i]
      BY <1>1, <2>2
    <3> QED
      BY <1>1, <3>1 DEF ToSet
  <2> QED
    BY <2>1, <2>2
<1>6. ToSet(a) \subseteq ToSet(s)
  <2> SUFFICES ASSUME NEW i \in 1 .. Len(a)
               PROVE  a[i] \in ToSet(s)
    BY <1>1 DEF ToSet
  <2>1. i + 1 \in 1 .. Len(s) /\ a[i] = s[i + 1]
    BY <1>1
  <2> QED
    BY <2>1 DEF ToSet
<1> QED
  BY <1>3, <1>4, <1>5, <1>6 DEF a, h

\* Rotating a list moves its first node to the end and keeps its nodes.
LEMMA RotatedProps ==
  ASSUME NEW S, NEW s \in Seq(S), IsInjective(s)
  PROVE  /\ Rotated(s) \in Seq(S)
         /\ ToSet(Rotated(s)) = ToSet(s)
         /\ IsInjective(Rotated(s))
         /\ Rotated(s) = <<>> <=> s = <<>>
<1>1. CASE s = <<>>
  BY <1>1 DEF Rotated
<1>2. CASE s # <<>>
  <2> DEFINE a == Tail(s)
             h == Head(s)
  <2>1. /\ a \in Seq(S) /\ h \in S
        /\ Len(a) = Len(s) - 1
        /\ \A i \in 1 .. Len(s) - 1 : a[i] = s[i + 1]
        /\ h = s[1]
        /\ Len(s) \in Nat /\ Len(s) > 0
    BY <1>2, HeadTailProperties, EmptySeq
  <2> HIDE DEF a, h
  <2>2. \A i, j \in 1 .. Len(s) : s[i] = s[j] => i = j
    BY DEF IsInjective
  <2>5. ASSUME NEW i \in 1 .. Len(a), NEW j \in 1 .. Len(a), a[i] = a[j]
        PROVE  i = j
    <3>1. /\ i + 1 \in 1 .. Len(s) /\ j + 1 \in 1 .. Len(s)
          /\ s[i + 1] = s[j + 1]
      BY <2>1, <2>5
    <3> QED
      BY <2>2, <3>1
  <2>6. IsInjective(a)
    BY <2>1, <2>5 DEF IsInjective
  <2>7. h \notin ToSet(a)
    <3> SUFFICES ASSUME NEW i \in 1 .. Len(a), a[i] = h
                 PROVE  FALSE
      BY <2>1 DEF ToSet
    <3>1. 1 \in 1 .. Len(s) /\ i + 1 \in 1 .. Len(s) /\ s[i + 1] = s[1]
      BY <2>1
    <3>2. i + 1 = 1
      BY <2>2, <3>1
    <3> QED
      BY <3>2
  <2>3. ToSet(s) = ToSet(a) \cup {h}
    <3>1. ASSUME NEW x \in ToSet(s) PROVE x \in ToSet(a) \cup {h}
      <4>1. PICK i \in 1 .. Len(s) : s[i] = x
        BY DEF ToSet
      <4>2. CASE i = 1
        BY <2>1, <4>1, <4>2
      <4>3. CASE i # 1
        <5>1. i - 1 \in DOMAIN a /\ a[i - 1] = x
          BY <2>1, <4>1, <4>3
        <5> QED
          BY <5>1 DEF ToSet
      <4> QED
        BY <4>2, <4>3
    <3>2. ToSet(a) \cup {h} \subseteq ToSet(s)
      BY <2>1 DEF ToSet
    <3> QED
      BY <3>1, <3>2
  <2>4. Rotated(s) = Append(a, h)
    BY <1>2 DEF Rotated, a, h
  <2> QED
    BY <1>2, <2>1, <2>3, <2>4, <2>6, <2>7, AppendProps
<1> QED
  BY <1>1, <1>2

\* Turning the circle to a node keeps its nodes.
LEMMA ToHeadProps ==
  ASSUME NEW S, NEW s \in Seq(S), IsInjective(s), NEW e
  PROVE  /\ ToHead(s, e) \in Seq(S)
         /\ ToSet(ToHead(s, e)) = ToSet(s)
         /\ IsInjective(ToHead(s, e))
         /\ ToHead(s, e) = <<>> <=> s = <<>>
<1>1. CASE e \notin ToSet(s)
  BY <1>1 DEF ToHead
<1>2. CASE e \in ToSet(s)
  <2> DEFINE n == PositionOf(s, e)
             a == SubSeq(s, n, Len(s))
             b == SubSeq(s, 1, n - 1)
             r == a \o b
  <2>1. n \in 1 .. Len(s)
    BY <1>2, PositionProps
  <2>2. ToHead(s, e) = r
    BY <1>2 DEF ToHead
  <2> HIDE DEF n
  <2>3. /\ a \in Seq(S) /\ Len(a) = Len(s) - n + 1
        /\ \A i \in 1 .. Len(s) - n + 1 : a[i] = s[n + i - 1]
    BY <2>1, SubSeqProperties
  <2>4. /\ b \in Seq(S) /\ Len(b) = n - 1
        /\ \A i \in 1 .. n - 1 : b[i] = s[i]
    BY <2>1, SubSeqProperties
  <2> HIDE DEF a, b
  <2>5. /\ r \in Seq(S)
        /\ Len(r) = Len(s)
        /\ \A i \in 1 .. Len(s) :
             r[i] = IF i <= Len(s) - n + 1 THEN s[n + i - 1]
                    ELSE s[i - (Len(s) - n + 1)]
    BY <2>1, <2>3, <2>4, ConcatProperties
  <2> HIDE DEF r
  <2>6. IsInjective(r)
    <3> SUFFICES ASSUME NEW i \in 1 .. Len(s), NEW j \in 1 .. Len(s), r[i] = r[j]
                 PROVE  i = j
      BY <2>5 DEF IsInjective
    <3> DEFINE at(x) == IF x <= Len(s) - n + 1 THEN n + x - 1
                        ELSE x - (Len(s) - n + 1)
    <3>1. \A x \in 1 .. Len(s) : at(x) \in 1 .. Len(s) /\ r[x] = s[at(x)]
      BY <2>1, <2>5
    <3>2. at(i) = at(j)
      <4> HIDE DEF at
      <4> QED
        BY <3>1 DEF IsInjective
    <3> QED
      BY <2>1, <3>2
  <2>7. ASSUME NEW x \in ToSet(r) PROVE x \in ToSet(s)
    <3>1. PICK i \in 1 .. Len(s) : r[i] = x
      BY <2>5 DEF ToSet
    <3>2. CASE i <= Len(s) - n + 1
      <4>1. n + i - 1 \in 1 .. Len(s) /\ s[n + i - 1] = x
        BY <2>1, <2>5, <3>1, <3>2
      <4> QED
        BY <4>1 DEF ToSet
    <3>3. CASE i > Len(s) - n + 1
      <4>1. /\ i - (Len(s) - n + 1) \in 1 .. Len(s)
            /\ s[i - (Len(s) - n + 1)] = x
        BY <2>1, <2>5, <3>1, <3>3
      <4> QED
        BY <4>1 DEF ToSet
    <3> QED
      BY <2>1, <3>2, <3>3
  <2>8. ASSUME NEW x \in ToSet(s) PROVE x \in ToSet(r)
    <3>1. PICK i \in 1 .. Len(s) : s[i] = x
      BY DEF ToSet
    <3>2. CASE i >= n
      <4>1. i - n + 1 \in DOMAIN r /\ r[i - n + 1] = x
        BY <2>1, <2>5, <3>1, <3>2
      <4> QED
        BY <4>1 DEF ToSet
    <3>3. CASE i < n
      <4> DEFINE m == i + (Len(s) - n + 1)
      <4>1. /\ m \in 1 .. Len(s) /\ ~(m <= Len(s) - n + 1)
            /\ m - (Len(s) - n + 1) = i
        BY <2>1, <3>3
      <4>2. m \in DOMAIN r /\ r[m] = x
        <5> HIDE DEF m
        <5> QED
          BY <2>5, <3>1, <4>1
      <4> QED
        BY <4>2 DEF ToSet
    <3> QED
      BY <2>1, <3>2, <3>3
  <2>9. r = <<>> <=> s = <<>>
    BY <2>5, EmptySeq
  <2> QED
    BY <2>2, <2>5, <2>6, <2>7, <2>8, <2>9
<1> QED
  BY <1>1, <1>2

LEMMA ToHeadType ==
  ASSUME NEW S, NEW s \in Seq(S), NEW e
  PROVE  ToHead(s, e) \in Seq(S)
<1>1. CASE e \in ToSet(s)
  <2> DEFINE n == PositionOf(s, e)
  <2>1. n \in 1 .. Len(s)
    BY <1>1, PositionProps
  <2> HIDE DEF n
  <2>2. SubSeq(s, n, Len(s)) \in Seq(S) /\ SubSeq(s, 1, n - 1) \in Seq(S)
    BY <2>1, SubSeqProperties
  <2> QED
    BY <1>1, <2>2, ConcatProperties DEF ToHead, n
<1>2. CASE e \notin ToSet(s)
  BY <1>2 DEF ToHead
<1> QED
  BY <1>1, <1>2
------------------------------------------------------------------------------
(***************************************************************************)
(* Numbers.                                                                *)
(***************************************************************************)
LEMMA Least ==
  ASSUME NEW T \in SUBSET Nat, T # {}
  PROVE  \E x \in T : \A y \in T : x <= y
<1>1. PICK x \in T : \A y \in T : ~ (<<y, x>> \in OpToRel(<, Nat))
  BY NatLessThanWellFounded, WFMin
<1>2. ASSUME NEW m \in Nat, NEW n \in Nat, m < n
      PROVE  <<m, n>> \in OpToRel(<, Nat)
  BY <1>2 DEF OpToRel
<1>3. ASSUME NEW y \in T PROVE ~(y < x)
  BY <1>1, <1>2
<1> QED
  BY <1>3

\* Induction up to N, G being the set of the numbers of which the fact holds.
LEMMA Induction ==
  ASSUME NEW N \in Nat, NEW G, 0 \in G,
         \A n \in 1 .. N : n - 1 \in G => n \in G
  PROVE  \A n \in 0 .. N : n \in G
<1> DEFINE T == {n \in 0 .. N : n \notin G}
<1> SUFFICES ASSUME T # {} PROVE FALSE
  OBVIOUS
<1>1. PICK m \in T : \A y \in T : m <= y
  <2>1. T \subseteq Nat
    OBVIOUS
  <2> HIDE DEF T
  <2> QED
    BY <2>1, Least
<1>2. m # 0 /\ m \in 1 .. N /\ m - 1 \notin T
  BY <1>1
<1>3. m - 1 \in G
  BY <1>2
<1> QED
  BY <1>2, <1>3

\* Max of a set of node numbers, which FoldLeft takes them by.
LEMMA MaxOf ==
  ASSUME NEW N \in Nat, NEW s \in SUBSET (1 .. N), s # {}
  PROVE  /\ Max(s) \in s
         /\ \A x \in s : x <= Max(s)
<1> DEFINE T == {n \in Nat : \A x \in s : x <= n}
<1>1. N \in T
  OBVIOUS
<1>2. PICK m \in T : \A y \in T : m <= y
  <2>1. T \subseteq Nat
    BY DEF T
  <2> HIDE DEF T
  <2> QED
    BY <1>1, <2>1, Least
<1>3. m \in s
  <2> SUFFICES ASSUME m \notin s PROVE FALSE
    OBVIOUS
  <2>1. \A x \in s : x \in Nat /\ x >= 1 /\ x <= m /\ x # m
    OBVIOUS
  <2>2. \A x \in s : x <= m - 1
    BY <2>1
  <2>3. PICK z \in s : TRUE
    OBVIOUS
  <2>4. m >= 1 /\ m - 1 \in Nat
    BY <2>1, <2>3
  <2>5. m - 1 \in T
    BY <2>2, <2>4
  <2> QED
    BY <1>2, <2>5
<1>4. \E x \in s : \A y \in s : x >= y
  BY <1>3
<1> QED
  BY <1>4 DEF Max
==============================================================================
