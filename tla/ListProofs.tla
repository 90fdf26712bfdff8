------------------------------ MODULE ListProofs ------------------------------
(***************************************************************************)
(* Lemmas about the lists of Lists.                                        *)
(***************************************************************************)
EXTENDS Lists, FiniteSetTheorems, SequenceTheorems, TLAPS

\* The places are counted from 1 up, without a gap.
LEMMA RankProperties ==
  ASSUME NEW S, NEW s \in Seq(S), NEW T
  PROVE  /\ Cardinality(Places(s, T)) \in 0 .. Len(s)
         /\ \A i \in Places(s, T) : Rank(s, T, i) \in 1 .. Cardinality(Places(s, T))
         /\ \A i, j \in Places(s, T) : i < j => Rank(s, T, i) < Rank(s, T, j)
         /\ \A n \in 1 .. Cardinality(Places(s, T)) :
              \E i \in Places(s, T) : Rank(s, T, i) = n
<1> DEFINE P == Places(s, T)
           len == Len(s)
           card == Cardinality(P)
           upTo(i) == {j \in P : j <= i}
           rank == [i \in P |-> Rank(s, T, i)]
<1>1. len \in Nat
  BY LenProperties
<1>2. P \subseteq 1 .. len
  BY DEF Places
<1> HIDE DEF P, len
<1>3. IsFiniteSet(1 .. len) /\ Cardinality(1 .. len) = len
  <2>1. /\ IsFiniteSet(1 .. len)
        /\ Cardinality(1 .. len) = IF 1 > len THEN 0 ELSE len - 1 + 1
    BY <1>1, FS_Interval
  <2>2. QED
    BY <1>1, <2>1
<1>4. IsFiniteSet(P) /\ card \in 0 .. len
  <2>1. IsFiniteSet(P) /\ card <= len
    BY <1>2, <1>3, FS_Subset
  <2>2. card \in Nat
    BY <2>1, FS_CardinalityType
  <2>3. QED
    BY <1>1, <2>1, <2>2
<1> HIDE DEF card
<1>5. ASSUME NEW i \in P
      PROVE  IsFiniteSet(upTo(i)) /\ Rank(s, T, i) = Cardinality(upTo(i)) /\ Rank(s, T, i) \in 1 .. card
  <2>1. upTo(i) \in SUBSET P
    OBVIOUS
  <2>2. IsFiniteSet(upTo(i)) /\ Cardinality(upTo(i)) <= card
    BY <1>4, <2>1, FS_Subset DEF card
  <2>3. i \in upTo(i)
    BY <1>2
  <2>4. Cardinality(upTo(i)) # 0 /\ Cardinality(upTo(i)) \in Nat
    BY <2>2, <2>3, FS_EmptySet, FS_CardinalityType
  <2>5. Rank(s, T, i) = Cardinality(upTo(i))
    BY DEF Rank, P
  <2> HIDE DEF upTo
  <2>6. QED
    BY <1>4, <2>2, <2>4, <2>5
<1>6. ASSUME NEW i \in P, NEW j \in P, i < j
      PROVE  Rank(s, T, i) < Rank(s, T, j)
  <2>1. j \notin upTo(i) /\ i \in Int /\ j \in Int
    BY <1>1, <1>2, <1>6
  <2>2. upTo(i) \cup {j} \in SUBSET upTo(j)
    <3>1. \A x \in P : x <= i => x <= j
      BY <1>1, <1>2, <1>6
    <3>2. j \in P /\ j <= j
      BY <2>1
    <3>3. QED
      BY <3>1, <3>2
  <2>3. /\ IsFiniteSet(upTo(i)) /\ IsFiniteSet(upTo(j))
        /\ Rank(s, T, i) = Cardinality(upTo(i)) /\ Rank(s, T, j) = Cardinality(upTo(j))
        /\ Rank(s, T, i) \in 1 .. card /\ Rank(s, T, j) \in 1 .. card
    BY <1>5
  <2> HIDE DEF upTo
  <2>4. Cardinality(upTo(i) \cup {j}) = Cardinality(upTo(i)) + 1
    BY <2>1, <2>3, FS_AddElement
  <2>5. Cardinality(upTo(i) \cup {j}) <= Cardinality(upTo(j))
    BY <2>2, <2>3, FS_Subset
  <2>6. QED
    BY <1>4, <2>3, <2>4, <2>5
<1>7. rank \in Surjection(P, 1 .. card)
  <2>1. rank \in [P -> 1 .. card]
    BY <1>5
  <2>2. \A i, j \in P : rank[i] = rank[j] => i = j
    <3> SUFFICES ASSUME NEW i \in P, NEW j \in P, i # j PROVE rank[i] # rank[j]
      OBVIOUS
    <3>1. i < j \/ j < i
      BY <1>2
    <3>2. rank[i] = Rank(s, T, i) /\ rank[j] = Rank(s, T, j)
      OBVIOUS
    <3>3. Rank(s, T, i) \in 1 .. card /\ Rank(s, T, j) \in 1 .. card
      BY <1>5
    <3> HIDE DEF rank
    <3>4. QED
      BY <1>4, <1>6, <3>1, <3>2, <3>3
  <2> HIDE DEF rank
  <2>3. rank \in Injection(P, 1 .. card)
    BY <2>1, <2>2 DEF Injection, IsInjective
  <2>4. IsFiniteSet(1 .. card) /\ Cardinality(1 .. card) = card
    <3>1. /\ IsFiniteSet(1 .. card)
          /\ Cardinality(1 .. card) = IF 1 > card THEN 0 ELSE card - 1 + 1
      BY <1>4, FS_Interval
    <3>2. QED
      BY <1>4, <3>1
  <2>5. QED
    BY <2>3, <2>4, FS_Injection DEF card
<1>8. \A n \in 1 .. card : \E i \in P : Rank(s, T, i) = n
  BY <1>7 DEF Surjection
<1>9. QED
  BY <1>4, <1>5, <1>6, <1>8 DEF P, card, len

\* What Only leaves: a sequence at of ascending positions of s, those where s
\* has an element of T.
Selects(at, s, T, r) ==
  /\ at \in [1 .. Len(r) -> 1 .. Len(s)]
  /\ \A n \in 1 .. Len(r) : r[n] = s[at[n]] /\ r[n] \in T
  /\ \A n, m \in 1 .. Len(r) : n < m => at[n] < at[m]
  /\ \A i \in 1 .. Len(s) : s[i] \in T => \E n \in 1 .. Len(r) : at[n] = i

\* Only is the filter it is meant to be.
LEMMA OnlyProperties ==
  ASSUME NEW S, NEW s \in Seq(S), NEW T
  PROVE  /\ Only(s, T) \in Seq(S) /\ Len(Only(s, T)) \in 0 .. Len(s)
         /\ \E at : Selects(at, s, T, Only(s, T))
<1> DEFINE r == Only(s, T)
           P == Places(s, T)
           card == Cardinality(P)
           at == [n \in 1 .. card |-> CHOOSE i \in P : Rank(s, T, i) = n]
<1>1. Len(s) \in Nat /\ \A i \in 1 .. Len(s) : s[i] \in S
  BY LenProperties
<1>2. \A i : i \in P <=> i \in 1 .. Len(s) /\ s[i] \in T
  BY DEF Places
<1>3. /\ card \in 0 .. Len(s)
      /\ \A i \in P : Rank(s, T, i) \in 1 .. card
      /\ \A i, j \in P : i < j => Rank(s, T, i) < Rank(s, T, j)
      /\ \A n \in 1 .. card : \E i \in P : Rank(s, T, i) = n
  BY RankProperties
<1>4. r = [n \in 1 .. card |-> s[at[n]]]
  BY DEF Only
<1>5. \A n \in 1 .. card : at[n] \in P /\ Rank(s, T, at[n]) = n
  BY <1>3
<1> HIDE DEF at, P, card, r
<1>6. r \in [1 .. card -> S]
  BY <1>1, <1>2, <1>4, <1>5
<1>7. r \in Seq(S) /\ Len(r) = card
  <2>1. card \in Nat
    BY <1>1, <1>3
  <2>2. r \in Seq(S)
    BY <1>6, <2>1, IsASeq
  <2>3. DOMAIN r = 1 .. Len(r) /\ Len(r) \in Nat /\ DOMAIN r = 1 .. card
    BY <1>6, <2>2, LenProperties
  <2>4. Len(r) = card
    <3> DEFINE len == Len(r)
    <3>1. len \in Nat /\ card \in Nat /\ 1 .. len = 1 .. card
      BY <2>1, <2>3
    <3> HIDE DEF len
    <3>2. card \in 1 .. card <=> card \in 1 .. len
      BY <3>1
    <3>3. len \in 1 .. card <=> len \in 1 .. len
      BY <3>1
    <3>4. len = card
      <4>1. card <= len
        BY <3>1, <3>2
      <4>2. len <= card
        BY <3>1, <3>3
      <4>3. QED
        BY <3>1, <4>1, <4>2
    <3>5. QED
      BY <3>4 DEF len
  <2>5. QED
    BY <2>2, <2>4
<1>8. at \in [1 .. card -> 1 .. Len(s)]
  BY <1>2, <1>5 DEF at
<1>9. \A n \in 1 .. card : r[n] = s[at[n]] /\ r[n] \in T
  BY <1>2, <1>4, <1>5
<1>10. ASSUME NEW n \in 1 .. card, NEW m \in 1 .. card, n < m
       PROVE  at[n] < at[m]
  <2>1. /\ at[n] \in P /\ Rank(s, T, at[n]) = n /\ at[m] \in P /\ Rank(s, T, at[m]) = m
        /\ at[n] \in 1 .. Len(s) /\ at[m] \in 1 .. Len(s)
    BY <1>2, <1>5
  <2>2. CASE at[m] < at[n]
    <3>1. m < n
      BY <1>3, <2>1, <2>2
    <3>2. QED
      BY <1>1, <1>3, <1>10, <3>1
  <2>3. CASE at[m] = at[n]
    BY <1>1, <1>3, <1>10, <2>1, <2>3
  <2>4. QED
    BY <1>1, <2>1, <2>2, <2>3
<1>11. ASSUME NEW i \in 1 .. Len(s), s[i] \in T
       PROVE  \E n \in 1 .. card : at[n] = i
  <2> DEFINE n == Rank(s, T, i)
  <2>1. i \in P
    BY <1>2, <1>11
  <2>2. n \in 1 .. card
    BY <1>3, <2>1
  <2>3. /\ at[n] \in P /\ Rank(s, T, at[n]) = n
        /\ at[n] \in 1 .. Len(s)
    BY <1>2, <1>5, <2>2
  <2>4. ~(at[n] < i) /\ ~(i < at[n])
    BY <1>1, <1>3, <2>1, <2>2, <2>3
  <2>5. at[n] = i
    BY <1>1, <2>3, <2>4
  <2>6. QED
    BY <2>2, <2>5
<1>12. Selects(at, s, T, r)
  BY <1>7, <1>8, <1>9, <1>10, <1>11 DEF Selects
<1>13. QED
  BY <1>3, <1>7, <1>12 DEF r

\* What Only leaves are the elements of s that are in T.
LEMMA OnlyElements ==
  ASSUME NEW S, NEW s \in Seq(S), NEW T
  PROVE  Range(Only(s, T)) = Range(s) \cap T
<1> DEFINE r == Only(s, T)
<1>1. r \in Seq(S)
  BY OnlyProperties
<1>2. PICK at : Selects(at, s, T, r)
  BY OnlyProperties
<1> HIDE DEF r
<1>3. DOMAIN r = 1 .. Len(r) /\ DOMAIN s = 1 .. Len(s)
  BY <1>1, LenProperties
<1>4. ASSUME NEW x \in Range(r) PROVE x \in Range(s) \cap T
  <2>1. PICK n \in 1 .. Len(r) : x = r[n]
    BY <1>3, <1>4 DEF Range
  <2>2. at[n] \in DOMAIN s /\ x = s[at[n]] /\ x \in T
    BY <1>2, <1>3, <2>1 DEF Selects
  <2>3. QED
    BY <2>2 DEF Range
<1>5. ASSUME NEW x \in Range(s) \cap T PROVE x \in Range(r)
  <2>1. PICK i \in 1 .. Len(s) : x = s[i]
    BY <1>3, <1>5 DEF Range
  <2>2. PICK n \in 1 .. Len(r) : at[n] = i
    BY <1>2, <1>5, <2>1 DEF Selects
  <2>3. r[n] = x
    BY <1>2, <2>1, <2>2 DEF Selects
  <2>4. QED
    BY <1>3, <2>3 DEF Range
<1>6. QED
  BY <1>4, <1>5 DEF r
==============================================================================
