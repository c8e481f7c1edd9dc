-------------------------- MODULE FilteringProofs --------------------------
(***************************************************************************)
(* What Only does with the empty sequence, with an element at either end   *)
(* of the sequence, and with the type.  The lemmas are proved by way of a  *)
(* least counterexample, over the numbers that the recursion goes through. *)
(***************************************************************************)
EXTENDS Filtering, Integers, FiniteSetTheorems, SequenceTheorems, WellFoundedInduction, TLAPS

\* A non-empty set of natural numbers has a least element.
LEMMA LeastNumber ==
    ASSUME NEW T \in SUBSET Nat, T # {}
    PROVE  \E m \in T : \A k \in T : m <= k
<1>1. PICK n \in T : TRUE
  OBVIOUS
<1> DEFINE U == 0..n
           Q == {S \in SUBSET U : \E m \in T : m <= n /\ S = 0..m}
           R == StrictSubsetOrdering(U)
<1>2. IsWellFoundedOn(R, SUBSET U)
  <2>1. IsFiniteSet(U)
    BY <1>1, FS_Interval
  <2> QED
    BY <2>1, FS_StrictSubsetOrderingWellFounded, FS_FiniteSubsetsOfFinite
<1>3. Q # {}
  BY <1>1
<1>4. \E x \in Q : \A y \in Q : ~ (<<y, x>> \in R)
  <2> HIDE DEF R
  <2>1. Q \subseteq SUBSET U
    OBVIOUS
  <2> HIDE DEF Q, U
  <2> QED
    BY <1>2, <1>3, <2>1, WFMin
<1>5. PICK x \in Q : \A y \in Q : ~ (<<y, x>> \in R)
  BY <1>4
<1>6. PICK m \in T : m <= n /\ x = 0..m
  BY <1>5
<1>7. ASSUME NEW k \in T, k < m
      PROVE  FALSE
  <2>1. 0..k \in Q
    BY <1>6, <1>7, <1>1
  <2>2. 0..k \subseteq x /\ m \in x /\ m \notin 0..k
    BY <1>6, <1>7
  <2>3. <<0..k, x>> \in R
    BY <2>1, <2>2, <1>5 DEF StrictSubsetOrdering
  <2> QED
    BY <2>1, <2>3, <1>5
<1> QED
  BY <1>6, <1>7

\* The function that Only is defined by: its n-th value is what stays of the
\* first n elements.
KeepsOf(g, s, T, n) ==
    g = [i \in 0..n |->
            IF i = 0 THEN <<>>
            ELSE IF s[i] \in T THEN Append(g[i - 1], s[i]) ELSE g[i - 1]]

\* There is such a function for every n.
LEMMA KeepsExists ==
    ASSUME NEW s, NEW T
    PROVE  \A n \in Nat : \E g : KeepsOf(g, s, T, n)
<1> DEFINE Bad == {n \in Nat : ~ \E g : KeepsOf(g, s, T, n)}
<1>1. SUFFICES ASSUME Bad # {} PROVE FALSE
  OBVIOUS
<1>2. PICK m \in Bad : \A k \in Bad : m <= k
  BY <1>1, LeastNumber
<1>3. CASE m = 0
  <2>1. KeepsOf([i \in 0..0 |-> <<>>], s, T, 0)
    BY DEF KeepsOf
  <2> QED
    BY <1>2, <1>3, <2>1
<1>4. CASE m # 0
  <2>1. m - 1 \in Nat /\ m - 1 \notin Bad
    BY <1>2, <1>4
  <2>2. PICK g : KeepsOf(g, s, T, m - 1)
    BY <2>1
  <2> DEFINE last == IF s[m] \in T THEN Append(g[m - 1], s[m]) ELSE g[m - 1]
             h == [i \in 0..m |-> IF i = m THEN last ELSE g[i]]
  <2>3. ASSUME NEW i \in 0..m
        PROVE  h[i] = IF i = 0 THEN <<>>
                      ELSE IF s[i] \in T THEN Append(h[i - 1], s[i]) ELSE h[i - 1]
    <3>1. CASE i = m
      BY <3>1, <1>4, <2>1
    <3>2. CASE i # m
      <4>1. i \in 0..(m - 1) /\ (i # 0 => i - 1 \in 0..(m - 1))
        BY <3>2, <2>1
      <4>2. g[i] = IF i = 0 THEN <<>>
                   ELSE IF s[i] \in T THEN Append(g[i - 1], s[i]) ELSE g[i - 1]
        BY <4>1, <2>2 DEF KeepsOf
      <4> QED
        BY <3>2, <4>1, <4>2
    <3> QED
      BY <3>1, <3>2
  <2>4. h = [i \in 0..m |-> IF i = 0 THEN <<>>
                             ELSE IF s[i] \in T THEN Append(h[i - 1], s[i]) ELSE h[i - 1]]
    BY <2>3
  <2>5. KeepsOf(h, s, T, m)
    BY <2>4 DEF KeepsOf
  <2> QED
    BY <1>2, <2>5
<1> QED
  BY <1>3, <1>4

\* What stays of the first n elements, for every n: the recursion holds.
LEMMA OnlyKeeps ==
    ASSUME NEW S, NEW s \in Seq(S), NEW T
    PROVE  \E g : KeepsOf(g, s, T, Len(s)) /\ Only(s, T) = g[Len(s)]
<1> DEFINE h == CHOOSE g : KeepsOf(g, s, T, Len(s))
<1>1. Len(s) \in Nat
  OBVIOUS
<1>2. KeepsOf(h, s, T, Len(s))
  BY <1>1, KeepsExists
<1>3. Only(s, T) = h[Len(s)]
  BY DEF Only, KeepsOf
<1> QED
  BY <1>2, <1>3

\* Nothing stays of the empty sequence.
LEMMA OnlyEmpty ==
    ASSUME NEW T
    PROVE  Only(<<>>, T) = <<>>
<1>1. PICK g : KeepsOf(g, <<>>, T, 0) /\ Only(<<>>, T) = g[0]
  <2>1. <<>> \in Seq({}) /\ Len(<<>>) = 0
    OBVIOUS
  <2> QED
    BY <2>1, OnlyKeeps
<1> QED
  BY <1>1 DEF KeepsOf

\* An element that is appended stays at the end, if it is kept.
LEMMA OnlyAppend ==
    ASSUME NEW S, NEW s \in Seq(S), NEW e \in S, NEW T
    PROVE  Only(Append(s, e), T) = IF e \in T THEN Append(Only(s, T), e) ELSE Only(s, T)
<1> DEFINE t == Append(s, e)
           m == Len(s)
<1>1. /\ m \in Nat /\ t \in Seq(S) /\ Len(t) = m + 1 /\ t[m + 1] = e
      /\ \A i \in 1..m : s[i] = t[i]
  OBVIOUS
<1>2. PICK g : KeepsOf(g, s, T, m) /\ Only(s, T) = g[m]
  BY OnlyKeeps
<1>3. PICK h : KeepsOf(h, t, T, m + 1) /\ Only(t, T) = h[m + 1]
  BY <1>1, OnlyKeeps
<1> HIDE DEF t, m
<1>4. m + 1 \in Nat /\ m <= m + 1 /\ m + 1 # 0 /\ (m + 1) - 1 = m /\ m \in 0..m
  BY <1>1
<1>5. KeepsOf(g, s, T, m) /\ KeepsOf(h, t, T, m + 1)
  BY <1>1, <1>2, <1>3
<1>6. g[m] = h[m]
  <2> DEFINE Bad == {i \in 0..m : g[i] # h[i]}
  <2>1. SUFFICES ASSUME Bad # {} PROVE FALSE
    BY <1>4
  <2>2. Bad \subseteq Nat
    OBVIOUS
  <2>3. PICK k \in Bad : \A j \in Bad : k <= j
    BY <2>1, <2>2, LeastNumber
  <2>4. g[k] = IF k = 0 THEN <<>> ELSE IF s[k] \in T THEN Append(g[k - 1], s[k]) ELSE g[k - 1]
    BY <2>3, <1>5 DEF KeepsOf
  <2>5. h[k] = IF k = 0 THEN <<>> ELSE IF t[k] \in T THEN Append(h[k - 1], t[k]) ELSE h[k - 1]
    <3>1. k \in 0..(m + 1)
      BY <1>1, <2>3
    <3> QED
      BY <3>1, <1>5 DEF KeepsOf
  <2>6. k # 0 => g[k - 1] = h[k - 1] /\ s[k] = t[k]
    BY <1>1, <2>3
  <2> QED
    BY <2>3, <2>4, <2>5, <2>6
<1>7. h[m + 1] = IF t[m + 1] \in T THEN Append(h[m], t[m + 1]) ELSE h[m]
  <2>1. m + 1 \in 0..(m + 1)
    BY <1>1
  <2> QED
    BY <1>4, <1>5, <2>1, Zenon DEF KeepsOf
<1>8. Only(t, T) = h[m + 1]
  BY <1>1, <1>3
<1> QED
  BY <1>1, <1>2, <1>6, <1>7, <1>8, Zenon DEF t

\* What stays is of the sequence and of the set.
LEMMA OnlyType ==
    ASSUME NEW S, NEW s \in Seq(S), NEW T
    PROVE  Only(s, T) \in Seq(S \cap T)
<1>1. PICK g : KeepsOf(g, s, T, Len(s)) /\ Only(s, T) = g[Len(s)]
  BY OnlyKeeps
<1> DEFINE Bad == {i \in 0..Len(s) : g[i] \notin Seq(S \cap T)}
<1>2. SUFFICES ASSUME Bad # {} PROVE FALSE
  BY <1>1
<1>3. PICK k \in Bad : \A j \in Bad : k <= j
  BY <1>2, LeastNumber, Bad \in SUBSET Nat
<1>4. g[k] = IF k = 0 THEN <<>> ELSE IF s[k] \in T THEN Append(g[k - 1], s[k]) ELSE g[k - 1]
  BY <1>1, <1>3 DEF KeepsOf
<1> DEFINE K == Seq(S \cap T)
<1>5. /\ <<>> \in K
      /\ \A v \in K, e \in S : e \in T => Append(v, e) \in K
  OBVIOUS
<1>6. k # 0 => s[k] \in S /\ g[k - 1] \in K
  BY <1>3
<1>7. g[k] \notin K
  BY <1>3
<1> HIDE DEF K
<1> QED
  BY <1>4, <1>5, <1>6, <1>7

\* Only and the first element: what stays of s begins with it, or without it.
LEMMA OnlyTail ==
    ASSUME NEW S, NEW s \in Seq(S), s # <<>>, NEW T
    PROVE  IF Head(s) \in T
           THEN /\ Only(s, T) # <<>> /\ Head(Only(s, T)) = Head(s)
                /\ Only(Tail(s), T) = Tail(Only(s, T))
           ELSE Only(Tail(s), T) = Only(s, T)
<1> DEFINE t == Tail(s)
           m == Len(t)
           x == Head(s)
<1>1. /\ m \in Nat /\ t \in Seq(S) /\ Len(s) = m + 1 /\ s[1] = x /\ x \in S
      /\ \A i \in 1..m : t[i] = s[i + 1] /\ t[i] \in S
  OBVIOUS
<1>2. PICK g : KeepsOf(g, s, T, m + 1) /\ Only(s, T) = g[m + 1]
  BY <1>1, OnlyKeeps
<1>3. PICK h : KeepsOf(h, t, T, m) /\ Only(t, T) = h[m]
  BY <1>1, OnlyKeeps
<1> HIDE DEF t, m, x
<1> DEFINE K == Seq(S)
           With(v) == IF x \in T THEN <<x>> \o v ELSE v
           Bad == {i \in 0..m : ~ (h[i] \in K /\ g[i + 1] = With(h[i]))}
<1>4. /\ <<>> \in K /\ With(<<>>) = IF x \in T THEN Append(<<>>, x) ELSE <<>>
      /\ \A v \in K, e \in S : Append(v, e) \in K /\ With(Append(v, e)) = Append(With(v), e)
  BY <1>1
<1>5. Bad = {}
  <2>1. SUFFICES ASSUME Bad # {} PROVE FALSE
    OBVIOUS
  <2>2. Bad \subseteq Nat
    BY <1>1
  <2>3. PICK k \in Bad : \A j \in Bad : k <= j
    BY <2>1, <2>2, LeastNumber
  <2>4. k \in 0..m /\ ~ (h[k] \in K /\ g[k + 1] = With(h[k]))
    BY <2>3
  <2>a. \A j \in 0..m : j < k => h[j] \in K /\ g[j + 1] = With(h[j])
    BY <2>2, <2>3, <1>1
  <2> HIDE DEF K, With, Bad
  <2>5. h[k] = IF k = 0 THEN <<>> ELSE IF t[k] \in T THEN Append(h[k - 1], t[k]) ELSE h[k - 1]
    BY <1>3, <2>4 DEF KeepsOf
  <2>6. g[k + 1] = IF s[k + 1] \in T THEN Append(g[k], s[k + 1]) ELSE g[k]
    <3>1. k + 1 \in 0..(m + 1) /\ k + 1 # 0 /\ (k + 1) - 1 = k
      BY <1>1, <2>4
    <3> QED
      BY <3>1, <1>2 DEF KeepsOf
  <2>7. g[0] = <<>>
    BY <1>1, <1>2 DEF KeepsOf
  <2>8. CASE k = 0
    <3>1. h[k] = <<>> /\ g[k + 1] = IF x \in T THEN Append(<<>>, x) ELSE <<>>
      <4>1. k + 1 = 1
        BY <2>8
      <4> QED
        BY <1>1, <2>5, <2>6, <2>7, <2>8, <4>1
    <3> QED
      BY <1>4, <2>4, <3>1
  <2>9. CASE k # 0
    <3>1. k - 1 \in 0..m /\ k - 1 < k /\ (k - 1) + 1 = k /\ t[k] = s[k + 1] /\ t[k] \in S
      BY <1>1, <2>4, <2>9
    <3>2. h[k - 1] \in K /\ g[k] = With(h[k - 1])
      BY <2>a, <3>1
    <3>3. Append(h[k - 1], t[k]) \in K /\ With(Append(h[k - 1], t[k])) = Append(g[k], t[k])
      BY <1>4, <3>1, <3>2
    <3> QED
      BY <2>4, <2>5, <2>6, <2>9, <3>1, <3>2, <3>3
  <2> QED
    BY <2>8, <2>9
<1>6. Only(t, T) \in Seq(S) /\ Only(s, T) = With(Only(t, T))
  <2>1. m \in 0..m
    BY <1>1
  <2> QED
    BY <1>2, <1>3, <1>5, <2>1
<1> DEFINE w == Only(t, T)
<1> HIDE DEF w
<1>7. /\ w \in Seq(S) /\ x \in S
      /\ Only(s, T) = IF x \in T THEN <<x>> \o w ELSE w
  BY <1>1, <1>6 DEF w
<1>8. <<x>> \o w # <<>> /\ Head(<<x>> \o w) = x /\ Tail(<<x>> \o w) = w
  BY <1>7
<1> QED
  BY <1>7, <1>8 DEF w, t, x

\* A sequence of the set stays as it is.
LEMMA OnlyAll ==
    ASSUME NEW T, NEW s \in Seq(T)
    PROVE  Only(s, T) = s
  <1>1. PICK g : KeepsOf(g, s, T, Len(s)) /\ Only(s, T) = g[Len(s)]
    BY OnlyKeeps
  <1> DEFINE Bad == {n \in 0..Len(s) : g[n] # SubSeq(s, 1, n)}
  <1>2. CASE Bad = {}
    <2>1. g[Len(s)] = SubSeq(s, 1, Len(s))
      BY <1>2
    <2> QED BY <2>1, <1>1
  <1>3. CASE Bad # {}
    <2>1. PICK n \in Bad : \A k \in Bad : n <= k
      BY <1>3, LeastNumber, Bad \in SUBSET Nat
    <2>2. n # 0
      BY <1>1 DEF KeepsOf
    <2>3. n - 1 \in 0..Len(s) /\ n - 1 \notin Bad
      BY <2>1, <2>2
    <2>4. g[n - 1] = SubSeq(s, 1, n - 1)
      BY <2>3
    <2>5. s[n] \in T /\ n \in 1..Len(s)
      BY <2>1, <2>2
    <2>6. g[n] = Append(g[n - 1], s[n])
      <3>1. n \in 0..Len(s)
        BY <2>5
      <3>2. g[n] = IF n = 0 THEN <<>>
                   ELSE IF s[n] \in T THEN Append(g[n - 1], s[n]) ELSE g[n - 1]
        BY <1>1, <3>1, Zenon DEF KeepsOf
      <3> QED BY <3>2, <2>2, <2>5
    <2>7. Append(SubSeq(s, 1, n - 1), s[n]) = SubSeq(s, 1, n)
      BY <2>5
    <2> QED BY <2>1, <2>4, <2>6, <2>7
  <1> QED BY <1>2, <1>3

\* Nothing stays of a sequence without elements of the set.
LEMMA OnlyNone ==
    ASSUME NEW S, NEW s \in Seq(S), NEW T, S \cap T = {}
    PROVE  Only(s, T) = <<>>
  <1>1. Only(s, T) \in Seq({})
    BY OnlyType
  <1> QED BY <1>1

\* One element stays or not.
LEMMA OnlyOne ==
    ASSUME NEW b, NEW T
    PROVE  Only(<<b>>, T) = IF b \in T THEN <<b>> ELSE <<>>
  <1>1. <<b>> \in Seq({b})
    OBVIOUS
  <1>2. CASE b \in T
    <2>1. <<b>> \in Seq(T)
      BY <1>2
    <2> QED BY <2>1, <1>2, OnlyAll
  <1>3. CASE b \notin T
    <2>1. {b} \cap T = {}
      BY <1>3
    <2> QED BY <1>1, <2>1, <1>3, OnlyNone
  <1> QED BY <1>2, <1>3

\* A sequence with nothing after its first element.
LEMMA OneLeft ==
    ASSUME NEW S, NEW s \in Seq(S)
    PROVE  s # <<>> /\ Len(Tail(s)) = 0 => s = <<Head(s)>>
  <1>1. s # <<>> => Len(s) \in Nat /\ Len(s) >= 1 /\ Len(Tail(s)) = Len(s) - 1
    OBVIOUS
  <1>2. Len(s) = 1 => s = <<Head(s)>>
    OBVIOUS
  <1> QED
    BY <1>1, <1>2
=============================================================================
