--------------------------- MODULE SelectionsProofs ---------------------------
(***************************************************************************)
(* Lemmas about sequences of any length, and about what Selected selects of *)
(* them.                                                                   *)
(***************************************************************************)
EXTENDS Selections, FiniteSetTheorems, TLAPS

Below == {p \in Nat \X Nat : p[1] < p[2]}

LEMMA LeastNumber ==
    ASSUME NEW T, T \subseteq Nat, T # {}
    PROVE  \E n \in T : \A m \in T : n <= m
<1>1. IsWellFoundedOn(Below, Nat)
  BY NatLessThanWellFounded DEF OpToRel, Below
<1>2. PICK n \in T : \A m \in T : ~(<<m, n>> \in Below)
  BY <1>1, WFMin
<1>3. \A m \in T : n <= m
  <2> TAKE m \in T
  <2>1. <<m, n>> \notin Below /\ m \in Nat /\ n \in Nat
    BY <1>2
  <2> QED
    BY <2>1, SMT DEF Below
<1> QED
  BY <1>3

LEMMA Induction ==
    ASSUME NEW S, 0 \in S, \A n \in Nat : n \in S => n + 1 \in S
    PROVE  Nat \subseteq S
<1> SUFFICES ASSUME Nat \ S # {} PROVE FALSE
  OBVIOUS
<1>1. PICK n \in Nat \ S : \A m \in Nat \ S : n <= m
  BY LeastNumber
<1>2. n # 0 /\ n - 1 \in Nat /\ n - 1 \in S
  BY <1>1
<1> QED
  BY <1>1, <1>2

\* Places of a sequence are finitely many.
LEMMA PlacesFinite ==
    ASSUME NEW n \in Nat, NEW I, I \subseteq 1..n
    PROVE  /\ IsFiniteSet(I) /\ Cardinality(I) \in Nat
           /\ \A k : /\ IsFiniteSet({m \in I : m <= k})
                     /\ Rank(I, k) \in Nat /\ Rank(I, k) <= Cardinality(I)
<1>1. IsFiniteSet(1..n)
  BY FS_Interval
<1>2. IsFiniteSet(I) /\ Cardinality(I) \in Nat
  BY <1>1, FS_Subset, FS_CardinalityType
<1>3. ASSUME NEW k
      PROVE  /\ IsFiniteSet({m \in I : m <= k})
             /\ Rank(I, k) \in Nat /\ Rank(I, k) <= Cardinality(I)
  <2>1. {m \in I : m <= k} \in SUBSET I
    OBVIOUS
  <2> QED
    BY <1>2, <2>1, FS_Subset, FS_CardinalityType DEF Rank
<1> QED
  BY <1>2, <1>3

\* A place after all the others is the last one, and the others keep their ranks.
LEMMA LastPlace ==
    ASSUME NEW n \in Nat, NEW I, I \subseteq 1..n
    PROVE  LET J == I \cup {n + 1}
           IN  /\ Cardinality(J) = Cardinality(I) + 1
               /\ \A k \in I : Rank(J, k) = Rank(I, k)
               /\ Rank(J, n + 1) = Cardinality(I) + 1
               /\ \A i \in 1..Cardinality(I) : Nth(J, i) = Nth(I, i)
               /\ Nth(J, Cardinality(I) + 1) = n + 1
<1> DEFINE J == I \cup {n + 1}
<1>1. IsFiniteSet(I) /\ Cardinality(I) \in Nat /\ n + 1 \notin I
  <2>1. IsFiniteSet(I) /\ Cardinality(I) \in Nat
    BY PlacesFinite
  <2>2. n + 1 \notin I
    OBVIOUS
  <2> QED
    BY <2>1, <2>2
<1>2. Cardinality(J) = Cardinality(I) + 1
  BY <1>1, FS_AddElement
<1>3. \A k \in I : Rank(J, k) = Rank(I, k)
  <2> TAKE k \in I
  <2>1. {m \in J : m <= k} = {m \in I : m <= k}
    OBVIOUS
  <2> QED
    BY <2>1 DEF Rank
<1>4. Rank(J, n + 1) = Cardinality(I) + 1
  <2>1. \A m \in J : m <= n + 1
    OBVIOUS
  <2>3. {m \in J : m <= n + 1} = J
    BY <2>1, Zenon
  <2> QED
    BY <1>2, <2>3 DEF Rank
<1>5. ASSUME NEW i \in 1..Cardinality(I)
      PROVE  Nth(J, i) = Nth(I, i)
  <2>1. PICK c : c = Cardinality(I)
    OBVIOUS
  <2>2. Rank(J, n + 1) # i
    BY <1>1, <1>4, <2>1
  <2>3. {m \in J : Rank(J, m) = i} = {m \in I : Rank(I, m) = i}
    BY <1>3, <2>2
  <2> QED
    BY <2>3 DEF Nth
<1>6. Nth(J, Cardinality(I) + 1) = n + 1
  <2>1. ASSUME NEW k \in I
        PROVE  Rank(J, k) # Cardinality(I) + 1
    <3>1. PICK c, r : c = Cardinality(I) /\ r = Rank(I, k)
      OBVIOUS
    <3>2. c \in Nat /\ r \in Nat /\ r <= c
      BY <3>1, PlacesFinite
    <3>3. Rank(J, k) = r
      BY <1>3, <3>1
    <3> QED
      BY <3>1, <3>2, <3>3
  <2>2. {m \in J : Rank(J, m) = Cardinality(I) + 1} = {n + 1}
    BY <1>4, <2>1
  <2> QED
    BY <2>2 DEF Nth
<1> QED
  BY <1>2, <1>3, <1>4, <1>5, <1>6

\* Every rank has its place.
LEMMA NthPlace ==
    ASSUME NEW n \in Nat, NEW I, I \subseteq 1..n
    PROVE  \A i \in 1..Cardinality(I) : Nth(I, i) \in I
<1> DEFINE S == {k \in Nat : \A J \in SUBSET (1..k) : \A i \in 1..Cardinality(J) : Nth(J, i) \in J}
<1>1. 0 \in S
  <2> SUFFICES ASSUME NEW J \in SUBSET (1..0) PROVE \A i \in 1..Cardinality(J) : Nth(J, i) \in J
    OBVIOUS
  <2>1. J = {}
    OBVIOUS
  <2>2. Cardinality(J) = 0
    BY <2>1, FS_EmptySet
  <2> QED
    BY <2>2
<1>2. ASSUME NEW k \in Nat, k \in S
      PROVE  k + 1 \in S
  <2> SUFFICES ASSUME NEW J \in SUBSET (1..(k + 1)), NEW i \in 1..Cardinality(J)
               PROVE  Nth(J, i) \in J
    OBVIOUS
  <2>1. CASE k + 1 \notin J
    <3>1. J \in SUBSET (1..k)
      BY <2>1
    <3> QED
      BY <1>2, <3>1
  <2>2. CASE k + 1 \in J
    <3>1. PICK L : L = J \ {k + 1}
      OBVIOUS
    <3>2. L \subseteq 1..k /\ J = L \cup {k + 1} /\ L \in SUBSET (1..k)
      BY <2>2, <3>1
    <3>3. /\ Cardinality(L) \in Nat
          /\ Cardinality(J) = Cardinality(L) + 1
          /\ \A j \in 1..Cardinality(L) : Nth(J, j) = Nth(L, j)
          /\ Nth(J, Cardinality(L) + 1) = k + 1
      BY <3>2, LastPlace, PlacesFinite, ZenonT(40)
    <3>4. CASE i \in 1..Cardinality(L)
      BY <1>2, <3>2, <3>3, <3>4
    <3>5. CASE i = Cardinality(L) + 1
      BY <3>2, <3>3, <3>5
    <3> QED
      BY <3>3, <3>4, <3>5
  <2> QED
    BY <2>1, <2>2
<1> HIDE DEF S
<1>3. n \in S
  BY <1>1, <1>2, Induction
<1> QED
  BY <1>3 DEF S

\* What is selected are elements of the sequence, as many as there are places.
LEMMA SelectedType ==
    ASSUME NEW S, NEW s \in Seq(S), NEW I, I \subseteq 1..Len(s)
    PROVE  /\ Selected(s, I) \in Seq(S)
           /\ Len(Selected(s, I)) = Cardinality(I)
           /\ Cardinality(I) \in Nat
<1>1. PICK n : n = Len(s)
  OBVIOUS
<1>2. n \in Nat /\ I \subseteq 1..n /\ \A k \in 1..n : s[k] \in S
  BY <1>1
<1>3. Cardinality(I) \in Nat
  BY <1>2, PlacesFinite
<1>4. \A i \in 1..Cardinality(I) : Nth(I, i) \in I
  BY <1>2, NthPlace
<1>5. \A i \in 1..Cardinality(I) : s[Nth(I, i)] \in S
  BY <1>2, <1>4
<1> QED
  BY <1>3, <1>5 DEF Selected

\* A sequence that grows: what was selected of it stays, and the new element may follow.
LEMMA SelectedAppend ==
    ASSUME NEW S, NEW s \in Seq(S), NEW x \in S, NEW I, I \subseteq 1..Len(s)
    PROVE  /\ Selected(Append(s, x), I) = Selected(s, I)
           /\ Selected(Append(s, x), I \cup {Len(s) + 1}) = Append(Selected(s, I), x)
<1>1. PICK n : n = Len(s)
  OBVIOUS
<1>2. PICK t : t = Append(s, x)
  OBVIOUS
<1>3. /\ n \in Nat /\ Cardinality(I) \in Nat /\ t[n + 1] = x
      /\ \A k \in 1..n : t[k] = s[k]
  <2>1. n \in Nat /\ t[n + 1] = x /\ I \subseteq 1..n /\ \A k \in 1..n : t[k] = s[k]
    BY <1>1, <1>2
  <2>2. Cardinality(I) \in Nat
    BY <2>1, PlacesFinite
  <2> QED
    BY <2>1, <2>2
<1>4. \A i \in 1..Cardinality(I) : t[Nth(I, i)] = s[Nth(I, i)]
  BY <1>1, <1>3, NthPlace
<1>5. Selected(t, I) = Selected(s, I)
  BY <1>4 DEF Selected
<1>6. PICK J : J = I \cup {n + 1}
  OBVIOUS
<1>7. /\ Cardinality(J) = Cardinality(I) + 1
      /\ \A i \in 1..Cardinality(I) : Nth(J, i) = Nth(I, i)
      /\ Nth(J, Cardinality(I) + 1) = n + 1
  BY <1>1, <1>3, <1>6, LastPlace, ZenonT(40)
<1>8. Selected(s, I) \in Seq(S) /\ Len(Selected(s, I)) = Cardinality(I)
  BY SelectedType
<1>9. PICK a : a = Append(Selected(s, I), x)
  OBVIOUS
<1>10. PICK c : c = Cardinality(I)
  OBVIOUS
<1>11. /\ a \in Seq(S) /\ Len(a) = c + 1 /\ a[c + 1] = x
       /\ \A i \in 1..c : a[i] = Selected(s, I)[i]
  BY <1>3, <1>8, <1>9, <1>10
<1>12. ASSUME NEW i \in 1..(c + 1)
       PROVE  t[Nth(J, i)] = a[i]
  <2>1. CASE i \in 1..c
    BY <2>1, <1>4, <1>7, <1>10, <1>11 DEF Selected
  <2>2. CASE i = c + 1
    BY <2>2, <1>3, <1>7, <1>10, <1>11
  <2> QED
    BY <1>3, <1>10, <2>1, <2>2
<1>13. a = [i \in 1..(c + 1) |-> a[i]]
  BY <1>3, <1>10, <1>11
<1>14. Selected(t, J) = a
  BY <1>7, <1>10, <1>12, <1>13 DEF Selected
<1> QED
  BY <1>1, <1>2, <1>5, <1>6, <1>9, <1>14

\* The places of the elements that are in a set.
Places(s, G) == {i \in DOMAIN s : s[i] \in G}

LEMMA SelectedGrows ==
    ASSUME NEW S, NEW s \in Seq(S), NEW x \in S, NEW G
    PROVE  /\ Selected(s, Places(s, G)) \in Seq(S)
           /\ x \in G => Selected(Append(s, x), Places(Append(s, x), G))
                             = Append(Selected(s, Places(s, G)), x)
           /\ x \notin G => Selected(Append(s, x), Places(Append(s, x), G))
                                = Selected(s, Places(s, G))
<1>1. PICK n, t, I, J : /\ n = Len(s) /\ t = Append(s, x)
                        /\ I = Places(s, G) /\ J = Places(t, G)
  OBVIOUS
<1>2. /\ n \in Nat /\ DOMAIN s = 1..n /\ DOMAIN t = 1..(n + 1) /\ t[n + 1] = x
      /\ \A k \in 1..n : t[k] = s[k]
  BY <1>1
<1>3. I \subseteq 1..Len(s)
  BY <1>1, <1>2 DEF Places
<1>4. /\ Selected(s, I) \in Seq(S)
      /\ Selected(t, I) = Selected(s, I)
      /\ Selected(t, I \cup {n + 1}) = Append(Selected(s, I), x)
  BY <1>1, <1>3, SelectedType, SelectedAppend
<1>5. x \in G => J = I \cup {n + 1}
  BY <1>1, <1>2 DEF Places
<1>6. x \notin G => J = I
  BY <1>1, <1>2 DEF Places
<1> QED
  BY <1>1, <1>4, <1>5, <1>6

\* Nothing is selected of an empty sequence.
LEMMA SelectedEmpty ==
    ASSUME NEW I, I = {}
    PROVE  \A s : Selected(s, I) = <<>>
<1>1. Cardinality(I) = 0
  BY FS_EmptySet
<1> QED
  BY <1>1 DEF Selected

\* The elements at the places f[1] to f[n].
Along(s, f, n) == [i \in 1..n |-> s[f[i]]]

\* An increasing enumeration of the places gives the elements that are selected.
LEMMA SelectedInOrder ==
    ASSUME NEW I, I \subseteq Nat, NEW c \in Nat, NEW f \in [1..c -> I],
           \A i, j \in 1..c : i < j => f[i] < f[j],
           \A k \in I : \E i \in 1..c : f[i] = k
    PROVE  Cardinality(I) = c /\ \A s : Selected(s, I) = Along(s, f, c)
<1>1. ASSUME NEW n \in 0..c, NEW T, T = {k \in I : \E i \in 1..n : f[i] = k}
      PROVE  Cardinality(T) = n
  <2>1. PICK g : g = [i \in 1..n |-> f[i]]
    OBVIOUS
  <2>2. g \in [1..n -> T] /\ \A i \in 1..n : i \in 1..c /\ g[i] = f[i] /\ f[i] \in Nat
    <3>1. \A i \in 1..n : i \in 1..c
      OBVIOUS
    <3>2. \A i \in 1..n : f[i] \in I /\ f[i] \in Nat /\ f[i] \in T
      BY <1>1, <3>1
    <3> QED
      BY <2>1, <3>1, <3>2
  <2>3. \A i, j \in 1..n : i # j => g[i] # g[j]
    <3> SUFFICES ASSUME NEW i \in 1..n, NEW j \in 1..n, i # j PROVE f[i] # f[j]
      BY <2>2
    <3>1. i < j \/ j < i
      OBVIOUS
    <3>2. i \in 1..c /\ j \in 1..c /\ f[i] \in Nat /\ f[j] \in Nat
      BY <2>2
    <3>3. (i < j => f[i] < f[j]) /\ (j < i => f[j] < f[i])
      BY <3>2
    <3> QED
      BY <3>1, <3>2, <3>3
  <2>4. \A k \in T : \E i \in 1..n : g[i] = k
    BY <1>1, <2>2
  <2>5. g \in Injection(1..n, T)
    BY <2>2, <2>3 DEF Injection, IsInjective
  <2>6. g \in Surjection(1..n, T)
    BY <2>2, <2>4 DEF Surjection
  <2>7. ExistsBijection(1..n, T)
    BY <2>5, <2>6 DEF ExistsBijection, Bijection
  <2> QED
    BY <2>7, FS_CountingElements
<1>2. Cardinality(I) = c
  <2>1. I = {k \in I : \E i \in 1..c : f[i] = k}
    OBVIOUS
  <2> QED
    BY <1>1, <2>1
<1>3. ASSUME NEW n \in 1..c
      PROVE  Rank(I, f[n]) = n
  <2>1. ASSUME NEW i \in 1..c
        PROVE  f[i] <= f[n] <=> i \in 1..n
    <3>1. f[i] \in Nat /\ f[n] \in Nat
      OBVIOUS
    <3>2. (i < n => f[i] < f[n]) /\ (n < i => f[n] < f[i])
      OBVIOUS
    <3> QED
      BY <3>1, <3>2
  <2>2. ASSUME NEW k \in I
        PROVE  k <= f[n] <=> \E i \in 1..n : f[i] = k
    <3>1. PICK i \in 1..c : f[i] = k
      OBVIOUS
    <3>2. k <= f[n] => \E j \in 1..n : f[j] = k
      BY <2>1, <3>1
    <3>3. ASSUME NEW j \in 1..n, f[j] = k PROVE k <= f[n]
      <4>1. j \in 1..c
        OBVIOUS
      <4> QED
        BY <2>1, <3>3, <4>1
    <3> QED
      BY <3>2, <3>3
  <2>3. {m \in I : m <= f[n]} = {k \in I : \E i \in 1..n : f[i] = k}
    BY <2>2
  <2> QED
    BY <1>1, <2>3 DEF Rank
<1>4. ASSUME NEW n \in 1..c
      PROVE  Nth(I, n) = f[n]
  <2>1. \A m \in I : Rank(I, m) = n => m = f[n]
    <3> SUFFICES ASSUME NEW m \in I, Rank(I, m) = n PROVE m = f[n]
      OBVIOUS
    <3>1. PICK i \in 1..c : f[i] = m
      OBVIOUS
    <3> QED
      BY <1>3, <3>1
  <2>2. f[n] \in I /\ Rank(I, f[n]) = n
    BY <1>3
  <2>3. {m \in I : Rank(I, m) = n} = {f[n]}
    BY <2>1, <2>2
  <2> QED
    BY <2>3 DEF Nth
<1> QED
  BY <1>2, <1>4 DEF Selected, Along

\* The first places, all of them or all but one.
LEMMA SelectedFirst ==
    ASSUME NEW m \in Nat
    PROVE  Cardinality(1..m) = m /\ \A s : Selected(s, 1..m) = [i \in 1..m |-> s[i]]
<1>1. PICK f : f = [i \in 1..m |-> i]
  OBVIOUS
<1>2. /\ f \in [1..m -> 1..m] /\ \A i \in 1..m : f[i] = i
      /\ \A i, j \in 1..m : i < j => f[i] < f[j]
      /\ \A k \in 1..m : \E i \in 1..m : f[i] = k
  BY <1>1
<1>3. PICK I : I = 1..m
  OBVIOUS
<1>4. I \subseteq Nat
  BY <1>3
<1>5. Cardinality(I) = m /\ \A s : Selected(s, I) = Along(s, f, m)
  BY <1>2, <1>3, <1>4, SelectedInOrder, SMTT(40)
<1>6. \A s : Along(s, f, m) = [i \in 1..m |-> s[i]]
  BY <1>2 DEF Along
<1> QED
  BY <1>3, <1>5, <1>6

LEMMA SelectedAllBut ==
    ASSUME NEW m \in Nat, NEW k \in 1..m
    PROVE  /\ Cardinality((1..m) \ {k}) = m - 1
           /\ \A s : Selected(s, (1..m) \ {k})
                         = [i \in 1..(m - 1) |-> IF i < k THEN s[i] ELSE s[i + 1]]
<1>1. PICK f, I, c : /\ f = [i \in 1..(m - 1) |-> IF i < k THEN i ELSE i + 1]
                     /\ I = (1..m) \ {k} /\ c = m - 1
  OBVIOUS
<1>2. c \in Nat /\ m = c + 1 /\ I \subseteq Nat
  BY <1>1
<1>3. f \in [1..c -> I] /\ \A i \in 1..c : f[i] = IF i < k THEN i ELSE i + 1
  BY <1>1, <1>2
<1>4. \A i, j \in 1..c : i < j => f[i] < f[j]
  BY <1>2, <1>3
<1>5. ASSUME NEW p \in I PROVE \E i \in 1..c : f[i] = p
  <2>1. p \in 1..m /\ p # k
    BY <1>1
  <2>2. CASE p < k
    <3>1. p \in 1..c /\ f[p] = p
      BY <1>2, <1>3, <2>1, <2>2
    <3> QED
      BY <3>1
  <2>3. CASE k < p
    <3>1. p - 1 \in 1..c /\ ~(p - 1 < k)
      BY <1>2, <2>1, <2>3
    <3>2. f[p - 1] = p
      BY <1>3, <2>1, <3>1
    <3> QED
      BY <3>1, <3>2
  <2> QED
    BY <2>1, <2>2, <2>3
<1>6. Cardinality(I) = c /\ \A s : Selected(s, I) = Along(s, f, c)
  BY <1>2, <1>3, <1>4, <1>5, SelectedInOrder
<1>7. \A s : Along(s, f, c) = [i \in 1..c |-> IF i < k THEN s[i] ELSE s[i + 1]]
  BY <1>3 DEF Along
<1> QED
  BY <1>1, <1>6, <1>7

\* Two sequences with the same elements.
LEMMA SameElements ==
    ASSUME NEW S, NEW s \in Seq(S), NEW t \in Seq(S), Len(s) = Len(t),
           \A i \in 1..Len(s) : s[i] = t[i]
    PROVE  s = t
  OBVIOUS

\* A part of a sequence, by its elements.
LEMMA PartIs ==
    ASSUME NEW S, NEW t \in Seq(S), NEW h \in Seq(S), NEW k \in Nat, k + Len(h) <= Len(t),
           \A i \in 1..Len(h) : t[k + i] = h[i]
    PROVE  SubSeq(t, k + 1, k + Len(h)) = h
<1>1. PICK a, n : a = SubSeq(t, k + 1, k + n) /\ n = Len(h)
  OBVIOUS
<1>2. n \in Nat
  BY <1>1
<1>3. a \in Seq(S) /\ Len(a) = n
  BY <1>1, <1>2
<1>4. \A i \in 1..n : a[i] = t[k + i]
  BY <1>1, <1>2
<1>5. \A i \in 1..n : a[i] = h[i]
  BY <1>1, <1>4
<1>6. a = h
  BY <1>1, <1>3, <1>5, SameElements
<1> QED
  BY <1>1, <1>6

\* The elements of a sequence that goes on with another one.
LEMMA Joined ==
    ASSUME NEW S, NEW a \in Seq(S), NEW b \in Seq(S)
    PROVE  /\ a \o b \in Seq(S) /\ Len(a \o b) = Len(a) + Len(b)
           /\ \A i \in 1..Len(a) : (a \o b)[i] = a[i]
           /\ \A i \in 1..Len(b) : (a \o b)[Len(a) + i] = b[i]
<1>1. a \o b \in Seq(S) /\ Len(a \o b) = Len(a) + Len(b)
  OBVIOUS
<1>2. \A i \in 1..Len(a) : (a \o b)[i] = a[i]
  OBVIOUS
<1>3. \A i \in 1..Len(b) : (a \o b)[Len(a) + i] = b[i]
  OBVIOUS
<1> QED
  BY <1>1, <1>2, <1>3

\* Induction over sequences, from the empty one by Append.
LEMMA SeqInduction ==
    ASSUME NEW S, NEW P, <<>> \in P, \A s \in Seq(S), x \in S : s \in P => Append(s, x) \in P
    PROVE  Seq(S) \subseteq P
<1>1. PICK N : N = {n \in Nat : \A s \in Seq(S) : Len(s) = n => s \in P}
  OBVIOUS
<1>2. 0 \in N
  BY <1>1
<1>3. ASSUME NEW n \in Nat, n \in N PROVE n + 1 \in N
  <2>1. ASSUME NEW s \in Seq(S), Len(s) = n + 1 PROVE s \in P
    <3>1. PICK t, x : t = SubSeq(s, 1, n) /\ x = s[n + 1]
      OBVIOUS
    <3>2. t \in Seq(S) /\ Len(t) = n /\ x \in S /\ \A i \in 1..n : t[i] = s[i]
      BY <2>1, <3>1
    <3>3. PICK a : a = Append(t, x)
      OBVIOUS
    <3>4. a \in Seq(S) /\ Len(a) = n + 1 /\ \A i \in 1..(n + 1) : a[i] = s[i]
      BY <3>1, <3>2, <3>3
    <3>5. a = s
      BY <2>1, <3>4, SameElements
    <3>6. t \in P
      BY <1>1, <1>3, <3>2
    <3> QED
      BY <3>2, <3>3, <3>5, <3>6
  <2> QED
    BY <1>1, <2>1
<1>4. Nat \subseteq N
  BY <1>2, <1>3, Induction
<1>5. \A s \in Seq(S) : Len(s) \in Nat
  OBVIOUS
<1> QED
  BY <1>1, <1>4, <1>5

\* What is kept of a sequence: its elements that are in a set.
Kept(s, G) == Selected(s, Places(s, G))

LEMMA KeptGrows ==
    ASSUME NEW S, NEW s \in Seq(S), NEW x \in S, NEW G
    PROVE  /\ Kept(s, G) \in Seq(S)
           /\ x \in G => Kept(Append(s, x), G) = Append(Kept(s, G), x)
           /\ x \notin G => Kept(Append(s, x), G) = Kept(s, G)
  BY SelectedGrows DEF Kept

LEMMA KeptType ==
    ASSUME NEW S, NEW s \in Seq(S), NEW G
    PROVE  Kept(s, G) \in Seq(S)
  BY SelectedType DEF Kept, Places

LEMMA KeptEmpty == \A G : Kept(<<>>, G) = <<>>
<1> TAKE G
<1>1. Places(<<>>, G) = {}
  BY DEF Places
<1> QED
  BY <1>1, SelectedEmpty DEF Kept

\* What is kept of a sequence that goes on with another one is what is kept of each.
LEMMA KeptJoined ==
    ASSUME NEW S, NEW s \in Seq(S), NEW t \in Seq(S), NEW G
    PROVE  Kept(s \o t, G) = Kept(s, G) \o Kept(t, G)
<1>1. PICK P : P = {u \in Seq(S) : Kept(s \o u, G) = Kept(s, G) \o Kept(u, G)}
  OBVIOUS
<1>2. <<>> \in P
  <2>1. <<>> \in Seq(S) /\ s \o <<>> = s
    OBVIOUS
  <2>2. Kept(s, G) \o <<>> = Kept(s, G)
    BY KeptType
  <2> QED
    BY <1>1, <2>1, <2>2, KeptEmpty
<1>3. ASSUME NEW u \in Seq(S), NEW x \in S, u \in P PROVE Append(u, x) \in P
  <2>1. PICK v : v = s \o u
    OBVIOUS
  <2>2. v \in Seq(S) /\ s \o Append(u, x) = Append(v, x) /\ Append(u, x) \in Seq(S)
    BY <2>1
  <2>3. PICK a, b : a = Kept(s, G) /\ b = Kept(u, G)
    OBVIOUS
  <2>4. a \in Seq(S) /\ b \in Seq(S)
    BY <2>3, KeptType
  <2>5. Kept(v, G) = a \o b
    BY <1>1, <1>3, <2>1, <2>3
  <2>6. CASE x \in G
    <3>1. Kept(Append(v, x), G) = Append(Kept(v, G), x)
      BY <2>2, <2>6, KeptGrows
    <3>2. Kept(Append(u, x), G) = Append(Kept(u, G), x)
      BY <2>6, KeptGrows
    <3>3. a \o Append(b, x) = Append(a \o b, x)
      BY <2>4
    <3> QED
      BY <1>1, <2>2, <2>3, <2>5, <3>1, <3>2, <3>3
  <2>7. CASE x \notin G
    <3>1. Kept(Append(v, x), G) = Kept(v, G)
      BY <2>2, <2>7, KeptGrows
    <3>2. Kept(Append(u, x), G) = Kept(u, G)
      BY <2>7, KeptGrows
    <3> QED
      BY <1>1, <2>2, <2>3, <2>5, <3>1, <3>2
  <2> QED
    BY <2>6, <2>7
<1>4. Seq(S) \subseteq P
  BY <1>2, <1>3, SeqInduction
<1> QED
  BY <1>1, <1>4
================================================================================
