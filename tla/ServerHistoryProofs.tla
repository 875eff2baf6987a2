-------------------------- MODULE ServerHistoryProofs --------------------------
(***************************************************************************)
(* Proofs about ServerHistory, for any set of addresses: the keys implement *)
(* the list of the last servers used, and the dialog understands the server *)
(* as the user meant it.                                                    *)
(***************************************************************************)
EXTENDS ServerHistory, SelectionsProofs

TypeOK == server \in [Keys -> Inputs \cup {None}]

\* The keys that hold a server are the first ones.
Packed == \E m \in 0..5 : \A i \in Keys : server[i] # None <=> i <= m

\* None of them holds the server of another one.
Distinct == \A i, j \in Keys : server[i] = server[j] /\ server[i] # None => i = j

Inv == TypeOK /\ Packed /\ Distinct

\* The pieces of a text (the provers do not know of a literal that it is a string).
Pieces == STRING \cup {"[", "]", ":", "47777"}

LEMMA WiderSeq ==
    ASSUME NEW S, NEW T, S \subseteq T, NEW s \in Seq(S)
    PROVE  s \in Seq(T)
  OBVIOUS

LEMMA AddressType ==
    ASSUME NEW address \in Addresses
    PROVE  /\ address.host \in Seq(Pieces) /\ Len(address.host) > 0
           /\ address.port \in Seq(Pieces)
           /\ <<"[">> \in Seq(Pieces) /\ <<"]">> \in Seq(Pieces) /\ <<":">> \in Seq(Pieces)
<1>1. PICK h, p : h = address.host /\ p = address.port
  OBVIOUS
<1>2. h \in Seq(STRING) /\ h # <<>> /\ p \in Seq(STRING)
  BY <1>1, AddressesAssumption
<1>3. STRING \subseteq Pieces
  BY DEF Pieces
<1> HIDE DEF Pieces
<1>4. h \in Seq(Pieces) /\ p \in Seq(Pieces)
  BY <1>2, <1>3, WiderSeq, Zenon
<1>5. "[" \in Pieces /\ "]" \in Pieces /\ ":" \in Pieces
  BY DEF Pieces
<1> QED
  BY <1>1, <1>2, <1>4, <1>5

\* What is written for an address is not empty.
LEMMA WrittenIsText ==
    ASSUME NEW address \in Addresses
    PROVE  Written(address) \in Seq(Pieces) /\ Written(address) # None
<1>1. PICK h, p : h = address.host /\ p = address.port
  OBVIOUS
<1>2. /\ h \in Seq(Pieces) /\ Len(h) > 0 /\ p \in Seq(Pieces)
      /\ <<"[">> \in Seq(Pieces) /\ <<"]">> \in Seq(Pieces) /\ <<":">> \in Seq(Pieces)
  BY <1>1, AddressType
<1>3. PICK a : a = IF Contains(h, ":") THEN <<"[">> \o h \o <<"]">> ELSE h
  OBVIOUS
<1>4. a \in Seq(Pieces) /\ Len(a) > 0
  <2>1. PICK b : b = <<"[">> \o h
    OBVIOUS
  <2>2. b \in Seq(Pieces) /\ Len(b) > 0
    BY <1>2, <2>1
  <2>3. b \o <<"]">> \in Seq(Pieces) /\ Len(b \o <<"]">>) > 0
    BY <1>2, <2>2
  <2> QED
    BY <1>2, <1>3, <2>1, <2>3
<1>5. PICK e : e = IF p = DefaultPort THEN <<>> ELSE <<":">> \o p
  OBVIOUS
<1>6. e \in Seq(Pieces)
  <2>1. <<>> \in Seq(Pieces)
    OBVIOUS
  <2>2. <<":">> \o p \in Seq(Pieces)
    BY <1>2
  <2> QED
    BY <1>5, <2>1, <2>2
<1>7. Written(address) = a \o e
  BY <1>1, <1>3, <1>5 DEF Written
<1>8. a \o e \in Seq(Pieces) /\ Len(a \o e) > 0
  BY <1>4, <1>6
<1> QED
  BY <1>7, <1>8 DEF None

\* The servers offered, when the first m keys hold one.
LEMMA OfferedFirst ==
    ASSUME NEW values, NEW I, NEW m \in 0..5, I \subseteq Keys,
           \A i \in Keys : i \in I <=> i <= m
    PROVE  Selected(values, I) = [i \in 1..m |-> values[i]]
<1>1. I = 1..m
  <2>1. \A i \in I : i \in 1..m
    BY DEF Keys
  <2>2. \A i \in 1..m : i \in I
    BY DEF Keys
  <2> QED
    BY <2>1, <2>2
<1>2. m \in Nat
  OBVIOUS
<1> QED
  BY <1>1, <1>2, SelectedFirst

\* An element that moves to the front: the ones before it move on by one place.
LEMMA ToFront ==
    ASSUME NEW S, NEW o \in Seq(S), NEW x \in S, NEW k \in 1..Len(o),
           NEW new \in Seq(S), Len(new) = Len(o),
           \A i \in 1..Len(o) :
               new[i] = IF i = 1 THEN x ELSE IF i <= k THEN o[i - 1] ELSE o[i]
    PROVE  new = <<x>> \o SubSeq(o, 1, k - 1) \o SubSeq(o, k + 1, Len(o))
<1>1. PICK m \in Nat : m = Len(o)
  OBVIOUS
<1>2. /\ k \in 1..m /\ Len(new) = m
      /\ \A i \in 1..m : new[i] = IF i = 1 THEN x ELSE IF i <= k THEN o[i - 1] ELSE o[i]
  BY <1>1
<1>3. PICK a, b, c : a = SubSeq(o, 1, k - 1) /\ b = SubSeq(o, k + 1, m) /\ c = <<x>> \o a
  OBVIOUS
<1>4. /\ a \in Seq(S) /\ Len(a) = k - 1 /\ \A i \in 1..(k - 1) : a[i] = o[i]
      /\ b \in Seq(S) /\ Len(b) = m - k /\ \A i \in 1..(m - k) : b[i] = o[k + i]
  BY <1>1, <1>3
<1>5. <<x>> \in Seq(S) /\ Len(<<x>>) = 1 /\ <<x>>[1] = x
  OBVIOUS
<1>6. c \in Seq(S) /\ Len(c) = k
  BY <1>2, <1>3, <1>4, <1>5
<1>7. \A i \in 1..k : c[i] = IF i = 1 THEN x ELSE o[i - 1]
  <2>1. \A i \in 1..k : c[i] = IF i = 1 THEN x ELSE a[i - 1]
    BY <1>2, <1>3, <1>4, <1>5
  <2> QED
    BY <1>2, <1>4, <2>1
<1>8. PICK d : d = c \o b
  OBVIOUS
<1>9. d \in Seq(S) /\ Len(d) = m
  <2>1. b \in Seq(S) /\ c \in Seq(S)
    BY <1>4, <1>6
  <2>2. d \in Seq(S)
    BY <1>8, <2>1
  <2>3. Len(d) = Len(c) + Len(b)
    BY <1>8, <2>1
  <2> QED
    BY <1>2, <1>4, <1>6, <2>2, <2>3
<1>10. \A i \in 1..m : d[i] = IF i <= k THEN c[i] ELSE b[i - k]
  BY <1>2, <1>4, <1>6, <1>8
<1>11. \A i \in 1..m : new[i] = d[i]
  <2> TAKE i \in 1..m
  <2>1. CASE i <= k
    BY <1>2, <1>7, <1>10, <2>1
  <2>2. CASE ~(i <= k)
    <3>1. i - k \in 1..(m - k) /\ k + (i - k) = i /\ i # 1
      BY <1>2, <2>2
    <3>2. b[i - k] = o[i]
      BY <1>4, <3>1
    <3>3. d[i] = o[i]
      BY <1>10, <2>2, <3>2
    <3> QED
      BY <1>2, <2>2, <3>1, <3>3
  <2> QED
    BY <2>1, <2>2
<1>12. new = d
  BY <1>2, <1>9, <1>11, SameElements
<1> QED
  BY <1>1, <1>3, <1>8, <1>12

\* A server that was offered moves to the front.
LEMMA MovesToFront ==
    ASSUME Inv, NEW input \in Inputs, input # None, OnConnect(input),
           NEW k \in Keys, server[k] = input
    PROVE  Inv' /\ Abstract!Again(input)
<1>1. PICK m \in 0..5 : \A i \in Keys : server[i] # None <=> i <= m
  BY DEF Inv, Packed
<1>2. k <= m /\ \A i \in Keys : server[i] = input => i = k
  BY <1>1 DEF Inv, Distinct
<1>3. Repeated(input) = k
  <2>1. {i \in Keys : server[i] = input} = {k}
    BY <1>2
  <2> QED
    BY <2>1 DEF Repeated
<1>4. Erased(input) = [i \in Keys |-> IF i = k THEN None ELSE server[i]]
  BY <1>2 DEF Erased
<1>5. server' = [i \in Keys |-> IF i = 1 THEN input ELSE IF i <= k THEN server[i - 1] ELSE server[i]]
  <2>1. PICK v : v = [i \in Keys |-> IF i = k THEN None ELSE server[i]]
    OBVIOUS
  <2>2. server' = [i \in Keys |->
                      IF i <= k /\ (IF i > 1 THEN v[i - 1] ELSE input) # None
                      THEN (IF i > 1 THEN v[i - 1] ELSE input) ELSE v[i]]
    BY <1>3, <1>4, <2>1 DEF OnConnect, Shifted
  <2>3. ASSUME NEW i \in Keys
        PROVE  (IF i <= k /\ (IF i > 1 THEN v[i - 1] ELSE input) # None
                THEN (IF i > 1 THEN v[i - 1] ELSE input) ELSE v[i])
               = IF i = 1 THEN input ELSE IF i <= k THEN server[i - 1] ELSE server[i]
    <3>1. CASE i = 1
      BY <3>1 DEF Keys
    <3>2. CASE i # 1 /\ i <= k
      <4>1. i - 1 \in Keys /\ i - 1 # k /\ i - 1 <= m /\ i > 1
        BY <1>2, <3>2 DEF Keys
      <4>2. v[i - 1] = server[i - 1] /\ v[i - 1] # None
        BY <1>1, <2>1, <4>1
      <4> QED
        BY <3>2, <4>1, <4>2
    <3>3. CASE ~(i <= k)
      <4>1. i # 1 /\ i # k
        BY <3>3 DEF Keys
      <4>2. v[i] = server[i]
        BY <2>1, <4>1
      <4> QED
        BY <3>3, <4>1, <4>2
    <3> QED
      BY <3>1, <3>2, <3>3
  <2> QED
    BY <2>2, <2>3
<1>6. \A i \in Keys : server'[i] = IF i = 1 THEN input ELSE IF i <= k THEN server[i - 1] ELSE server[i]
  BY <1>5
<1>7. \A i \in Keys : server'[i] # None <=> i <= m
  <2> TAKE i \in Keys
  <2>1. CASE i = 1
    BY <1>2, <1>6, <2>1 DEF Keys
  <2>2. CASE i # 1 /\ i <= k
    <3>1. i - 1 \in Keys /\ i - 1 <= m
      BY <1>2, <2>2 DEF Keys
    <3> QED
      BY <1>1, <1>2, <1>6, <2>2, <3>1 DEF Keys
  <2>3. CASE i # 1 /\ ~(i <= k)
    BY <1>1, <1>6, <2>3
  <2> QED
    BY <2>1, <2>2, <2>3
<1>8. TypeOK'
  <2>1. ASSUME NEW i \in Keys PROVE server'[i] \in Inputs \cup {None}
    <3>1. CASE i = 1
      BY <1>6, <3>1
    <3>2. CASE i # 1 /\ i <= k
      <4>1. i - 1 \in Keys
        BY <3>2 DEF Keys
      <4> QED
        BY <1>6, <3>2, <4>1 DEF Inv, TypeOK
    <3>3. CASE i # 1 /\ ~(i <= k)
      BY <1>6, <3>3 DEF Inv, TypeOK
    <3> QED
      BY <3>1, <3>2, <3>3
  <2>2. server' \in [Keys -> Inputs \cup {None}]
    BY <1>5, <2>1
  <2> QED
    BY <2>2 DEF TypeOK
<1>9. Distinct'
  <2>1. ASSUME NEW i \in Keys, NEW j \in Keys, i < j, server'[i] = server'[j], server'[i] # None
        PROVE  FALSE
    <3>1. PICK p \in Keys : server'[j] = server[p] /\ p # k /\ (j <= k => p = j - 1) /\ (j > k => p = j)
      <4>1. CASE j <= k
        <5>1. j - 1 \in Keys /\ j # 1 /\ j - 1 # k
          BY <2>1, <4>1 DEF Keys
        <5> QED
          BY <1>6, <4>1, <5>1 DEF Keys
      <4>2. CASE ~(j <= k)
        BY <1>6, <2>1, <4>2 DEF Keys
      <4> QED
        BY <4>1, <4>2
    <3>2. CASE i = 1
      BY <1>2, <1>6, <2>1, <3>1, <3>2
    <3>3. CASE i # 1
      <4>1. PICK q \in Keys : server'[i] = server[q] /\ (i <= k => q = i - 1) /\ (i > k => q = i)
        <5>1. CASE i <= k
          <6>1. i - 1 \in Keys
            BY <3>3 DEF Keys
          <6> QED
            BY <1>6, <3>3, <5>1, <6>1 DEF Keys
        <5>2. CASE ~(i <= k)
          BY <1>6, <3>3, <5>2 DEF Keys
        <5> QED
          BY <5>1, <5>2
      <4>2. q # p
        BY <2>1, <3>1, <4>1 DEF Keys
      <4> QED
        BY <2>1, <3>1, <4>1, <4>2 DEF Inv, Distinct
    <3> QED
      BY <3>2, <3>3
  <2>2. \A i, j \in Keys : i < j \/ j < i \/ i = j
    BY DEF Keys
  <2> QED
    BY <2>1, <2>2 DEF Distinct
<1>10. Packed'
  BY <1>7 DEF Packed
<1>11. Abstract!Again(input)
  <2>1. PICK o : o = [i \in 1..m |-> server[i]]
    OBVIOUS
  <2>2. Offered = o
    <3>1. \A i \in Keys : i \in {j \in Keys : server[j] # None} <=> i <= m
      BY <1>1
    <3> QED
      BY <2>1, <3>1, OfferedFirst DEF Offered
  <2>3. Offered' = [i \in 1..m |-> server'[i]]
    <3>1. \A i \in Keys : i \in {j \in Keys : server'[j] # None} <=> i <= m
      BY <1>7
    <3> QED
      BY <3>1, OfferedFirst DEF Offered
  <2>4. m \in Nat /\ DOMAIN o = 1..m /\ 1..m \subseteq Keys /\ k \in 1..m
    BY <1>2, <2>1 DEF Keys
  <2>5. PICK new : new = [i \in 1..m |-> server'[i]]
    OBVIOUS
  <2>6. PICK a, b : a = SubSeq(o, 1, k - 1) /\ b = SubSeq(o, k + 1, m)
    OBVIOUS
  <2>7. /\ o \in Seq(Inputs) /\ Len(o) = m /\ new \in Seq(Inputs) /\ Len(new) = m
        /\ \A i \in 1..m : /\ o[i] = server[i]
                           /\ new[i] = IF i = 1 THEN input ELSE IF i <= k THEN o[i - 1] ELSE o[i]
    <3>1. \A i \in 1..m : server[i] \in Inputs /\ server'[i] \in Inputs
      BY <1>1, <1>7, <1>8, <2>4 DEF Inv, TypeOK
    <3>2. o \in Seq(Inputs) /\ Len(o) = m /\ new \in Seq(Inputs) /\ Len(new) = m
      BY <2>1, <2>4, <2>5, <3>1
    <3>3. ASSUME NEW i \in 1..m
          PROVE  /\ o[i] = server[i]
                 /\ new[i] = IF i = 1 THEN input ELSE IF i <= k THEN o[i - 1] ELSE o[i]
      <4>1. i \in Keys /\ o[i] = server[i] /\ (i # 1 => o[i - 1] = server[i - 1])
        BY <2>1, <2>4 DEF Keys
      <4>2. new[i] = server'[i]
        BY <2>5
      <4> QED
        BY <1>6, <4>1, <4>2
    <3> QED
      BY <3>2, <3>3
  <2>8. new = <<input>> \o a \o b
    <3>1. \A i \in 1..m : new[i] = IF i = 1 THEN input ELSE IF i <= k THEN o[i - 1] ELSE o[i]
      BY <2>7
    <3>2. /\ o \in Seq(Inputs) /\ input \in Inputs /\ k \in 1..Len(o)
          /\ new \in Seq(Inputs) /\ Len(new) = Len(o)
          /\ \A i \in 1..Len(o) :
                 new[i] = IF i = 1 THEN input ELSE IF i <= k THEN o[i - 1] ELSE o[i]
      BY <2>4, <2>7, <3>1
    <3>3. new = <<input>> \o SubSeq(o, 1, k - 1) \o SubSeq(o, k + 1, Len(o))
      BY <3>2, ToFront, ZenonT(40)
    <3> QED
      BY <2>6, <2>7, <3>3
  <2> QED
    BY <1>2, <2>2, <2>3, <2>4, <2>5, <2>6, <2>7, <2>8 DEF Abstract!Again
<1> QED
  BY <1>8, <1>9, <1>10, <1>11 DEF Inv

\* An element that comes in front of the first ones.
LEMMA InFront ==
    ASSUME NEW S, NEW o \in Seq(S), NEW x \in S, NEW n \in Nat, n <= Len(o),
           NEW new \in Seq(S), Len(new) = n + 1,
           \A i \in 1..(n + 1) : new[i] = IF i = 1 THEN x ELSE o[i - 1]
    PROVE  new = <<x>> \o SubSeq(o, 1, n)
<1>1. PICK a, c : a = SubSeq(o, 1, n) /\ c = <<x>> \o a
  OBVIOUS
<1>2. a \in Seq(S) /\ Len(a) = n /\ \A i \in 1..n : a[i] = o[i]
  BY <1>1
<1>3. <<x>> \in Seq(S) /\ Len(<<x>>) = 1 /\ <<x>>[1] = x
  OBVIOUS
<1>4. c \in Seq(S) /\ Len(c) = n + 1
  BY <1>1, <1>2, <1>3
<1>5. \A i \in 1..(n + 1) : c[i] = IF i = 1 THEN x ELSE a[i - 1]
  BY <1>1, <1>2, <1>3
<1>6. \A i \in 1..(n + 1) : new[i] = c[i]
  <2> TAKE i \in 1..(n + 1)
  <2>1. i # 1 => i - 1 \in 1..n
    OBVIOUS
  <2> QED
    BY <1>2, <1>5, <2>1
<1>7. new = c
  BY <1>4, <1>6, SameElements
<1> QED
  BY <1>1, <1>7

\* A server that was not offered comes in front.
LEMMA ComesInFront ==
    ASSUME Inv, NEW input \in Inputs, input # None, OnConnect(input),
           \A i \in Keys : server[i] # input
    PROVE  Inv' /\ Abstract!First(input)
<1>1. PICK m \in 0..5 : \A i \in Keys : server[i] # None <=> i <= m
  BY DEF Inv, Packed
<1>2. Repeated(input) = 5
  <2>1. {i \in Keys : server[i] = input} = {}
    OBVIOUS
  <2> QED
    BY <2>1 DEF Repeated
<1>3. Erased(input) = server
  BY DEF Erased, Inv, TypeOK
<1>4. server' = [i \in Keys |-> IF i = 1 THEN input ELSE IF i <= m + 1 THEN server[i - 1] ELSE None]
  <2>1. server' = [i \in Keys |->
                      IF i <= 5 /\ (IF i > 1 THEN server[i - 1] ELSE input) # None
                      THEN (IF i > 1 THEN server[i - 1] ELSE input) ELSE server[i]]
    BY <1>2, <1>3 DEF OnConnect, Shifted
  <2>2. ASSUME NEW i \in Keys
        PROVE  (IF i <= 5 /\ (IF i > 1 THEN server[i - 1] ELSE input) # None
                THEN (IF i > 1 THEN server[i - 1] ELSE input) ELSE server[i])
               = IF i = 1 THEN input ELSE IF i <= m + 1 THEN server[i - 1] ELSE None
    <3>1. CASE i = 1
      BY <3>1
    <3>2. CASE i # 1
      <4>1. i - 1 \in Keys /\ i > 1 /\ i <= 5 /\ (i - 1 <= m <=> i <= m + 1) /\ (i <= m => i - 1 <= m)
        BY <3>2 DEF Keys
      <4> QED
        BY <1>1, <3>2, <4>1
    <3> QED
      BY <3>1, <3>2
  <2> QED
    BY <2>1, <2>2
<1>5. \A i \in Keys :
         server'[i] = IF i = 1 THEN input ELSE IF i <= m + 1 THEN server[i - 1] ELSE None
  BY <1>4
<1>6. PICK n \in 0..4 : n = IF m = 5 THEN 4 ELSE m
  OBVIOUS
<1>7. \A i \in Keys : server'[i] # None <=> i <= n + 1
  <2> TAKE i \in Keys
  <2>1. CASE i = 1
    BY <1>5, <1>6, <2>1
  <2>2. CASE i # 1
    <3>1. i - 1 \in Keys /\ (i - 1 <= m <=> i <= m + 1) /\ (i <= m + 1 <=> i <= n + 1)
      BY <1>6, <2>2 DEF Keys
    <3> QED
      BY <1>1, <1>5, <2>2, <3>1
  <2> QED
    BY <2>1, <2>2
<1>8. TypeOK'
  <2>1. ASSUME NEW i \in Keys PROVE server'[i] \in Inputs \cup {None}
    <3>1. i # 1 => i - 1 \in Keys
      BY DEF Keys
    <3>2. i # 1 => server[i - 1] \in Inputs \cup {None}
      BY <3>1 DEF Inv, TypeOK
    <3> QED
      BY <1>5, <3>2
  <2>2. server' \in [Keys -> Inputs \cup {None}]
    BY <1>4, <2>1
  <2> QED
    BY <2>2 DEF TypeOK
<1>9. Distinct'
  <2>1. ASSUME NEW i \in Keys, NEW j \in Keys, i < j, server'[i] = server'[j], server'[i] # None
        PROVE  FALSE
    <3>1. j - 1 \in Keys /\ server'[j] = server[j - 1]
      <4>1. j # 1 /\ j - 1 \in Keys
        BY <2>1 DEF Keys
      <4> QED
        BY <1>5, <2>1, <4>1
    <3>2. CASE i = 1
      BY <1>5, <2>1, <3>1, <3>2
    <3>3. CASE i # 1
      <4>1. i - 1 \in Keys /\ i - 1 # j - 1
        BY <2>1, <3>3 DEF Keys
      <4>2. server'[i] = server[i - 1]
        BY <1>5, <2>1, <3>3
      <4> QED
        BY <2>1, <3>1, <4>1, <4>2 DEF Inv, Distinct
    <3> QED
      BY <3>2, <3>3
  <2>2. \A i, j \in Keys : i < j \/ j < i \/ i = j
    BY DEF Keys
  <2> QED
    BY <2>1, <2>2 DEF Distinct
<1>10. Packed'
  <2>1. n + 1 \in 0..5
    OBVIOUS
  <2> QED
    BY <1>7, <2>1 DEF Packed
<1>11. Abstract!First(input)
  <2>1. PICK o, new : /\ o = [i \in 1..m |-> server[i]]
                      /\ new = [i \in 1..(n + 1) |-> server'[i]]
    OBVIOUS
  <2>2. Offered = o
    <3>1. \A i \in Keys : i \in {j \in Keys : server[j] # None} <=> i <= m
      BY <1>1
    <3> QED
      BY <2>1, <3>1, OfferedFirst DEF Offered
  <2>3. Offered' = new
    <3>1. n + 1 \in 0..5 /\ \A i \in Keys : i \in {j \in Keys : server'[j] # None} <=> i <= n + 1
      BY <1>7
    <3> QED
      BY <2>1, <3>1, OfferedFirst DEF Offered
  <2>4. m \in Nat /\ n \in Nat /\ n <= m /\ 1..m \subseteq Keys /\ 1..(n + 1) \subseteq Keys
    BY <1>6 DEF Keys
  <2>5. /\ o \in Seq(Inputs) /\ Len(o) = m /\ new \in Seq(Inputs) /\ Len(new) = n + 1
        /\ \A i \in 1..m : o[i] # input
    <3>1. \A i \in 1..m : server[i] \in Inputs /\ server[i] # input
      BY <1>1, <2>4 DEF Inv, TypeOK
    <3>2. \A i \in 1..(n + 1) : server'[i] \in Inputs
      BY <1>7, <1>8, <2>4 DEF TypeOK
    <3>3. o \in Seq(Inputs) /\ Len(o) = m /\ \A i \in 1..m : o[i] # input
      BY <2>1, <2>4, <3>1
    <3>4. PICK e : e = n + 1
      OBVIOUS
    <3>5. e \in Nat /\ new = [i \in 1..e |-> server'[i]]
      BY <2>1, <2>4, <3>4
    <3>6. new \in Seq(Inputs) /\ Len(new) = e
      BY <3>2, <3>4, <3>5
    <3> QED
      BY <3>3, <3>4, <3>6
  <2>6. \A i \in 1..(n + 1) : new[i] = IF i = 1 THEN input ELSE o[i - 1]
    <3> TAKE i \in 1..(n + 1)
    <3>1. i \in Keys /\ i <= m + 1 /\ (i # 1 => i - 1 \in 1..m)
      BY <2>4
    <3>2. i # 1 => o[i - 1] = server[i - 1]
      BY <2>1, <3>1
    <3>3. new[i] = server'[i]
      BY <2>1
    <3> QED
      BY <1>5, <3>1, <3>2, <3>3
  <2>7. new = <<input>> \o SubSeq(o, 1, n)
    BY <2>4, <2>5, <2>6, InFront
  <2>8. n = IF Len(o) = 5 THEN 5 - 1 ELSE Len(o)
    BY <1>6, <2>5
  <2>9. DOMAIN o = 1..m
    BY <2>1
  <2> QED
    BY <2>2, <2>3, <2>5, <2>7, <2>8, <2>9 DEF Abstract!First
<1> QED
  BY <1>8, <1>9, <1>10, <1>11 DEF Inv

LEMMA InitInv == Init => Inv /\ Abstract!Init
<1> SUFFICES ASSUME Init PROVE Inv /\ Abstract!Init
  OBVIOUS
<1>1. Inv
  BY DEF Init, Inv, TypeOK, Packed, Distinct, Keys
<1>2. Offered = <<>>
  <2>1. {i \in Keys : server[i] # None} = {}
    BY DEF Init
  <2> QED
    BY <2>1, SelectedEmpty DEF Offered
<1> QED
  BY <1>1, <1>2 DEF Abstract!Init

LEMMA NextInv == Inv /\ [Next]_vars => Inv' /\ [Abstract!Next]_Offered
<1> SUFFICES ASSUME Inv, [Next]_vars PROVE Inv' /\ [Abstract!Next]_Offered
  OBVIOUS
<1>1. CASE Next
  <2>1. PICK address \in Addresses : OnConnect(Written(address))
    BY <1>1 DEF Next, Login
  <2>2. PICK input \in Inputs : input = Written(address) /\ input # None /\ OnConnect(input)
    BY <2>1, WrittenIsText DEF Inputs
  <2>3. CASE \E k \in Keys : server[k] = input
    BY <2>2, <2>3, MovesToFront DEF Abstract!Next
  <2>4. CASE \A k \in Keys : server[k] # input
    BY <2>2, <2>4, ComesInFront DEF Abstract!Next
  <2> QED
    BY <2>3, <2>4
<1>2. CASE UNCHANGED vars
  BY <1>2 DEF vars, Inv, TypeOK, Packed, Distinct, Offered
<1> QED
  BY <1>1, <1>2

\* The invariant that the refinement rests on.
THEOREM HistoryInvariant == Spec => []Inv
<1>1. Init => Inv
  BY InitInv
<1>2. Inv /\ [Next]_vars => Inv'
  BY NextInv
<1> QED
  BY <1>1, <1>2, PTL DEF Spec

\* The history the dialog offers is the list of the last servers used: the two loops over the
\* configuration keys take every step that list takes, and no other.
THEOREM HistoryIsTheRecentServers == Spec => ImplementsRecent
<1>1. Spec => []Inv
  BY HistoryInvariant
<1>2. Init => Abstract!Init
  BY InitInv
<1>3. Inv /\ [Next]_vars => [Abstract!Next]_Offered
  BY NextInv
<1> QED
  BY <1>1, <1>2, <1>3, PTL DEF Spec, ImplementsRecent, Abstract!Spec

\* What Find gives: the place before the first or last piece equal to c, or -1.
LEMMA FindFirstIs ==
    ASSUME NEW S, NEW t \in Seq(S), NEW c
    PROVE  /\ (\A i \in 1..Len(t) : t[i] # c) => FindFirst(t, c) = -1
           /\ \A k \in 1..Len(t) :
                 t[k] = c /\ (\A i \in 1..Len(t) : t[i] = c => k <= i) => FindFirst(t, c) = k - 1
<1>1. PICK I : I = {i \in 1..Len(t) : t[i] = c}
  OBVIOUS
<1>2. FindFirst(t, c) = (IF I # {} THEN Min(I) ELSE 0) - 1
  BY <1>1 DEF FindFirst, SelectInSeq
<1>3. ASSUME \A i \in 1..Len(t) : t[i] # c
      PROVE  FindFirst(t, c) = -1
  BY <1>1, <1>2, <1>3
<1>4. ASSUME NEW k \in 1..Len(t), t[k] = c, \A i \in 1..Len(t) : t[i] = c => k <= i
      PROVE  FindFirst(t, c) = k - 1
  <2>1. k \in I /\ \A i \in I : k <= i /\ i \in Nat
    BY <1>1, <1>4
  <2>2. Min(I) = CHOOSE x \in I : \A y \in I : x <= y
    BY Zenon DEF Min
  <2>3. Min(I) \in I /\ \A y \in I : Min(I) <= y
    BY <2>1, <2>2
  <2>4. Min(I) = k
    <3>1. PICK m : m = Min(I)
      OBVIOUS
    <3>2. m \in I /\ m <= k
      BY <2>1, <2>3, <3>1
    <3>3. m \in Nat /\ k \in Nat /\ k <= m
      BY <2>1, <3>2
    <3>4. m = k
      BY <3>2, <3>3
    <3> QED
      BY <3>1, <3>4
  <2> QED
    BY <1>2, <2>1, <2>4
<1> QED
  BY <1>3, <1>4

LEMMA FindLastIs ==
    ASSUME NEW S, NEW t \in Seq(S), NEW c
    PROVE  /\ (\A i \in 1..Len(t) : t[i] # c) => FindLast(t, c) = -1
           /\ \A k \in 1..Len(t) :
                 t[k] = c /\ (\A i \in 1..Len(t) : t[i] = c => i <= k) => FindLast(t, c) = k - 1
<1>1. PICK I : I = {i \in 1..Len(t) : t[i] = c}
  OBVIOUS
<1>2. FindLast(t, c) = (IF I # {} THEN Max(I) ELSE 0) - 1
  BY <1>1 DEF FindLast, SelectLastInSeq
<1>3. ASSUME \A i \in 1..Len(t) : t[i] # c
      PROVE  FindLast(t, c) = -1
  BY <1>1, <1>2, <1>3
<1>4. ASSUME NEW k \in 1..Len(t), t[k] = c, \A i \in 1..Len(t) : t[i] = c => i <= k
      PROVE  FindLast(t, c) = k - 1
  <2>1. k \in I /\ \A i \in I : i <= k /\ i \in Nat
    BY <1>1, <1>4
  <2>2. Max(I) = CHOOSE x \in I : \A y \in I : x >= y
    BY Zenon DEF Max
  <2>3. Max(I) \in I /\ \A y \in I : Max(I) >= y
    BY <2>1, <2>2
  <2>4. Max(I) = k
    <3>1. PICK m : m = Max(I)
      OBVIOUS
    <3>2. m \in I /\ m >= k
      BY <2>1, <2>3, <3>1
    <3>3. m \in Nat /\ k \in Nat /\ m <= k
      BY <2>1, <3>2
    <3>4. m = k
      BY <3>2, <3>3
    <3> QED
      BY <3>1, <3>4
  <2> QED
    BY <1>2, <2>1, <2>4
<1> QED
  BY <1>3, <1>4

\* The pieces of what is written: a host in brackets, and a port after a piece.
LEMMA InBrackets ==
    ASSUME NEW S, NEW h \in Seq(S), NEW x \in S, NEW y \in S
    PROVE  LET t == <<x>> \o h \o <<y>>
               n == Len(h)
           IN  /\ t \in Seq(S) /\ Len(t) = n + 2 /\ t[1] = x /\ t[n + 2] = y
               /\ \A i \in 1..n : t[1 + i] = h[i]
<1>1. PICK a, X, Y, n : a = X \o h /\ X = <<x>> /\ Y = <<y>> /\ n = Len(h)
  OBVIOUS
<1>2. /\ X \in Seq(S) /\ Len(X) = 1 /\ X[1] = x /\ Y \in Seq(S) /\ Len(Y) = 1 /\ Y[1] = y
      /\ n \in Nat
  BY <1>1
<1>3. a \in Seq(S) /\ Len(a) = 1 + n /\ a[1] = x /\ \A i \in 1..n : a[1 + i] = h[i]
  <2>1. /\ a \in Seq(S) /\ Len(a) = Len(X) + Len(h)
        /\ \A i \in 1..Len(X) : a[i] = X[i]
        /\ \A i \in 1..Len(h) : a[Len(X) + i] = h[i]
    BY <1>1, <1>2, Joined
  <2> QED
    BY <1>1, <1>2, <2>1
<1>4. PICK t : t = a \o Y
  OBVIOUS
<1>5. /\ t \in Seq(S) /\ Len(t) = Len(a) + Len(Y)
      /\ \A i \in 1..Len(a) : t[i] = a[i]
      /\ \A i \in 1..Len(Y) : t[Len(a) + i] = Y[i]
  <2>1. a \in Seq(S) /\ Y \in Seq(S)
    BY <1>2, <1>3
  <2> QED
    BY <1>4, <2>1, Joined
<1>6. Len(t) = n + 2 /\ t[1] = x /\ t[n + 2] = y
  <2>1. Len(a) + 1 = n + 2 /\ Len(a) + Len(Y) = n + 2 /\ 1 \in 1..Len(a) /\ 1 \in 1..Len(Y)
    BY <1>2, <1>3
  <2> QED
    BY <1>2, <1>3, <1>5, <2>1
<1>7. ASSUME NEW i \in 1..n PROVE t[1 + i] = h[i]
  <2>1. 1 + i \in 1..Len(a)
    BY <1>2, <1>3
  <2> QED
    BY <1>3, <1>5, <2>1
<1> QED
  BY <1>1, <1>4, <1>5, <1>6, <1>7

LEMMA AfterPiece ==
    ASSUME NEW S, NEW h \in Seq(S), NEW p \in Seq(S), NEW x \in S
    PROVE  LET t == h \o (<<x>> \o p)
               n == Len(h)
               q == Len(p)
           IN  /\ t \in Seq(S) /\ Len(t) = (n + 1) + q /\ t[n + 1] = x
               /\ \A i \in 1..n : t[i] = h[i]
               /\ \A i \in 1..q : t[(n + 1) + i] = p[i]
<1>1. PICK a, X, n, q : a = X \o p /\ X = <<x>> /\ n = Len(h) /\ q = Len(p)
  OBVIOUS
<1>2. X \in Seq(S) /\ Len(X) = 1 /\ X[1] = x /\ n \in Nat /\ q \in Nat
  BY <1>1
<1>3. a \in Seq(S) /\ Len(a) = 1 + q /\ a[1] = x /\ \A i \in 1..q : a[1 + i] = p[i]
  <2>1. /\ a \in Seq(S) /\ Len(a) = Len(X) + Len(p)
        /\ \A i \in 1..Len(X) : a[i] = X[i]
        /\ \A i \in 1..Len(p) : a[Len(X) + i] = p[i]
    BY <1>1, <1>2, Joined
  <2> QED
    BY <1>1, <1>2, <2>1
<1>4. PICK t : t = h \o a
  OBVIOUS
<1>5. /\ t \in Seq(S) /\ Len(t) = n + Len(a)
      /\ \A i \in 1..n : t[i] = h[i]
      /\ \A i \in 1..Len(a) : t[n + i] = a[i]
  <2>1. a \in Seq(S)
    BY <1>3
  <2>2. /\ t \in Seq(S) /\ Len(t) = Len(h) + Len(a)
        /\ \A i \in 1..Len(h) : t[i] = h[i]
        /\ \A i \in 1..Len(a) : t[Len(h) + i] = a[i]
    BY <1>4, <2>1, Joined
  <2> QED
    BY <1>1, <2>2
<1>6. Len(t) = (n + 1) + q /\ t[n + 1] = x
  <2>1. n + Len(a) = (n + 1) + q /\ 1 \in 1..Len(a)
    BY <1>2, <1>3
  <2> QED
    BY <1>3, <1>5, <2>1
<1>7. ASSUME NEW i \in 1..q PROVE t[(n + 1) + i] = p[i]
  <2>1. 1 + i \in 1..Len(a) /\ (n + 1) + i = n + (1 + i)
    BY <1>2, <1>3
  <2> QED
    BY <1>3, <1>5, <2>1
<1> QED
  BY <1>1, <1>4, <1>5, <1>6, <1>7

\* A piece of a text comes last somewhere.
LEMMA ComesLast ==
    ASSUME NEW S, NEW t \in Seq(S), NEW c, \E i \in 1..Len(t) : t[i] = c
    PROVE  \E k \in 1..Len(t) : t[k] = c /\ \A i \in 1..Len(t) : t[i] = c => i <= k
<1>1. PICK n, T : n = Len(t) /\ T = {m \in 0..n : n - m \in 1..n /\ t[n - m] = c}
  OBVIOUS
<1>2. n \in Nat /\ T \subseteq Nat
  BY <1>1
<1>3. PICK j \in 1..n : t[j] = c
  BY <1>1
<1>4. n - j \in T
  BY <1>1, <1>2, <1>3
<1>5. PICK l \in T : \A m \in T : l <= m
  BY <1>2, <1>4, LeastNumber
<1>6. l \in Nat /\ n - l \in 1..n /\ t[n - l] = c
  BY <1>1, <1>5
<1>7. ASSUME NEW i \in 1..n, t[i] = c PROVE i <= n - l
  <2>1. n - i \in T
    BY <1>1, <1>2, <1>7
  <2>2. l <= n - i
    BY <1>5, <2>1
  <2> QED
    BY <1>2, <1>6, <2>2
<1> QED
  BY <1>1, <1>6, <1>7

\* The texts with brackets: they are found where they are, and the host is what is inside.
LEMMA BracketsFound ==
    ASSUME NEW S, NEW t \in Seq(S), NEW h \in Seq(S), NEW n \in Nat, n = Len(h),
           NEW m \in Nat, m = n + 2, m <= Len(t), t[1] = "[", t[m] = "]",
           \A i \in 1..n : t[1 + i] = h[i] /\ h[i] \notin {"[", "]"},
           \A i \in (m + 1)..Len(t) : t[i] # "]"
    PROVE  HasBrackets(t) /\ FindFirst(t, "]") = n + 1 /\ GetServer(t) = h
<1>1. PICK l : l = Len(t)
  OBVIOUS
<1>2. l \in Nat /\ n + 2 <= l
  BY <1>1
<1>3. FindFirst(t, "[") = 0
  <2>1. 1 \in 1..Len(t) /\ \A i \in 1..Len(t) : t[i] = "[" => 1 <= i
    BY <1>1, <1>2
  <2>2. FindFirst(t, "[") = 1 - 1
    BY <2>1, FindFirstIs
  <2> QED
    BY <2>2
<1>4. \A i \in 1..l : t[i] = "]" => i = n + 2
  <2> SUFFICES ASSUME NEW i \in 1..l, t[i] = "]", i # n + 2 PROVE FALSE
    OBVIOUS
  <2>1. CASE i = 1
    BY <2>1
  <2>2. CASE i # 1 /\ i < n + 2
    <3>1. i - 1 \in 1..n /\ 1 + (i - 1) = i
      BY <2>2
    <3>2. t[1 + (i - 1)] = h[i - 1] /\ h[i - 1] # "]"
      BY <3>1
    <3> QED
      BY <3>1, <3>2
  <2>3. CASE i > n + 2
    BY <1>1, <1>2, <2>3
  <2> QED
    BY <2>1, <2>2, <2>3
<1>5. FindFirst(t, "]") = n + 1 /\ FindLast(t, "]") = n + 1
  <2>1. PICK k : k = n + 2
    OBVIOUS
  <2>2. k \in 1..Len(t) /\ t[k] = "]" /\ k - 1 = n + 1
    BY <1>1, <1>2, <2>1
  <2>3. \A i \in 1..Len(t) : t[i] = "]" => k <= i /\ i <= k
    BY <1>1, <1>4, <2>1
  <2>4. FindFirst(t, "]") = k - 1 /\ FindLast(t, "]") = k - 1
    BY <2>2, <2>3, FindFirstIs, FindLastIs, SMTT(40)
  <2> QED
    BY <2>2, <2>4
<1>6. HasBrackets(t)
  BY <1>3, <1>5 DEF HasBrackets
<1>7. GetServer(t) = h
  <2>1. GetServer(t) = SubSeq(t, 1 + 1, 1 + n)
    <3>1. (n + 1) - 1 = n
      OBVIOUS
    <3> QED
      BY <1>5, <1>6, <3>1 DEF GetServer, Mid
  <2>2. 1 + Len(h) <= Len(t)
    BY <1>1, <1>2
  <2>3. SubSeq(t, 1 + 1, 1 + Len(h)) = h
    BY <2>2, PartIs
  <2> QED
    BY <2>1, <2>3
<1> QED
  BY <1>5, <1>6, <1>7

\* The part after a piece that is the last one of its kind.
LEMMA PortAfter ==
    ASSUME NEW S, NEW t \in Seq(S), NEW p \in Seq(S), NEW k \in Nat, k > 0, Len(t) = k + Len(p),
           NEW c, t[k] = c, \A i \in 1..Len(p) : t[k + i] = p[i] /\ p[i] # c
    PROVE  FindLast(t, c) = k - 1 /\ MidToEnd(t, k) = p
<1>1. PICK q, l : q = Len(p) /\ l = Len(t)
  OBVIOUS
<1>2. q \in Nat /\ l = k + q /\ k \in 1..l
  BY <1>1
<1>3. \A i \in 1..l : t[i] = c => i <= k
  <2> SUFFICES ASSUME NEW i \in 1..l, t[i] = c, i > k PROVE FALSE
    BY <1>2
  <2>1. i - k \in 1..q /\ k + (i - k) = i
    BY <1>2
  <2>2. t[k + (i - k)] = p[i - k] /\ p[i - k] # c
    BY <1>1, <2>1
  <2> QED
    BY <2>1, <2>2
<1>4. FindLast(t, c) = k - 1
  <2>1. k \in 1..Len(t) /\ t[k] = c /\ \A i \in 1..Len(t) : t[i] = c => i <= k
    BY <1>1, <1>2, <1>3
  <2> QED
    BY <2>1, FindLastIs, ZenonT(40)
<1>5. MidToEnd(t, k) = SubSeq(t, k + 1, k + Len(p))
  BY DEF MidToEnd
<1>6. k + Len(p) <= Len(t) /\ \A i \in 1..Len(p) : t[k + i] = p[i]
  BY <1>1, <1>2
<1>7. SubSeq(t, k + 1, k + Len(p)) = p
  BY <1>6, PartIs
<1> QED
  BY <1>4, <1>5, <1>7

\* What the dialog makes of what is written is what was meant.
LEMMA WrittenIsUnderstood ==
    ASSUME NEW address \in Addresses
    PROVE  Address(GetServer(Written(address)), GetPort(Written(address))) = address
<1>1. PICK h, p, n, t : /\ h = address.host /\ p = address.port /\ n = Len(h)
                        /\ t = Written(address)
  OBVIOUS
<1>2. /\ h \in Seq(Pieces) /\ n \in Nat /\ n > 0 /\ p \in Seq(Pieces)
      /\ "[" \in Pieces /\ "]" \in Pieces /\ ":" \in Pieces
  BY <1>1, AddressType DEF Pieces
<1>3. /\ \A i \in 1..n : h[i] \notin {"[", "]"}
      /\ \A i \in 1..Len(p) : p[i] \notin {":", "[", "]"}
  <2>1. DOMAIN h = 1..n /\ DOMAIN p = 1..Len(p)
    BY <1>1, <1>2
  <2> QED
    BY <1>1, <2>1, AddressesAssumption
<1>4. PICK a : a = IF Contains(h, ":") THEN <<"[">> \o h \o <<"]">> ELSE h
  OBVIOUS
<1>5. t = a \o (IF p = DefaultPort THEN <<>> ELSE <<":">> \o p)
  BY <1>1, <1>4 DEF Written
<1>6. a \in Seq(Pieces)
  BY <1>2, <1>4, InBrackets
<1>7. p = DefaultPort => t = a
  BY <1>5, <1>6
<1>8. ASSUME p # DefaultPort, NEW m \in Nat, m = Len(a)
      PROVE  /\ t \in Seq(Pieces) /\ Len(t) = (m + 1) + Len(p) /\ t[m + 1] = ":"
             /\ \A i \in 1..m : t[i] = a[i]
             /\ \A i \in 1..Len(p) : t[(m + 1) + i] = p[i]
  <2>1. t = a \o (<<":">> \o p)
    BY <1>5, <1>8
  <2> QED
    BY <1>2, <1>6, <1>8, <2>1, AfterPiece
<1>9. GetServer(t) = h /\ GetPort(t) = p
  <2>1. CASE ~Contains(h, ":")
    <3>1. a = h /\ \A i \in 1..n : h[i] # ":"
      BY <1>1, <1>4, <2>1 DEF Contains
    <3>2. CASE p = DefaultPort
      <4>1. t = h
        BY <1>7, <3>1, <3>2
      <4>2. FindFirst(t, "[") = -1 /\ FindLast(t, ":") = -1
        BY <1>1, <1>2, <1>3, <3>1, <4>1, FindFirstIs, FindLastIs
      <4> QED
        BY <3>2, <4>1, <4>2 DEF GetServer, GetPort, HasBrackets
    <3>3. CASE p # DefaultPort
      <4>1. /\ t \in Seq(Pieces) /\ Len(t) = (n + 1) + Len(p) /\ t[n + 1] = ":"
            /\ \A i \in 1..n : t[i] = h[i]
            /\ \A i \in 1..Len(p) : t[(n + 1) + i] = p[i]
        BY <1>1, <1>2, <1>8, <3>1, <3>3
      <4>2. FindLast(t, ":") = n /\ MidToEnd(t, n + 1) = p
        <5>1. PICK c : c = ":"
          OBVIOUS
        <5>2. PICK k : k = n + 1
          OBVIOUS
        <5>3. /\ t \in Seq(Pieces) /\ p \in Seq(Pieces) /\ k \in Nat /\ k > 0 /\ k - 1 = n
              /\ Len(t) = k + Len(p) /\ t[k] = c
          BY <1>2, <4>1, <5>1, <5>2
        <5>4. \A i \in 1..Len(p) : t[k + i] = p[i] /\ p[i] # c
          BY <1>3, <4>1, <5>1, <5>2
        <5>5. FindLast(t, c) = k - 1 /\ MidToEnd(t, k) = p
          BY <5>3, <5>4, PortAfter, SMTT(40)
        <5> QED
          BY <5>1, <5>2, <5>3, <5>5
      <4>3. \A i \in 1..Len(t) : t[i] # "["
        <5> SUFFICES ASSUME NEW i \in 1..Len(t), t[i] = "[" PROVE FALSE
          OBVIOUS
        <5>1. PICK q : q = Len(p) /\ q \in Nat
          BY <1>2
        <5>2. i \in 1..((n + 1) + q)
          BY <4>1, <5>1
        <5>3. CASE i <= n
          BY <1>3, <4>1, <5>2, <5>3
        <5>4. CASE i = n + 1
          BY <4>1, <5>4
        <5>5. CASE i > n + 1
          <6>1. i - (n + 1) \in 1..q /\ (n + 1) + (i - (n + 1)) = i
            BY <1>2, <5>1, <5>2, <5>5
          <6>2. t[(n + 1) + (i - (n + 1))] = p[i - (n + 1)]
            BY <4>1, <5>1, <6>1
          <6> QED
            BY <1>3, <5>1, <6>1, <6>2
        <5> QED
          BY <1>2, <5>2, <5>3, <5>4, <5>5
      <4>4. FindFirst(t, "[") = -1
        BY <4>1, <4>3, FindFirstIs
      <4>5. Mid(t, 0, n) = h
        <5>1. 0 + Len(h) <= Len(t) /\ \A i \in 1..Len(h) : t[0 + i] = h[i]
          <6>1. Len(h) = n /\ \A i \in 1..n : 0 + i = i
            BY <1>1, <1>2
          <6>2. n <= Len(t)
            <7>1. PICK q : q = Len(p) /\ q \in Nat
              BY <1>2
            <7> QED
              BY <1>2, <4>1, <7>1
          <6> QED
            BY <1>2, <4>1, <6>1, <6>2
        <5>2. SubSeq(t, 0 + 1, 0 + Len(h)) = h
          BY <1>2, <4>1, <5>1, PartIs
        <5> QED
          BY <1>1, <5>2 DEF Mid
      <4> QED
        BY <1>2, <4>2, <4>4, <4>5 DEF GetServer, GetPort, HasBrackets
    <3> QED
      BY <3>2, <3>3
  <2>2. CASE Contains(h, ":")
    <3>1. /\ Len(a) = n + 2 /\ a[1] = "[" /\ a[n + 2] = "]"
          /\ \A i \in 1..n : a[1 + i] = h[i]
      <4>1. a = <<"[">> \o h \o <<"]">>
        BY <1>4, <2>2
      <4>2. /\ Len(a) = Len(h) + 2 /\ a[1] = "[" /\ a[Len(h) + 2] = "]"
            /\ \A i \in 1..Len(h) : a[1 + i] = h[i]
        BY <1>2, <4>1, InBrackets
      <4> QED
        BY <1>1, <4>2
    <3>2. CASE p = DefaultPort
      <4>1. /\ t \in Seq(Pieces) /\ Len(t) = n + 2 /\ t[1] = "[" /\ t[n + 2] = "]"
            /\ \A i \in 1..n : t[1 + i] = h[i]
        BY <1>6, <1>7, <3>1, <3>2
      <4>2. HasBrackets(t) /\ FindFirst(t, "]") = n + 1 /\ GetServer(t) = h
        <5>1. PICK m : m = n + 2
          OBVIOUS
        <5>2. \A i \in 1..n : t[1 + i] = h[i] /\ h[i] \notin {"[", "]"}
          BY <1>3, <4>1
        <5>3. /\ n = Len(h) /\ m \in Nat /\ m <= Len(t)
              /\ \A i \in (m + 1)..Len(t) : t[i] # "]"
          BY <1>1, <1>2, <4>1, <5>1
        <5>4. /\ t \in Seq(Pieces) /\ h \in Seq(Pieces) /\ n \in Nat
              /\ t[1] = "[" /\ t[m] = "]"
          BY <1>2, <4>1, <5>1
        <5> QED
          BY <5>1, <5>2, <5>3, <5>4, BracketsFound, ZenonT(40)
      <4>3. FindLast(t, ":") < n + 1
        <5>1. \E i \in 1..Len(t) : t[i] = ":"
          <6>1. PICK i \in 1..n : h[i] = ":"
            BY <1>1, <2>2 DEF Contains
          <6>2. 1 + i \in 1..Len(t) /\ t[1 + i] = ":"
            BY <1>2, <4>1, <6>1
          <6> QED
            BY <6>2
        <5>2. PICK k \in 1..Len(t) : t[k] = ":" /\ \A i \in 1..Len(t) : t[i] = ":" => i <= k
          BY <4>1, <5>1, ComesLast
        <5>3. FindLast(t, ":") = k - 1
          BY <4>1, <5>2, FindLastIs
        <5>4. k # n + 2
          BY <4>1, <5>2
        <5> QED
          BY <1>2, <4>1, <5>3, <5>4
      <4> QED
        BY <3>2, <4>2, <4>3 DEF GetPort
    <3>3. CASE p # DefaultPort
      <4>1. PICK m : m = n + 2
        OBVIOUS
      <4>2. m \in Nat /\ m = Len(a)
        BY <1>2, <3>1, <4>1
      <4>3. /\ t \in Seq(Pieces) /\ Len(t) = (m + 1) + Len(p) /\ t[m + 1] = ":"
            /\ \A i \in 1..m : t[i] = a[i]
            /\ \A i \in 1..Len(p) : t[(m + 1) + i] = p[i]
        BY <1>8, <3>3, <4>2
      <4>4. FindLast(t, ":") = m /\ MidToEnd(t, m + 1) = p
        <5>1. PICK c : c = ":"
          OBVIOUS
        <5>2. PICK k : k = m + 1
          OBVIOUS
        <5>3. /\ t \in Seq(Pieces) /\ p \in Seq(Pieces) /\ k \in Nat /\ k > 0 /\ k - 1 = m
              /\ Len(t) = k + Len(p) /\ t[k] = c
          BY <1>2, <4>2, <4>3, <5>1, <5>2
        <5>4. \A i \in 1..Len(p) : t[k + i] = p[i] /\ p[i] # c
          BY <1>3, <4>3, <5>1, <5>2
        <5>5. FindLast(t, c) = k - 1 /\ MidToEnd(t, k) = p
          BY <5>3, <5>4, PortAfter, SMTT(40)
        <5> QED
          BY <5>1, <5>2, <5>3, <5>5
      <4>5. HasBrackets(t) /\ FindFirst(t, "]") = n + 1 /\ GetServer(t) = h
        <5>1. m <= Len(t) /\ t[1] = "[" /\ t[m] = "]"
          BY <1>2, <3>1, <4>1, <4>3
        <5>2. \A i \in 1..n : t[1 + i] = h[i] /\ h[i] \notin {"[", "]"}
          <6> TAKE i \in 1..n
          <6>1. 1 + i \in 1..m
            BY <1>2, <4>1
          <6> QED
            BY <1>3, <3>1, <4>3, <6>1
        <5>3. \A i \in (m + 1)..Len(t) : t[i] # "]"
          <6> TAKE i \in (m + 1)..Len(t)
          <6>1. PICK q : q = Len(p) /\ q \in Nat
            BY <1>2
          <6>2. i = m + 1 \/ (i - (m + 1) \in 1..q /\ (m + 1) + (i - (m + 1)) = i)
            BY <1>2, <4>1, <4>3, <6>1
          <6>3. CASE i = m + 1
            BY <4>3, <6>3
          <6>4. CASE i - (m + 1) \in 1..q /\ (m + 1) + (i - (m + 1)) = i
            <7>1. t[(m + 1) + (i - (m + 1))] = p[i - (m + 1)]
              BY <4>3, <6>1, <6>4
            <7> QED
              BY <1>3, <6>1, <6>4, <7>1
          <6> QED
            BY <6>2, <6>3, <6>4
        <5> QED
          <6>1. /\ t \in Seq(Pieces) /\ h \in Seq(Pieces) /\ n \in Nat /\ n = Len(h)
                /\ m \in Nat /\ m = n + 2
            BY <1>1, <1>2, <4>1, <4>2, <4>3
          <6> QED
            BY <5>1, <5>2, <5>3, <6>1, BracketsFound, ZenonT(40)
      <4>6. ~(m < n + 1) /\ m # -1
        BY <1>2, <4>1
      <4> QED
        BY <4>4, <4>5, <4>6 DEF GetPort
    <3> QED
      BY <3>2, <3>3
  <2> QED
    BY <2>1, <2>2
<1> QED
  BY <1>1, <1>9, AddressesAssumption

\* The session is opened with the host and the port the user meant, whatever they are.
THEOREM AddressIsUnderstood == Spec => []AddressIsMeant
<1>1. Init => AddressIsMeant
  BY DEF Init, AddressIsMeant
<1>2. AddressIsMeant /\ [Next]_vars => AddressIsMeant'
  <2> SUFFICES ASSUME AddressIsMeant, [Next]_vars PROVE AddressIsMeant'
    OBVIOUS
  <2>1. CASE Next
    <3>1. PICK address \in Addresses : OpenSession(Written(address)) /\ meant' = address
      BY <2>1 DEF Next, Login
    <3> QED
      BY <3>1, WrittenIsUnderstood DEF OpenSession, AddressIsMeant
  <2>2. CASE UNCHANGED vars
    BY <2>2 DEF vars, AddressIsMeant
  <2> QED
    BY <2>1, <2>2
<1> QED
  BY <1>1, <1>2, PTL DEF Spec
================================================================================
