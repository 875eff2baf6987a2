----------------------------- MODULE ConsoleProofs -----------------------------
(***************************************************************************)
(* Proofs about Console, for every set of inputs and of outputs.  The first *)
(* part is about texts: how many letters they have, and how the runs of     *)
(* line ends of a text that goes on are squeezed.                           *)
(***************************************************************************)
EXTENDS Console, SelectionsProofs

Chars == STRING \cup {"\n", "\r", "*", "^G"}

Text == Seq(Chars)

\* Places of what is kept: all but carriage returns, and letters.
NoCR == Chars \ {"\r"}
Letter == Chars \ {"\n", "\r"}

LEMMA TextsKept ==
    ASSUME NEW s \in Text
    PROVE  WithoutCR(s) = Kept(s, NoCR) /\ Letters(s) = Kept(s, Letter)
<1>1. \A i \in DOMAIN s : s[i] \in Chars
  BY DEF Text
<1>2. {i \in DOMAIN s : s[i] # "\r"} = Places(s, NoCR)
  BY <1>1 DEF Places, NoCR
<1>3. {i \in DOMAIN s : s[i] \notin {"\n", "\r"}} = Places(s, Letter)
  BY <1>1 DEF Places, Letter
<1> QED
  BY <1>2, <1>3 DEF WithoutCR, Letters, Kept

LEMMA WithoutCRText ==
    ASSUME NEW s \in Text
    PROVE  WithoutCR(s) \in Text
  BY TextsKept, KeptType DEF Text

LEMMA TextAppend ==
    ASSUME NEW s \in Text, NEW x \in Chars
    PROVE  /\ Append(s, x) \in Text /\ Append(s, x) # <<>>
           /\ Len(Append(s, x)) = Len(s) + 1 /\ Append(s, x)[Len(s) + 1] = x
           /\ \A i \in 1..Len(s) : Append(s, x)[i] = s[i]
  BY DEF Text

LEMMA WithoutCRAppend ==
    ASSUME NEW s \in Text, NEW x \in Chars, x # "\r"
    PROVE  WithoutCR(Append(s, x)) = Append(WithoutCR(s), x)
<1>1. x \in NoCR
  BY DEF NoCR
<1>2. Kept(Append(s, x), NoCR) = Append(Kept(s, NoCR), x)
  BY <1>1, KeptGrows DEF Text
<1> QED
  BY <1>2, TextsKept, TextAppend

--------------------------------------------------------------------------------
(* How many letters a text has.                                             *)

Size(s) == Len(Letters(s))

LEMMA SizeIsNat ==
    ASSUME NEW s \in Text
    PROVE  Letters(s) \in Text /\ Size(s) \in Nat
<1>1. Letters(s) \in Text
  BY TextsKept, KeptType DEF Text
<1> QED
  BY <1>1 DEF Size, Text

LEMMA SizeGrows ==
    ASSUME NEW s \in Text, NEW x \in Chars
    PROVE  Size(Append(s, x)) = IF x \in Letter THEN Size(s) + 1 ELSE Size(s)
<1>1. PICK a, b : a = Letters(s) /\ b = Letters(Append(s, x))
  OBVIOUS
<1>2. a \in Text /\ a = Kept(s, Letter) /\ b = Kept(Append(s, x), Letter)
  BY <1>1, SizeIsNat, TextsKept, TextAppend
<1>3. CASE x \in Letter
  <2>1. Kept(Append(s, x), Letter) = Append(Kept(s, Letter), x)
    BY <1>3, KeptGrows DEF Text
  <2> QED
    BY <1>1, <1>2, <1>3, <2>1 DEF Size, Text
<1>4. CASE x \notin Letter
  <2>1. b = a
    BY <1>2, <1>4, KeptGrows DEF Text
  <2> QED
    BY <1>1, <1>4, <2>1 DEF Size
<1> QED
  BY <1>3, <1>4

LEMMA SizeJoined ==
    ASSUME NEW s \in Text, NEW t \in Text
    PROVE  s \o t \in Text /\ Size(s \o t) = Size(s) + Size(t)
<1>1. s \o t \in Text
  BY DEF Text
<1>2. Letters(s \o t) = Letters(s) \o Letters(t)
  <2>1. Kept(s \o t, Letter) = Kept(s, Letter) \o Kept(t, Letter)
    BY KeptJoined DEF Text
  <2> QED
    BY <1>1, <2>1, TextsKept
<1>3. PICK a, b : a = Letters(s) /\ b = Letters(t)
  OBVIOUS
<1>4. a \in Text /\ b \in Text
  BY <1>3, SizeIsNat
<1>5. Len(a \o b) = Len(a) + Len(b)
  BY <1>4 DEF Text
<1> QED
  BY <1>1, <1>2, <1>3, <1>5 DEF Size

LEMMA SizeWithoutCR ==
    ASSUME NEW s \in Text
    PROVE  Size(WithoutCR(s)) = Size(s)
<1>1. PICK P : P = {u \in Text : Size(WithoutCR(u)) = Size(u)}
  OBVIOUS
<1>2. <<>> \in P
  <2>1. <<>> \in Text
    BY DEF Text
  <2>2. WithoutCR(<<>>) = <<>>
    BY <2>1, TextsKept, KeptEmpty
  <2> QED
    BY <1>1, <2>1, <2>2
<1>3. ASSUME NEW u \in Text, NEW x \in Chars, u \in P PROVE Append(u, x) \in P
  <2>1. /\ WithoutCR(u) \in Text /\ Append(u, x) \in Text
        /\ Size(WithoutCR(u)) = Size(u)
    BY <1>1, <1>3, WithoutCRText, TextAppend
  <2>2. CASE x # "\r"
    <3>1. WithoutCR(Append(u, x)) = Append(WithoutCR(u), x)
      BY <2>2, WithoutCRAppend
    <3>2. Size(Append(WithoutCR(u), x)) = Size(Append(u, x))
      BY <2>1, SizeGrows
    <3> QED
      BY <1>1, <2>1, <3>1, <3>2
  <2>3. CASE x = "\r"
    <3>1. x \notin NoCR /\ x \notin Letter
      BY <2>3 DEF NoCR, Letter
    <3>2. Kept(Append(u, x), NoCR) = Kept(u, NoCR)
      BY <3>1, KeptGrows DEF Text
    <3>3. WithoutCR(Append(u, x)) = WithoutCR(u)
      BY <2>1, <3>2, TextsKept
    <3>4. Size(Append(u, x)) = Size(u)
      BY <3>1, SizeGrows
    <3> QED
      BY <1>1, <2>1, <3>3, <3>4
  <2> QED
    BY <2>2, <2>3
<1>4. Text \subseteq P
  BY <1>2, <1>3, SeqInduction DEF Text
<1> QED
  BY <1>1, <1>4

\* A control character becomes an asterisk, which is no line end either.
LEMMA StarredIs ==
    ASSUME NEW s \in Text
    PROVE  /\ Starred(s) \in Text /\ Len(Starred(s)) = Len(s)
           /\ \A i \in 1..Len(s) : Starred(s)[i] = IF s[i] = "^G" THEN "*" ELSE s[i]
           /\ Starred(s) = <<>> <=> s = <<>>
<1>1. Len(s) \in Nat /\ \A i \in 1..Len(s) : s[i] \in Chars
  BY DEF Text
<1>2. \A i \in 1..Len(s) : (IF s[i] = "^G" THEN "*" ELSE s[i]) \in Chars
  BY <1>1 DEF Chars
<1>3. /\ Starred(s) \in Text /\ Len(Starred(s)) = Len(s)
      /\ \A i \in 1..Len(s) : Starred(s)[i] = IF s[i] = "^G" THEN "*" ELSE s[i]
  BY <1>1, <1>2 DEF Starred, Text
<1> QED
  BY <1>3 DEF Text

LEMMA SizeStarred ==
    ASSUME NEW s \in Text
    PROVE  Size(Starred(s)) = Size(s)
<1>1. PICK t : t = Starred(s)
  OBVIOUS
<1>2. /\ t \in Text /\ Len(t) = Len(s)
      /\ \A i \in 1..Len(s) : t[i] = IF s[i] = "^G" THEN "*" ELSE s[i]
  BY <1>1, StarredIs
<1>3. DOMAIN t = DOMAIN s /\ DOMAIN s = 1..Len(s)
  BY <1>2 DEF Text
<1>4. \A i \in DOMAIN s : t[i] \in {"\n", "\r"} <=> s[i] \in {"\n", "\r"}
  BY <1>2, <1>3
<1>5. PICK I, J : /\ I = {i \in DOMAIN s : s[i] \notin {"\n", "\r"}}
                  /\ J = {i \in DOMAIN t : t[i] \notin {"\n", "\r"}}
  OBVIOUS
<1>6. I = J /\ I \subseteq 1..Len(s)
  BY <1>3, <1>4, <1>5
<1>7. Len(Selected(s, I)) = Cardinality(I) /\ Len(Selected(t, I)) = Cardinality(I)
  BY <1>2, <1>6, SelectedType DEF Text
<1> QED
  BY <1>1, <1>5, <1>6, <1>7 DEF Size, Letters

\* A text that ends a line, without its line end.
LEMMA LineEndOff ==
    ASSUME NEW s \in Text
    PROVE  /\ WithoutLineEnd(s) \in Text
           /\ EndsLine(s) => s = Append(WithoutLineEnd(s), "\n")
           /\ ~EndsLine(s) => WithoutLineEnd(s) = s
<1>1. CASE EndsLine(s)
  <2>1. PICK n, b : n = Len(s) - 1 /\ b = SubSeq(s, 1, n)
    OBVIOUS
  <2>2. s # <<>> /\ s[Len(s)] = "\n"
    BY <1>1 DEF EndsLine
  <2>3. n \in Nat /\ Len(s) = n + 1
    BY <2>1, <2>2 DEF Text
  <2>4. b \in Text /\ Len(b) = n /\ \A i \in 1..n : b[i] = s[i]
    BY <2>1, <2>3 DEF Text
  <2>5. PICK a : a = Append(b, "\n")
    OBVIOUS
  <2>6. "\n" \in Chars
    BY DEF Chars
  <2>7. a \in Text /\ Len(a) = n + 1 /\ \A i \in 1..(n + 1) : a[i] = s[i]
    BY <2>2, <2>3, <2>4, <2>5, <2>6 DEF Text
  <2>8. a = s
    BY <2>3, <2>7, SameElements DEF Text
  <2>9. WithoutLineEnd(s) = b
    BY <1>1, <2>1 DEF WithoutLineEnd, Front
  <2> QED
    BY <1>1, <2>4, <2>5, <2>8, <2>9
<1>2. CASE ~EndsLine(s)
  BY <1>2 DEF WithoutLineEnd
<1> QED
  BY <1>1, <1>2

LEMMA SizeWithoutLineEnd ==
    ASSUME NEW s \in Text
    PROVE  Size(WithoutLineEnd(s)) = Size(s)
<1>1. CASE EndsLine(s)
  <2>1. PICK b, x : b = WithoutLineEnd(s) /\ x = "\n"
    OBVIOUS
  <2>2. b \in Text /\ s = Append(b, x) /\ x \in Chars /\ x \notin Letter
    BY <1>1, <2>1, LineEndOff DEF Chars, Letter
  <2>3. Size(Append(b, x)) = Size(b)
    BY <2>2, SizeGrows
  <2> QED
    BY <2>1, <2>2, <2>3
<1>2. CASE ~EndsLine(s)
  BY <1>2, LineEndOff
<1> QED
  BY <1>1, <1>2

LEMMA SizeLineEnd ==
    ASSUME NEW h \in BOOLEAN
    PROVE  LineEnd(h) \in Text /\ Size(LineEnd(h)) = 0
<1>1. Size(<<>>) = 0 /\ <<>> \in Text
  <2>1. <<>> \in Text
    BY DEF Text
  <2>2. Letters(<<>>) = <<>>
    BY <2>1, TextsKept, KeptEmpty
  <2> QED
    BY <2>1, <2>2 DEF Size
<1>2. PICK x, e : x = "\n" /\ e = <<>>
  OBVIOUS
<1>3. e \in Text /\ x \in Chars /\ x \notin Letter /\ Size(e) = 0 /\ <<"\n">> = Append(e, x)
  BY <1>1, <1>2 DEF Chars, Letter
<1>4. Size(Append(e, x)) = 0 /\ Append(e, x) \in Text
  BY <1>3, SizeGrows, TextAppend
<1> QED
  BY <1>1, <1>3, <1>4 DEF LineEnd

\* What is found first is found once less; nothing else changes.
LEMMA SizeWithoutFirst ==
    ASSUME NEW part \in Text, NEW s \in Text, Occurs(part, s)
    PROVE  /\ WithoutFirst(part, s) \in Text
           /\ Size(WithoutFirst(part, s)) + Size(part) = Size(s)
<1>1. PICK n, m : n = Len(s) /\ m = Len(part)
  OBVIOUS
<1>2. n \in Nat /\ m \in Nat
  BY <1>1 DEF Text
<1>3. PICK T : T = {i \in 0..(n - m) : SubSeq(s, i + 1, i + m) = part}
  OBVIOUS
<1>4. T \subseteq Nat /\ T # {}
  <2>1. \E i \in 0..(n - m) : SubSeq(s, i + 1, i + m) = part
    BY <1>1 DEF Occurs
  <2>2. 0..(n - m) \subseteq Nat
    BY <1>2
  <2> QED
    BY <1>3, <2>1, <2>2, Zenon
<1>5. PICK k \in T : \A j \in T : k <= j
  BY <1>4, LeastNumber
<1>6. /\ k \in 0..(n - m) /\ SubSeq(s, k + 1, k + m) = part
      /\ \A j \in 0..(k - 1) : SubSeq(s, j + 1, j + m) # part
  BY <1>2, <1>3, <1>5
<1>7. PICK start \in 0..(n - m) :
          /\ SubSeq(s, start + 1, start + m) = part
          /\ WithoutFirst(part, s) = SubSeq(s, 1, start) \o SubSeq(s, start + m + 1, n)
  <2>1. PICK start : start = CHOOSE i \in 0..(n - m) :
                                 /\ SubSeq(s, i + 1, i + m) = part
                                 /\ \A j \in 0..(i - 1) : SubSeq(s, j + 1, j + m) # part
    OBVIOUS
  <2>2. start \in 0..(n - m) /\ SubSeq(s, start + 1, start + m) = part
    BY <1>6, <2>1
  <2>3. WithoutFirst(part, s) = SubSeq(s, 1, start) \o SubSeq(s, start + m + 1, n)
    BY <1>1, <2>1 DEF WithoutFirst
  <2> QED
    BY <2>2, <2>3
<1>8. PICK a, b : a = SubSeq(s, 1, start) /\ b = SubSeq(s, start + m + 1, n)
  OBVIOUS
<1>9. a \in Text /\ b \in Text
  BY <1>1, <1>2, <1>7, <1>8 DEF Text
<1>10. a \o part \in Text /\ (a \o part) \o b \in Text
  BY <1>9, SizeJoined
<1>11. (a \o part) \o b = s
  <2>1. /\ Len(a) = start /\ Len(b) = n - (start + m) /\ start \in Nat
        /\ \A i \in 1..start : a[i] = s[i]
        /\ \A i \in 1..Len(b) : b[i] = s[start + m + i]
        /\ \A i \in 1..m : part[i] = s[start + i]
    <3>1. start \in Nat /\ start + m <= n
      BY <1>2, <1>7
    <3>2. Len(a) = start /\ \A i \in 1..start : a[i] = s[i]
      BY <1>1, <1>2, <1>8, <3>1 DEF Text
    <3>3. PICK d : d = start + m
      OBVIOUS
    <3>4. b = SubSeq(s, d + 1, n) /\ d \in Nat /\ d <= n
      BY <1>2, <1>8, <3>1, <3>3
    <3>5. Len(b) = n - d /\ \A i \in 1..Len(b) : b[i] = s[d + i]
      BY <1>1, <1>2, <3>4 DEF Text
    <3>6. PICK p : p = SubSeq(s, start + 1, start + m)
      OBVIOUS
    <3>7. \A i \in 1..m : p[i] = s[start + i]
      BY <1>1, <1>2, <3>1, <3>6 DEF Text
    <3> QED
      BY <1>7, <3>1, <3>2, <3>3, <3>5, <3>6, <3>7
  <2>2. PICK c, t : c = a \o part /\ t = c \o b
    OBVIOUS
  <2>3. /\ c \in Text /\ Len(c) = start + m
        /\ \A i \in 1..start : c[i] = s[i]
        /\ \A i \in 1..m : c[start + i] = s[start + i]
    <3>1. /\ Len(c) = Len(a) + Len(part)
          /\ \A i \in 1..Len(a) : c[i] = a[i]
          /\ \A i \in 1..Len(part) : c[Len(a) + i] = part[i]
      BY <1>9, <2>2, Joined DEF Text
    <3> QED
      BY <1>1, <1>10, <2>1, <2>2, <3>1
  <2>4. /\ t \in Text /\ Len(t) = n
        /\ \A i \in 1..(start + m) : t[i] = c[i]
        /\ \A i \in 1..Len(b) : t[start + m + i] = s[start + m + i]
    <3>1. /\ Len(t) = Len(c) + Len(b)
          /\ \A i \in 1..Len(c) : t[i] = c[i]
          /\ \A i \in 1..Len(b) : t[Len(c) + i] = b[i]
      BY <1>9, <2>2, <2>3, Joined, SMTT(40) DEF Text
    <3>2. Len(c) = start + m /\ Len(b) = n - (start + m) /\ start + m \in Nat
      BY <1>2, <2>1, <2>3
    <3>3. t \in Text
      BY <1>10, <2>2
    <3>4. \A i \in 1..Len(b) : t[start + m + i] = s[start + m + i]
      BY <2>1, <3>1, <3>2
    <3> QED
      BY <1>2, <3>1, <3>2, <3>3, <3>4
  <2>5. ASSUME NEW i \in 1..n PROVE t[i] = s[i]
    <3>1. CASE i <= start
      BY <1>2, <2>1, <2>3, <2>4, <3>1
    <3>2. CASE start < i /\ i <= start + m
      <4>1. PICK j : j = i - start
        OBVIOUS
      <4>2. j \in 1..m /\ i = start + j /\ i \in 1..(start + m)
        BY <1>2, <2>1, <3>2, <4>1
      <4> QED
        BY <2>3, <2>4, <4>2
    <3>3. CASE start + m < i
      <4>1. PICK j : j = i - (start + m)
        OBVIOUS
      <4>2. j \in 1..Len(b) /\ i = start + m + j
        BY <1>2, <2>1, <3>3, <4>1
      <4> QED
        BY <2>4, <4>2
    <3> QED
      BY <1>2, <2>1, <3>1, <3>2, <3>3
  <2>6. t = s
    BY <1>1, <2>4, <2>5, SameElements DEF Text
  <2> QED
    BY <2>2, <2>6
<1>12. Size(s) = Size(a) + Size(part) + Size(b)
  <2>1. Size(a \o part) = Size(a) + Size(part)
    BY <1>9, SizeJoined
  <2>2. PICK c : c = a \o part
    OBVIOUS
  <2>3. Size(c \o b) = Size(c) + Size(b)
    BY <1>9, <1>10, <2>2, SizeJoined
  <2> QED
    BY <1>11, <2>1, <2>2, <2>3
<1>13. Size(a \o b) = Size(a) + Size(b) /\ a \o b \in Text
  BY <1>9, SizeJoined
<1>14. Size(a) \in Nat /\ Size(b) \in Nat /\ Size(part) \in Nat
  BY <1>9, SizeIsNat
<1> QED
  BY <1>7, <1>8, <1>12, <1>13, <1>14

--------------------------------------------------------------------------------
(* Runs of line ends.                                                       *)

\* Something stands on the last line of a text.
Begun(s) == s # <<>> /\ s[Len(s)] # "\n"

LEMMA SqueezedAppend ==
    ASSUME NEW s \in Text, NEW x \in Chars
    PROVE  /\ Squeezed(s) \in Text
           /\ Squeezed(Append(s, x)) = IF x # "\n" \/ Begun(s) THEN Append(Squeezed(s), x)
                                                               ELSE Squeezed(s)
<1>1. PICK n, t : n = Len(s) /\ t = Append(s, x)
  OBVIOUS
<1>2. /\ n \in Nat /\ DOMAIN s = 1..n /\ DOMAIN t = 1..(n + 1) /\ t[n + 1] = x
      /\ \A i \in 1..n : t[i] = s[i]
  BY <1>1 DEF Text
<1>3. PICK I, J : /\ I = {i \in DOMAIN s : s[i] # "\n" \/ (i > 1 /\ s[i - 1] # "\n")}
                  /\ J = {i \in DOMAIN t : t[i] # "\n" \/ (i > 1 /\ t[i - 1] # "\n")}
  OBVIOUS
<1>4. I \subseteq 1..Len(s)
  BY <1>1, <1>2, <1>3
<1>5. /\ Selected(s, I) \in Text
      /\ Selected(t, I) = Selected(s, I)
      /\ Selected(t, I \cup {n + 1}) = Append(Selected(s, I), x)
  <2>1. Selected(s, I) \in Text
    BY <1>4, SelectedType DEF Text
  <2>2. /\ Selected(Append(s, x), I) = Selected(s, I)
        /\ Selected(Append(s, x), I \cup {Len(s) + 1}) = Append(Selected(s, I), x)
    BY <1>4, SelectedAppend, ZenonT(40) DEF Text
  <2> QED
    BY <1>1, <2>1, <2>2
<1>6. \A i \in 1..n : i \in J <=> i \in I
  <2> TAKE i \in 1..n
  <2>1. t[i] = s[i] /\ (i > 1 => t[i - 1] = s[i - 1])
    BY <1>2
  <2> QED
    BY <1>2, <1>3, <2>1
<1>7. n + 1 \in J <=> x # "\n" \/ Begun(s)
  <2>1. s # <<>> <=> n + 1 > 1
    BY <1>1, <1>2 DEF Text
  <2>2. n + 1 > 1 => t[n] = s[n]
    BY <1>2
  <2>3. n + 1 \in J <=> x # "\n" \/ (n + 1 > 1 /\ t[n] # "\n")
    BY <1>2, <1>3
  <2> QED
    BY <1>1, <2>1, <2>2, <2>3 DEF Begun
<1>8. CASE x # "\n" \/ Begun(s)
  <2>1. J = I \cup {n + 1}
    BY <1>2, <1>3, <1>6, <1>7, <1>8
  <2> QED
    BY <1>1, <1>3, <1>5, <1>8, <2>1 DEF Squeezed
<1>9. CASE ~(x # "\n" \/ Begun(s))
  <2>1. J = I
    BY <1>2, <1>3, <1>6, <1>7, <1>9
  <2> QED
    BY <1>1, <1>3, <1>5, <1>9, <2>1 DEF Squeezed
<1> QED
  BY <1>8, <1>9

LEMMA SqueezedEmpty == Squeezed(<<>>) = <<>> /\ ~Begun(<<>>) /\ <<>> \in Text
<1>1. {i \in DOMAIN <<>> : <<>>[i] # "\n" \/ (i > 1 /\ <<>>[i - 1] # "\n")} = {}
  OBVIOUS
<1>2. Squeezed(<<>>) = <<>>
  BY <1>1, SelectedEmpty DEF Squeezed
<1> QED
  BY <1>2 DEF Begun, Text

\* Squeezing does not change whether something stands on the last line.
LEMMA SqueezedBegun ==
    ASSUME NEW s \in Text
    PROVE  Begun(Squeezed(s)) <=> Begun(s)
<1>1. PICK P : P = {u \in Text : Begun(Squeezed(u)) <=> Begun(u)}
  OBVIOUS
<1>2. <<>> \in P
  BY <1>1, SqueezedEmpty
<1>3. ASSUME NEW u \in Text, NEW x \in Chars, u \in P PROVE Append(u, x) \in P
  <2>1. PICK q : q = Squeezed(u)
    OBVIOUS
  <2>2. /\ q \in Text /\ (Begun(q) <=> Begun(u)) /\ Append(u, x) \in Text
        /\ Squeezed(Append(u, x)) = IF x # "\n" \/ Begun(u) THEN Append(q, x) ELSE q
    BY <1>1, <1>3, <2>1, SqueezedAppend, TextAppend
  <2>3. \A v \in Text : Begun(Append(v, x)) <=> x # "\n"
    BY TextAppend DEF Begun
  <2> QED
    BY <1>1, <2>2, <2>3
<1>4. Text \subseteq P
  BY <1>2, <1>3, SeqInduction DEF Text
<1> QED
  BY <1>1, <1>4

\* Two texts that look the same still do when both go on with the same text.
LEMMA SqueezedGoesOn ==
    ASSUME NEW s \in Text, NEW t \in Text, NEW u \in Text, Squeezed(s) = Squeezed(t)
    PROVE  Squeezed(s \o u) = Squeezed(t \o u)
<1>1. PICK P : P = {v \in Text : Squeezed(s \o v) = Squeezed(t \o v)}
  OBVIOUS
<1>2. <<>> \in P
  <2>1. s \o <<>> = s /\ t \o <<>> = t
    BY DEF Text
  <2> QED
    BY <1>1, <2>1, SqueezedEmpty
<1>3. ASSUME NEW v \in Text, NEW x \in Chars, v \in P PROVE Append(v, x) \in P
  <2>1. PICK a, b : a = s \o v /\ b = t \o v
    OBVIOUS
  <2>2. a \in Text /\ b \in Text /\ s \o Append(v, x) = Append(a, x)
    BY <2>1 DEF Text
  <2>3. t \o Append(v, x) = Append(b, x)
    BY <2>1 DEF Text
  <2>4. Squeezed(a) = Squeezed(b)
    BY <1>1, <1>3, <2>1
  <2>5. Begun(a) <=> Begun(b)
    BY <2>2, <2>4, SqueezedBegun
  <2>6. Squeezed(Append(a, x)) = Squeezed(Append(b, x))
    <3>1. PICK q : q = Squeezed(a) /\ q = Squeezed(b)
      BY <2>4
    <3>2. Squeezed(Append(a, x)) = IF x # "\n" \/ Begun(a) THEN Append(q, x) ELSE q
      BY <2>2, <3>1, SqueezedAppend
    <3>3. Squeezed(Append(b, x)) = IF x # "\n" \/ Begun(b) THEN Append(q, x) ELSE q
      BY <2>2, <3>1, SqueezedAppend
    <3> QED
      BY <2>5, <3>2, <3>3
  <2> QED
    BY <1>1, <2>2, <2>3, <2>6, TextAppend
<1>4. Text \subseteq P
  BY <1>2, <1>3, SeqInduction DEF Text
<1> QED
  BY <1>1, <1>4

\* A second line end is squeezed into the first.
LEMMA LineEndTwice ==
    ASSUME NEW s \in Text, NEW e, e = <<"\n">>
    PROVE  Squeezed((s \o e) \o e) = Squeezed(s \o e)
<1>1. PICK x : x = "\n"
  OBVIOUS
<1>2. PICK a : a = Append(s, x)
  OBVIOUS
<1>3. x \in Chars /\ a \in Text /\ ~Begun(a)
  <2>1. x \in Chars
    BY <1>1 DEF Chars
  <2> QED
    BY <1>1, <1>2, <2>1, TextAppend DEF Begun
<1>4. s \o e = a /\ a \o e = Append(a, x)
  BY <1>1, <1>2, <1>3 DEF Text
<1>5. Squeezed(Append(a, x)) = Squeezed(a)
  BY <1>1, <1>3, SqueezedAppend
<1> QED
  BY <1>4, <1>5

LEMMA JoinedTwice ==
    ASSUME NEW u \in Text, NEW v \in Text, NEW w \in Text
    PROVE  (u \o v) \o w = u \o (v \o w)
  BY DEF Text

LEMMA AppendIsJoined ==
    ASSUME NEW a \in Text, NEW x \in Chars
    PROVE  Append(a, x) = a \o <<x>>
  BY DEF Text

\* A text that is shown without its line end, which is held back, after the line end that was:
\* it looks as if all of it had been shown.
After(o, h, r) == IF r = <<>> THEN o ELSE (o \o LineEnd(h)) \o r

LEMMA LinesShown ==
    ASSUME NEW o \in Text, NEW p \in Text, p # <<>>, NEW h \in BOOLEAN
    PROVE  Squeezed(After(o, h, Starred(WithoutLineEnd(p))) \o LineEnd(EndsLine(p)))
               = Squeezed((o \o LineEnd(h)) \o Starred(p))
<1> SUFFICES ASSUME NEW r, NEW shown, r = Starred(WithoutLineEnd(p)), shown = After(o, h, r)
             PROVE  Squeezed(shown \o LineEnd(EndsLine(p)))
                        = Squeezed((o \o LineEnd(h)) \o Starred(p))
  OBVIOUS
<1>1. PICK b, c, e : b = WithoutLineEnd(p) /\ c = o \o LineEnd(h) /\ e = LineEnd(EndsLine(p))
  OBVIOUS
<1>2. b \in Text /\ c \in Text /\ e \in Text /\ r \in Text
  <2>1. LineEnd(h) \in Text /\ EndsLine(p) \in BOOLEAN
    BY SizeLineEnd DEF EndsLine
  <2> QED
    BY <1>1, <2>1, LineEndOff, SizeJoined, SizeLineEnd, StarredIs
<1>3. r = <<>> <=> b = <<>>
  BY <1>1, <1>2, StarredIs
<1>4. Starred(p) = r \o e
  <2>1. CASE EndsLine(p)
    <3>1. PICK x : x = "\n"
      OBVIOUS
    <3>2. x \in Chars /\ p = Append(b, x) /\ e = <<x>>
      BY <1>1, <2>1, <3>1, LineEndOff DEF Chars, LineEnd
    <3>3. PICK s, t : s = Starred(p) /\ t = Append(r, x)
      OBVIOUS
    <3>4. PICK n : n = Len(b)
      OBVIOUS
    <3>5. n \in Nat /\ Len(p) = n + 1 /\ p[n + 1] = x /\ \A i \in 1..n : p[i] = b[i]
      BY <1>2, <3>2, <3>4, TextAppend DEF Text
    <3>6. /\ s \in Text /\ Len(s) = n + 1
          /\ \A i \in 1..(n + 1) : s[i] = IF p[i] = "^G" THEN "*" ELSE p[i]
      BY <3>3, <3>5, StarredIs
    <3>7. Len(r) = n /\ \A i \in 1..n : r[i] = IF b[i] = "^G" THEN "*" ELSE b[i]
      BY <1>1, <1>2, <3>4, StarredIs
    <3>8. t \in Text /\ Len(t) = n + 1 /\ t[n + 1] = x /\ \A i \in 1..n : t[i] = r[i]
      <4>1. /\ Append(r, x) \in Text /\ Len(Append(r, x)) = Len(r) + 1
            /\ Append(r, x)[Len(r) + 1] = x
            /\ \A i \in 1..Len(r) : Append(r, x)[i] = r[i]
        BY <1>2, <3>2, TextAppend
      <4> QED
        BY <3>3, <3>7, <4>1
    <3>9. \A i \in 1..(n + 1) : s[i] = t[i]
      <4> TAKE i \in 1..(n + 1)
      <4>1. CASE i \in 1..n
        BY <3>5, <3>6, <3>7, <3>8, <4>1
      <4>2. CASE i = n + 1
        BY <3>1, <3>5, <3>6, <3>8, <4>2
      <4> QED
        BY <3>5, <4>1, <4>2
    <3>10. s = t
      BY <3>6, <3>8, <3>9, SameElements DEF Text
    <3>11. t = r \o <<x>>
      BY <1>2, <3>2, <3>3, AppendIsJoined
    <3> QED
      BY <3>2, <3>3, <3>10, <3>11
  <2>2. CASE ~EndsLine(p)
    <3>1. b = p /\ e = <<>>
      BY <1>1, <2>2, LineEndOff DEF LineEnd
    <3>2. r \o <<>> = r
      BY <1>2 DEF Text
    <3> QED
      BY <1>1, <3>1, <3>2
  <2> QED
    BY <2>1, <2>2
<1>5. CASE r # <<>>
  <2>1. shown = c \o r
    BY <1>1, <1>5 DEF After
  <2>2. (c \o r) \o e = c \o (r \o e)
    BY <1>2, JoinedTwice, ZenonT(40)
  <2> QED
    BY <1>1, <1>4, <2>1, <2>2
<1>6. CASE r = <<>>
  <2>1. EndsLine(p)
    BY <1>1, <1>3, <1>6, LineEndOff
  <2>2. shown = o /\ Starred(p) = e /\ e = <<"\n">>
    <3>1. <<>> \o e = e
      BY <1>2 DEF Text
    <3> QED
      BY <1>1, <1>4, <1>6, <2>1, <3>1 DEF LineEnd, After
  <2>3. CASE h
    <3>1. c = o \o e
      BY <1>1, <2>2, <2>3 DEF LineEnd
    <3>2. Squeezed((o \o e) \o e) = Squeezed(o \o e)
      BY <2>2, LineEndTwice
    <3> QED
      BY <1>1, <2>2, <3>1, <3>2
  <2>4. CASE ~h
    <3>1. o \o <<>> = o
      BY DEF Text
    <3>2. c = o
      BY <1>1, <2>4, <3>1 DEF LineEnd
    <3> QED
      BY <1>1, <2>2, <3>2
  <2> QED
    BY <2>2, <2>3, <2>4
<1> QED
  BY <1>5, <1>6

--------------------------------------------------------------------------------
(* Add.                                                                     *)

Echo(input) == input \o <<"\r", "\n">>

Packets == [text : Text, of : {"echo", "part", "output"}]

TypeOK ==
    /\ lastInput \in Text /\ lastHadNewline \in BOOLEAN /\ output \in Text
    /\ unechoed \in Seq(Inputs) /\ onTheWay \in Seq(Packets)
    /\ typed \in Text /\ transcript \in Text /\ received \in Text
    /\ unclear \in BOOLEAN

LEMMA TextsGiven == Inputs \subseteq Text /\ Outputs \subseteq Text
<1>1. ASSUME NEW s \in Seq(STRING) PROVE s \in Text
  <2>1. Len(s) \in Nat /\ s = [i \in 1..Len(s) |-> s[i]] /\ \A i \in 1..Len(s) : s[i] \in STRING
    OBVIOUS
  <2>2. \A i \in 1..Len(s) : s[i] \in Chars
    BY <2>1 DEF Chars
  <2> QED
    BY <2>1, <2>2 DEF Text
<1> QED
  BY <1>1, ConsoleAssumption

\* What is shown of a text, and how the letters not shown are accounted for.
LEMMA AddCounts ==
    ASSUME TypeOK, NEW text \in Text, NEW memorize \in BOOLEAN, Add(text, memorize)
    PROVE  /\ output' \in Text /\ lastInput' \in Text /\ lastHadNewline' \in BOOLEAN
           /\ memorize => /\ Size(output') = Size(output) + Size(text)
                          /\ Size(lastInput') = Size(text)
           /\ ~memorize => Size(output') + Size(lastInput)
                               = Size(output) + Size(text) + Size(lastInput')
<1>1. PICK plain, found : plain = WithoutCR(text) /\ found = (~memorize /\ Occurs(lastInput, plain))
  OBVIOUS
<1>2. PICK rest : rest = IF found THEN WithoutFirst(lastInput, plain) ELSE plain
  OBVIOUS
<1>3. PICK shown : shown = Starred(WithoutLineEnd(rest))
  OBVIOUS
<1>4. /\ output' = Shown(shown)
      /\ lastInput' = IF memorize THEN plain ELSE IF found THEN <<>> ELSE lastInput
      /\ lastHadNewline' \in HasLineEnd(text)
  BY <1>1, <1>2, <1>3 DEF Add
<1>5. plain \in Text /\ Size(plain) = Size(text) /\ Size(plain) \in Nat
  BY <1>1, WithoutCRText, SizeWithoutCR, SizeIsNat
<1>6. /\ output \in Text /\ lastInput \in Text /\ Size(output) \in Nat /\ Size(lastInput) \in Nat
      /\ lastHadNewline \in BOOLEAN
  BY SizeIsNat DEF TypeOK
<1>7. rest \in Text /\ (found => Size(rest) + Size(lastInput) = Size(plain))
                    /\ (~found => rest = plain)
  BY <1>1, <1>2, <1>5, <1>6, SizeWithoutFirst
<1>8. shown \in Text /\ Size(shown) = Size(rest) /\ Size(rest) \in Nat
  <2>1. PICK b : b = WithoutLineEnd(rest)
    OBVIOUS
  <2>2. b \in Text /\ Size(b) = Size(rest)
    BY <1>7, <2>1, LineEndOff, SizeWithoutLineEnd
  <2> QED
    BY <1>3, <1>7, <2>1, <2>2, StarredIs, SizeStarred, SizeIsNat
<1>9. Size(<<>>) = 0 /\ <<>> \in Text
  BY SizeLineEnd DEF LineEnd
<1>10. output' \in Text /\ Size(output') = Size(output) + Size(rest)
  <2>1. CASE shown = <<>>
    BY <1>4, <1>6, <1>8, <1>9, <2>1 DEF Shown
  <2>2. CASE shown # <<>>
    <3>1. PICK e : e = LineEnd(lastHadNewline)
      OBVIOUS
    <3>2. e \in Text /\ Size(e) = 0
      BY <1>6, <3>1, SizeLineEnd
    <3>3. PICK c : c = output \o e
      OBVIOUS
    <3>4. c \in Text /\ Size(c) = Size(output)
      BY <1>6, <3>2, <3>3, SizeJoined
    <3>5. c \o shown \in Text /\ Size(c \o shown) = Size(c) + Size(shown)
      BY <1>8, <3>4, SizeJoined
    <3>6. output' = c \o shown
      BY <1>4, <2>2, <3>1, <3>3 DEF Shown
    <3> QED
      BY <1>8, <3>4, <3>5, <3>6
  <2> QED
    BY <2>1, <2>2
<1>11. lastHadNewline' \in BOOLEAN
  BY <1>4 DEF HasLineEnd, EndsLine
<1>12. memorize => lastInput' = plain /\ rest = plain
  BY <1>1, <1>4, <1>7
<1>13. ~memorize => \/ found /\ lastInput' = <<>>
                    \/ ~found /\ lastInput' = lastInput
  BY <1>4
<1>14. lastInput' \in Text
  BY <1>5, <1>6, <1>9, <1>12, <1>13
<1>15. ~memorize => Size(output') + Size(lastInput)
                        = Size(output) + Size(text) + Size(lastInput')
  <2>1. CASE found
    <3>1. ~memorize => Size(lastInput') = 0
      BY <1>9, <1>13, <2>1
    <3> QED
      BY <1>5, <1>6, <1>7, <1>8, <1>10, <2>1, <3>1
  <2>2. CASE ~found
    <3>1. ~memorize => Size(lastInput') = Size(lastInput)
      BY <1>13, <2>2
    <3>2. Size(rest) = Size(text)
      BY <1>5, <1>7, <2>2
    <3> QED
      BY <1>6, <1>8, <1>10, <3>1, <3>2
  <2> QED
    BY <2>1, <2>2
<1> QED
  BY <1>5, <1>10, <1>11, <1>12, <1>14, <1>15

\* A text in which the last input is not looked for or not found is shown whole.
LEMMA AddShowsAll ==
    ASSUME TypeOK, NEW text \in Text, NEW memorize \in BOOLEAN, Add(text, memorize),
           NEW plain, plain = WithoutCR(text), plain # <<>>, EndsLine(plain) = EndsLine(text),
           memorize \/ ~Occurs(lastInput, plain)
    PROVE  Squeezed(output' \o LineEnd(lastHadNewline'))
               = Squeezed((output \o LineEnd(lastHadNewline)) \o Starred(plain))
<1>1. /\ output' = Shown(Starred(WithoutLineEnd(plain)))
      /\ lastHadNewline' \in HasLineEnd(text)
  BY DEF Add
<1>2. text # <<>>
  <2>1. <<>> \in Text
    BY SqueezedEmpty
  <2>2. WithoutCR(<<>>) = <<>>
    BY <2>1, TextsKept, KeptEmpty
  <2> QED
    BY <2>2
<1>3. lastHadNewline' = EndsLine(plain)
  BY <1>1, <1>2 DEF HasLineEnd
<1>4. plain \in Text /\ output \in Text /\ lastHadNewline \in BOOLEAN
  BY WithoutCRText DEF TypeOK
<1>5. output' = After(output, lastHadNewline, Starred(WithoutLineEnd(plain)))
  BY <1>1 DEF Shown, After
<1>6. Squeezed(After(output, lastHadNewline, Starred(WithoutLineEnd(plain)))
                   \o LineEnd(EndsLine(plain)))
          = Squeezed((output \o LineEnd(lastHadNewline)) \o Starred(plain))
  BY <1>4, LinesShown
<1> QED
  BY <1>3, <1>5, <1>6

--------------------------------------------------------------------------------
(* The echoes.                                                              *)

NoEcho(packets) == \A i \in 1..Len(packets) : packets[i].of # "echo"

OneEcho(packets, input) ==
    \E k \in 1..Len(packets) :
        /\ packets[k] = Packet(Echo(input), "echo")
        /\ \A i \in 1..Len(packets) : i # k => packets[i].of # "echo"

\* As long as nothing is unclear, at most one echo is awaited: that of the input which Add
\* remembers.  It is yet to be sent or on the way, unless it comes in two parts or the
\* session has ended.
EchoAwaited ==
    ~unclear =>
        \/ unechoed = <<>> /\ NoEcho(onTheWay)
        \/ \E input \in Inputs :
               /\ lastInput = WithoutCR(Append(input, "\n"))
               /\ \/ unechoed = <<input>> /\ NoEcho(onTheWay)
                  \/ unechoed = <<>> /\ OneEcho(onTheWay, input)

LEMMA EchoQueued ==
    ASSUME NEW q \in Seq(Packets), NEW p \in Packets, NEW input
    PROVE  /\ p.of # "echo" /\ NoEcho(q) => NoEcho(Append(q, p))
           /\ p.of # "echo" /\ OneEcho(q, input) => OneEcho(Append(q, p), input)
           /\ p = Packet(Echo(input), "echo") /\ NoEcho(q) => OneEcho(Append(q, p), input)
<1>1. PICK n, a : n = Len(q) /\ a = Append(q, p)
  OBVIOUS
<1>2. n \in Nat /\ Len(a) = n + 1 /\ a[n + 1] = p /\ \A i \in 1..n : a[i] = q[i]
  BY <1>1
<1>3. ASSUME p.of # "echo", NoEcho(q) PROVE NoEcho(a)
  BY <1>1, <1>2, <1>3 DEF NoEcho
<1>4. ASSUME p.of # "echo", OneEcho(q, input) PROVE OneEcho(a, input)
  <2>1. PICK k \in 1..n : /\ q[k] = Packet(Echo(input), "echo")
                          /\ \A i \in 1..n : i # k => q[i].of # "echo"
    BY <1>1, <1>4 DEF OneEcho
  <2>2. k \in 1..Len(a) /\ a[k] = Packet(Echo(input), "echo")
    BY <1>2, <2>1
  <2>3. \A i \in 1..Len(a) : i # k => a[i].of # "echo"
    BY <1>2, <1>4, <2>1
  <2> QED
    BY <2>2, <2>3 DEF OneEcho
<1>5. ASSUME p = Packet(Echo(input), "echo"), NoEcho(q) PROVE OneEcho(a, input)
  <2>1. n + 1 \in 1..Len(a) /\ a[n + 1] = Packet(Echo(input), "echo")
    BY <1>2, <1>5
  <2>2. \A i \in 1..Len(a) : i # n + 1 => a[i].of # "echo"
    BY <1>1, <1>2, <1>5 DEF NoEcho
  <2> QED
    BY <2>1, <2>2 DEF OneEcho
<1> QED
  BY <1>1, <1>3, <1>4, <1>5

LEMMA EchoTaken ==
    ASSUME NEW q \in Seq(Packets), q # <<>>, NEW input
    PROVE  /\ NoEcho(q) => Head(q).of # "echo" /\ NoEcho(Tail(q))
           /\ OneEcho(q, input) /\ Head(q).of = "echo"
                  => Head(q) = Packet(Echo(input), "echo") /\ NoEcho(Tail(q))
           /\ OneEcho(q, input) /\ Head(q).of # "echo" => OneEcho(Tail(q), input)
<1>1. PICK n, t : n = Len(q) - 1 /\ t = Tail(q)
  OBVIOUS
<1>2. /\ n \in Nat /\ Len(q) = n + 1 /\ Len(t) = n /\ Head(q) = q[1]
      /\ \A i \in 1..n : t[i] = q[i + 1]
  BY <1>1
<1>3. ASSUME NoEcho(q) PROVE q[1].of # "echo" /\ NoEcho(t)
  BY <1>2, <1>3 DEF NoEcho
<1>4. ASSUME OneEcho(q, input)
      PROVE  /\ q[1].of = "echo" => q[1] = Packet(Echo(input), "echo") /\ NoEcho(t)
             /\ q[1].of # "echo" => OneEcho(t, input)
  <2>1. PICK k \in 1..(n + 1) : /\ q[k] = Packet(Echo(input), "echo")
                                /\ \A i \in 1..(n + 1) : i # k => q[i].of # "echo"
    BY <1>2, <1>4 DEF OneEcho
  <2>2. q[k].of = "echo"
    BY <2>1 DEF Packet
  <2>3. CASE k = 1
    <3>1. \A i \in 1..n : t[i].of # "echo"
      BY <1>2, <2>1, <2>3
    <3> QED
      BY <1>2, <2>1, <2>2, <2>3, <3>1 DEF NoEcho
  <2>4. CASE k # 1
    <3>1. PICK j : j = k - 1
      OBVIOUS
    <3>2. j \in 1..n /\ k = j + 1 /\ 1 \in 1..(n + 1)
      BY <1>2, <2>4, <3>1
    <3>3. t[j] = Packet(Echo(input), "echo")
      BY <1>2, <2>1, <3>2
    <3>4. \A i \in 1..n : i # j => t[i].of # "echo"
      BY <1>2, <2>1, <3>2
    <3>5. q[1].of # "echo"
      BY <1>2, <2>1, <2>4, <3>2
    <3> QED
      BY <1>2, <3>2, <3>3, <3>4, <3>5 DEF OneEcho
  <2> QED
    BY <2>3, <2>4
<1> QED
  BY <1>1, <1>2, <1>3, <1>4

\* An input with its line end, and its echo without carriage returns, are the same text.
LEMMA EchoIsInput ==
    ASSUME NEW input \in Inputs, NEW line, line = WithoutCR(Append(input, "\n"))
    PROVE  /\ input \in Text /\ Append(input, "\n") \in Text /\ EndsLine(Append(input, "\n"))
           /\ Echo(input) \in Text /\ Len(Echo(input)) = Len(input) + 2 /\ Len(input) \in Nat
           /\ WithoutCR(Echo(input)) = line
           /\ line \in Text /\ line # <<>> /\ EndsLine(line)
<1>1. PICK x, r, a : x = "\n" /\ r = "\r" /\ a = Append(input, r)
  OBVIOUS
<1>2. x \in Chars /\ r \in Chars /\ x # "\r" /\ r \notin NoCR /\ input \in Text
  BY <1>1, TextsGiven DEF Chars, NoCR
<1>3. a \in Text /\ Len(a) = Len(input) + 1 /\ Len(input) \in Nat
  BY <1>1, <1>2, TextAppend DEF Text
<1>4. Echo(input) = Append(a, x)
  BY <1>1, <1>2 DEF Echo, Text
<1>5. Append(a, x) \in Text /\ Len(Append(a, x)) = Len(input) + 2
  BY <1>2, <1>3, TextAppend
<1>6. Kept(a, NoCR) = Kept(input, NoCR)
  BY <1>1, <1>2, KeptGrows DEF Text
<1>7. WithoutCR(a) = WithoutCR(input)
  BY <1>2, <1>3, <1>6, TextsKept
<1>8. WithoutCR(Append(a, x)) = Append(WithoutCR(a), x)
  BY <1>2, <1>3, WithoutCRAppend
<1>9. line = Append(WithoutCR(input), x)
  BY <1>1, <1>2, WithoutCRAppend
<1>10. ASSUME NEW s \in Text
       PROVE  Append(s, x) \in Text /\ Append(s, x) # <<>> /\ EndsLine(Append(s, x))
  <2>1. /\ Append(s, x) \in Text /\ Append(s, x) # <<>>
        /\ Len(Append(s, x)) = Len(s) + 1 /\ Append(s, x)[Len(s) + 1] = x
    BY <1>2, TextAppend
  <2>2. Append(s, x)[Len(Append(s, x))] = x
    BY <2>1
  <2> QED
    BY <1>1, <2>1, <2>2 DEF EndsLine
<1>11. WithoutCR(input) \in Text
  BY <1>2, WithoutCRText
<1>12. line \in Text /\ line # <<>> /\ EndsLine(line)
  BY <1>9, <1>10, <1>11
<1>13. Append(input, x) \in Text /\ EndsLine(Append(input, x))
  BY <1>2, <1>10
<1> QED
  BY <1>1, <1>2, <1>3, <1>4, <1>5, <1>7, <1>8, <1>9, <1>12, <1>13

\* An echo found in itself leaves nothing.
LEMMA WithoutWhole ==
    ASSUME NEW s \in Text
    PROVE  WithoutFirst(s, s) = <<>>
<1>1. PICK n : n = Len(s)
  OBVIOUS
<1>2. n \in Nat /\ n - n = 0 /\ 0..(n - n) = {0}
  BY <1>1 DEF Text
<1>3. SubSeq(s, 1, n) = s
  <2>1. PICK b : b = SubSeq(s, 1, n)
    OBVIOUS
  <2>2. b \in Text /\ Len(b) = n /\ \A i \in 1..n : b[i] = s[i]
    BY <1>1, <1>2, <2>1 DEF Text
  <2> QED
    BY <1>1, <2>1, <2>2, SameElements DEF Text
<1>4. PICK start : start = CHOOSE i \in 0..(n - n) :
                               /\ SubSeq(s, i + 1, i + n) = s
                               /\ \A j \in 0..(i - 1) : SubSeq(s, j + 1, j + n) # s
  OBVIOUS
<1>5. 0 \in 0..(n - n) /\ SubSeq(s, 0 + 1, 0 + n) = s /\ 0..(0 - 1) = {}
  BY <1>2, <1>3
<1>6. start = 0
  BY <1>2, <1>4, <1>5
<1>7. WithoutFirst(s, s) = SubSeq(s, 1, start) \o SubSeq(s, start + n + 1, n)
  BY <1>1, <1>4 DEF WithoutFirst
<1>8. SubSeq(s, 1, 0) = <<>> /\ SubSeq(s, n + 1, n) = <<>>
  BY <1>1, <1>2 DEF Text
<1>9. <<>> \o <<>> = <<>>
  OBVIOUS
<1> QED
  BY <1>2, <1>6, <1>7, <1>8, <1>9

--------------------------------------------------------------------------------
(* The invariant.                                                           *)

\* What is not on the console is what was sent to the process and found again: the letters of
\* the last input are still to be missed.
Counted ==
    /\ Size(received) + Size(lastInput) <= Size(output)
    /\ Size(output) <= Size(received) + Size(typed)

Inv == TypeOK /\ Counted /\ EchoAwaited /\ TranscriptShown

LEMMA PacketTaken ==
    ASSUME TypeOK, onTheWay # <<>>
    PROVE  /\ Head(onTheWay) \in Packets /\ Tail(onTheWay) \in Seq(Packets)
           /\ Head(onTheWay).text \in Text /\ WithoutCR(Head(onTheWay).text) \in Text
<1>1. Head(onTheWay) \in Packets /\ Tail(onTheWay) \in Seq(Packets)
  BY DEF TypeOK
<1>2. Head(onTheWay).text \in Text
  BY <1>1 DEF Packets
<1> QED
  BY <1>1, <1>2, WithoutCRText

LEMMA NextType ==
    ASSUME TypeOK, [Next]_vars
    PROVE  TypeOK'
<1>1. ASSUME NEW input \in Inputs, OnSend(input) PROVE TypeOK'
  <2>1. PICK text, plain : text = Append(input, "\n") /\ plain = WithoutCR(text)
    OBVIOUS
  <2>2. input \in Text /\ text \in Text /\ plain \in Text
    BY <2>1, EchoIsInput
  <2>3. output' \in Text /\ lastInput' \in Text /\ lastHadNewline' \in BOOLEAN
    BY <1>1, <2>1, <2>2, AddCounts DEF OnSend
  <2>4. typed' \in Text
    BY <1>1, <2>2 DEF OnSend, TypeOK, Text
  <2>5. transcript' \in Text
    <3>1. Starred(plain) \in Text
      BY <2>2, StarredIs
    <3> QED
      BY <1>1, <2>1, <3>1 DEF OnSend, TypeOK, Text
  <2>6. unechoed' \in Seq(Inputs) /\ unclear' \in BOOLEAN
    BY <1>1 DEF OnSend, TypeOK
  <2> QED
    BY <1>1, <2>3, <2>4, <2>5, <2>6 DEF OnSend, TypeOK
<1>2. ASSUME ProcessEchoes PROVE TypeOK'
  <2>1. PICK input, echo : input = Head(unechoed) /\ echo = Echo(input)
    OBVIOUS
  <2>2. input \in Inputs /\ unechoed' \in Seq(Inputs)
    BY <1>2, <2>1 DEF ProcessEchoes, TypeOK
  <2>3. echo \in Text /\ Len(echo) \in Nat
    BY <2>1, <2>2, EchoIsInput DEF Text
  <2>4. \/ onTheWay' = Append(onTheWay, Packet(echo, "echo"))
        \/ \E i \in 1..(Len(echo) - 1) :
               onTheWay' = onTheWay \o <<Packet(SubSeq(echo, 1, i), "part"),
                                         Packet(SubSeq(echo, i + 1, Len(echo)), "part")>>
    BY <1>2, <2>1 DEF ProcessEchoes, Echo
  <2>5. Packet(echo, "echo") \in Packets
    BY <2>3 DEF Packet, Packets
  <2>6. ASSUME NEW i \in 1..(Len(echo) - 1)
        PROVE  /\ Packet(SubSeq(echo, 1, i), "part") \in Packets
               /\ Packet(SubSeq(echo, i + 1, Len(echo)), "part") \in Packets
    <3>1. SubSeq(echo, 1, i) \in Text /\ SubSeq(echo, i + 1, Len(echo)) \in Text
      BY <2>3 DEF Text
    <3> QED
      BY <3>1 DEF Packet, Packets
  <2>7. onTheWay' \in Seq(Packets)
    <3>1. ASSUME NEW p \in Packets, NEW r \in Packets
          PROVE  onTheWay \o <<p, r>> \in Seq(Packets)
      BY DEF TypeOK
    <3>2. CASE onTheWay' = Append(onTheWay, Packet(echo, "echo"))
      BY <2>5, <3>2 DEF TypeOK
    <3> QED
      BY <2>4, <2>6, <3>1, <3>2
  <2> QED
    BY <1>2, <2>2, <2>7 DEF ProcessEchoes, TypeOK, console
<1>3. ASSUME NEW text \in Outputs, ProcessPrints(text) PROVE TypeOK'
  <2>1. Packet(text, "output") \in Packets
    BY TextsGiven DEF Packet, Packets
  <2> QED
    BY <1>3, <2>1 DEF ProcessPrints, TypeOK, console
<1>4. ASSUME ConsoleOutput PROVE TypeOK'
  <2>1. PICK packet, plain : packet = Head(onTheWay) /\ plain = WithoutCR(packet.text)
    OBVIOUS
  <2>2. packet.text \in Text /\ plain \in Text /\ onTheWay' \in Seq(Packets)
    BY <1>4, <2>1, PacketTaken DEF ConsoleOutput
  <2>3. Add(packet.text, FALSE)
    BY <1>4, <2>1 DEF ConsoleOutput
  <2>4. output' \in Text /\ lastInput' \in Text /\ lastHadNewline' \in BOOLEAN
    BY <2>2, <2>3, AddCounts
  <2>5. received' \in Text
    BY <1>4, <2>1, <2>2 DEF ConsoleOutput, TypeOK, Text
  <2>6. transcript' \in Text
    <3>1. Starred(plain) \in Text /\ <<"\n">> \in Text
      BY <2>2, StarredIs DEF Text, Chars
    <3> QED
      BY <1>4, <2>1, <3>1 DEF ConsoleOutput, TypeOK, Text
  <2>7. unclear' \in BOOLEAN
    BY <1>4 DEF ConsoleOutput
  <2> QED
    BY <1>4, <2>2, <2>4, <2>5, <2>6, <2>7 DEF ConsoleOutput, TypeOK
<1>5. ASSUME SessionEnds PROVE TypeOK'
  BY <1>5 DEF SessionEnds, TypeOK, console
<1>6. ASSUME UNCHANGED vars PROVE TypeOK'
  BY <1>6 DEF vars, TypeOK, console, process
<1> QED
  BY <1>1, <1>2, <1>3, <1>4, <1>5, <1>6 DEF Next, Stop

\* However a text is added, letters are neither lost nor doubled but for those of an input.
LEMMA NextCounts ==
    ASSUME TypeOK, Counted, [Next]_vars
    PROVE  Counted'
<1> USE SizeIsNat DEF TypeOK
<1>1. ASSUME NEW input \in Inputs, OnSend(input) PROVE Counted'
  <2>1. PICK text, x : text = Append(input, x) /\ x = "\n"
    OBVIOUS
  <2>2. input \in Text /\ text \in Text /\ x \in Chars /\ x \notin Letter
    BY <2>1, EchoIsInput DEF Chars, Letter
  <2>3. Size(text) = Size(input)
    BY <2>1, <2>2, SizeGrows
  <2>4. Size(output') = Size(output) + Size(text) /\ Size(lastInput') = Size(text)
    BY <1>1, <2>1, <2>2, AddCounts DEF OnSend
  <2>5. Size(typed') = Size(typed) + Size(input)
    BY <1>1, <2>2, SizeJoined DEF OnSend
  <2>6. /\ Size(output) \in Nat /\ Size(lastInput) \in Nat /\ Size(typed) \in Nat
        /\ Size(received) \in Nat /\ Size(input) \in Nat /\ received' = received
    BY <1>1, <2>2 DEF OnSend
  <2> QED
    BY <2>3, <2>4, <2>5, <2>6 DEF Counted
<1>2. ASSUME ConsoleOutput PROVE Counted'
  <2>1. PICK text : text = Head(onTheWay).text
    OBVIOUS
  <2>2. text \in Text
    BY <1>2, <2>1, PacketTaken DEF ConsoleOutput
  <2>3. Add(text, FALSE) /\ received' = received \o text /\ typed' = typed
    BY <1>2, <2>1 DEF ConsoleOutput
  <2>4. /\ Size(output') + Size(lastInput) = Size(output) + Size(text) + Size(lastInput')
        /\ output' \in Text /\ lastInput' \in Text
    BY <2>2, <2>3, AddCounts
  <2>5. Size(received') = Size(received) + Size(text)
    BY <2>2, <2>3, SizeJoined
  <2>6. /\ Size(output) \in Nat /\ Size(lastInput) \in Nat /\ Size(typed) \in Nat
        /\ Size(received) \in Nat /\ Size(text) \in Nat
        /\ Size(output') \in Nat /\ Size(lastInput') \in Nat
    BY <2>2, <2>4
  <2>7. Size(lastInput') <= Size(lastInput)
    <3>1. lastInput' = <<>> \/ lastInput' = lastInput
      BY <2>3 DEF Add
    <3>2. Size(<<>>) = 0
      BY SizeLineEnd DEF LineEnd
    <3> QED
      BY <2>6, <3>1, <3>2
  <2> QED
    BY <2>3, <2>4, <2>5, <2>6, <2>7, SMTT(40) DEF Counted
<1>3. ASSUME UNCHANGED <<console, typed, received>> PROVE Counted'
  BY <1>3 DEF Counted, Size, console
<1> QED
  BY <1>1, <1>2, <1>3 DEF Next, Stop, vars, process, ProcessEchoes, ProcessPrints, SessionEnds

\* Which echo is awaited.
LEMMA NextEchoes ==
    ASSUME TypeOK, EchoAwaited, [Next]_vars
    PROVE  EchoAwaited'
<1> SUFFICES ASSUME ~unclear' PROVE EchoAwaited'
  BY DEF EchoAwaited
<1>1. ~unclear
  BY DEF Next, Stop, vars, process, console, OnSend, ProcessEchoes, ProcessPrints, ConsoleOutput,
     SessionEnds
<1>2. \/ unechoed = <<>> /\ NoEcho(onTheWay)
      \/ \E input \in Inputs :
             /\ lastInput = WithoutCR(Append(input, "\n"))
             /\ \/ unechoed = <<input>> /\ NoEcho(onTheWay)
                \/ unechoed = <<>> /\ OneEcho(onTheWay, input)
  BY <1>1 DEF EchoAwaited
<1>3. ASSUME NEW input \in Inputs, OnSend(input) PROVE EchoAwaited'
  <2>1. lastInput = <<>>
    BY <1>3 DEF OnSend
  <2>2. unechoed = <<>> /\ NoEcho(onTheWay)
    BY <1>2, <2>1, EchoIsInput
  <2>3. lastInput' = WithoutCR(Append(input, "\n"))
    BY <1>3 DEF OnSend, Add
  <2>4. unechoed' = <<input>> \/ unechoed' = <<>>
    BY <1>3, <2>2 DEF OnSend
  <2>5. onTheWay' = onTheWay
    BY <1>3 DEF OnSend
  <2> QED
    BY <2>2, <2>3, <2>4, <2>5 DEF EchoAwaited
<1>4. ASSUME ProcessEchoes PROVE EchoAwaited'
  <2>1. PICK input \in Inputs : /\ lastInput = WithoutCR(Append(input, "\n"))
                                /\ unechoed = <<input>> /\ NoEcho(onTheWay)
    BY <1>2, <1>4 DEF ProcessEchoes
  <2>2. PICK echo : echo = Echo(input)
    OBVIOUS
  <2>3. /\ Head(unechoed) = input /\ unechoed' = <<>> /\ lastInput' = lastInput
        /\ onTheWay \in Seq(Packets)
    BY <1>4, <2>1 DEF ProcessEchoes, console, TypeOK
  <2>4. \/ onTheWay' = Append(onTheWay, Packet(echo, "echo"))
        \/ \E i \in 1..(Len(echo) - 1) :
               onTheWay' = onTheWay \o <<Packet(SubSeq(echo, 1, i), "part"),
                                         Packet(SubSeq(echo, i + 1, Len(echo)), "part")>>
    BY <1>4, <2>2, <2>3 DEF ProcessEchoes, Echo
  <2>5. echo \in Text /\ Len(echo) \in Nat
    BY <2>2, EchoIsInput DEF Text
  <2>6. CASE onTheWay' = Append(onTheWay, Packet(echo, "echo"))
    <3>1. Packet(echo, "echo") \in Packets
      BY <2>5 DEF Packet, Packets
    <3>2. OneEcho(onTheWay', input)
      BY <2>1, <2>2, <2>3, <2>6, <3>1, EchoQueued
    <3> QED
      BY <2>1, <2>3, <3>2 DEF EchoAwaited
  <2>7. ASSUME NEW p, NEW r, p.of = "part", r.of = "part",
               p \in Packets, r \in Packets, onTheWay' = onTheWay \o <<p, r>>
        PROVE  NoEcho(onTheWay')
    <3>1. PICK q : q = Append(onTheWay, p)
      OBVIOUS
    <3>2. q \in Seq(Packets) /\ NoEcho(q)
      <4>1. p \in Packets /\ p.of # "echo" /\ onTheWay \in Seq(Packets) /\ NoEcho(onTheWay)
        BY <2>1, <2>3, <2>7
      <4>2. NoEcho(Append(onTheWay, p))
        BY <4>1, EchoQueued
      <4> QED
        BY <3>1, <4>1, <4>2
    <3>3. NoEcho(Append(q, r))
      BY <2>7, <3>2, EchoQueued
    <3>4. onTheWay' = Append(q, r)
      BY <2>3, <2>7, <3>1
    <3> QED
      BY <3>3, <3>4
  <2>8. ASSUME NEW i \in 1..(Len(echo) - 1),
               onTheWay' = onTheWay \o <<Packet(SubSeq(echo, 1, i), "part"),
                                         Packet(SubSeq(echo, i + 1, Len(echo)), "part")>>
        PROVE  EchoAwaited'
    <3>1. PICK p, r : /\ p = Packet(SubSeq(echo, 1, i), "part")
                      /\ r = Packet(SubSeq(echo, i + 1, Len(echo)), "part")
      OBVIOUS
    <3>2. SubSeq(echo, 1, i) \in Text /\ SubSeq(echo, i + 1, Len(echo)) \in Text
      BY <2>5 DEF Text
    <3>3. p \in Packets /\ r \in Packets /\ p.of = "part" /\ r.of = "part"
      BY <3>1, <3>2 DEF Packet, Packets
    <3>4. NoEcho(onTheWay')
      BY <2>7, <2>8, <3>1, <3>3
    <3> QED
      BY <2>3, <3>4 DEF EchoAwaited
  <2> QED
    BY <2>4, <2>6, <2>8
<1>5. ASSUME NEW text \in Outputs, ProcessPrints(text) PROVE EchoAwaited'
  <2>1. PICK p, q : p = Packet(text, "output") /\ q = onTheWay
    OBVIOUS
  <2>2. p \in Packets /\ p.of # "echo" /\ q \in Seq(Packets)
    BY <2>1, TextsGiven DEF Packet, Packets, TypeOK
  <2>3. /\ NoEcho(q) => NoEcho(Append(q, p))
        /\ \A input \in Inputs : OneEcho(q, input) => OneEcho(Append(q, p), input)
    BY <2>2, EchoQueued
  <2>4. onTheWay' = Append(q, p) /\ unechoed' = unechoed /\ lastInput' = lastInput
    BY <1>5, <2>1 DEF ProcessPrints, console
  <2> QED
    BY <1>2, <2>1, <2>3, <2>4 DEF EchoAwaited
<1>6. ASSUME ConsoleOutput PROVE EchoAwaited'
  <2>1. PICK q, p, plain : q = onTheWay /\ p = Head(q) /\ plain = WithoutCR(p.text)
    OBVIOUS
  <2>2. /\ q \in Seq(Packets) /\ q # <<>> /\ onTheWay' = Tail(q) /\ unechoed' = unechoed
        /\ Add(p.text, FALSE)
        /\ Occurs(lastInput, plain) = (p.of = "echo")
    BY <1>6, <2>1 DEF ConsoleOutput, TypeOK
  <2>3. CASE p.of = "echo"
    <3>1. ~NoEcho(q)
      BY <2>1, <2>2, <2>3, EchoTaken
    <3>2. PICK input \in Inputs : unechoed = <<>> /\ OneEcho(q, input)
      BY <1>2, <2>1, <3>1
    <3>3. NoEcho(Tail(q))
      BY <2>1, <2>2, <2>3, <3>2, EchoTaken
    <3> QED
      BY <2>2, <3>2, <3>3 DEF EchoAwaited
  <2>4. CASE p.of # "echo"
    <3>1. lastInput' = lastInput
      BY <2>1, <2>2, <2>4 DEF Add
    <3>2. /\ NoEcho(q) => NoEcho(Tail(q))
          /\ \A input \in Inputs : OneEcho(q, input) => OneEcho(Tail(q), input)
      BY <2>1, <2>2, <2>4, EchoTaken
    <3> QED
      BY <1>2, <2>1, <2>2, <3>1, <3>2 DEF EchoAwaited
  <2> QED
    BY <2>3, <2>4
<1>7. ASSUME SessionEnds PROVE EchoAwaited'
  BY <1>7 DEF SessionEnds, EchoAwaited, NoEcho
<1>8. ASSUME UNCHANGED vars PROVE EchoAwaited'
  BY <1>8 DEF vars, EchoAwaited, process, console
<1> QED
  BY <1>3, <1>4, <1>5, <1>6, <1>7, <1>8 DEF Next, Stop

\* What the console shows.
LEMMA NextTranscript ==
    ASSUME TypeOK, EchoAwaited, TranscriptShown, [Next]_vars
    PROVE  TranscriptShown'
<1> SUFFICES ASSUME ~unclear' PROVE TranscriptShown'
  BY DEF TranscriptShown
<1>1. ~unclear
  BY DEF Next, Stop, vars, process, console, OnSend, ProcessEchoes, ProcessPrints, ConsoleOutput,
     SessionEnds
<1>2. PICK held : held = output \o LineEnd(lastHadNewline)
  OBVIOUS
<1>3. /\ output \in Text /\ lastHadNewline \in BOOLEAN /\ held \in Text /\ transcript \in Text
      /\ Squeezed(held) = Squeezed(transcript)
  <2>1. output \in Text /\ LineEnd(lastHadNewline) \in Text
    BY SizeLineEnd DEF TypeOK
  <2> QED
    BY <1>1, <1>2, <2>1, SizeJoined DEF TypeOK, TranscriptShown
<1>4. ASSUME NEW u \in Text, transcript' = transcript \o u,
             Squeezed(output' \o LineEnd(lastHadNewline')) = Squeezed(held \o u)
      PROVE  TranscriptShown'
  <2>1. Squeezed(held \o u) = Squeezed(transcript \o u)
    BY <1>3, SqueezedGoesOn
  <2> QED
    BY <1>4, <2>1 DEF TranscriptShown
<1>5. ASSUME NEW input \in Inputs, OnSend(input) PROVE TranscriptShown'
  <2>1. PICK text, plain : text = Append(input, "\n") /\ plain = WithoutCR(text)
    OBVIOUS
  <2>2. /\ text \in Text /\ EndsLine(text) /\ plain \in Text /\ plain # <<>> /\ EndsLine(plain)
        /\ Starred(plain) \in Text
    BY <2>1, EchoIsInput, StarredIs
  <2>3. Add(text, TRUE) /\ transcript' = transcript \o Starred(plain)
    BY <1>5, <2>1 DEF OnSend
  <2>4. EndsLine(plain) = EndsLine(text)
    BY <2>2 DEF EndsLine
  <2>5. Squeezed(output' \o LineEnd(lastHadNewline')) = Squeezed(held \o Starred(plain))
    BY <1>2, <2>1, <2>2, <2>3, <2>4, AddShowsAll
  <2> QED
    BY <1>4, <2>2, <2>3, <2>5
<1>6. ASSUME ConsoleOutput PROVE TranscriptShown'
  <2>1. PICK p, text, plain : p = Head(onTheWay) /\ text = p.text /\ plain = WithoutCR(text)
    OBVIOUS
  <2>2. text \in Text /\ plain \in Text /\ onTheWay # <<>> /\ onTheWay \in Seq(Packets)
    BY <1>6, <2>1, PacketTaken DEF ConsoleOutput, TypeOK
  <2>3. /\ Add(text, FALSE)
        /\ transcript' = transcript \o (IF p.of = "echo" THEN <<"\n">> ELSE Starred(plain))
        /\ plain # <<>> /\ EndsLine(plain) = EndsLine(text)
        /\ Occurs(lastInput, plain) = (p.of = "echo")
    BY <1>6, <2>1 DEF ConsoleOutput
  <2>4. CASE p.of # "echo"
    <3>1. ~Occurs(lastInput, plain)
      BY <2>3, <2>4
    <3>2. Squeezed(output' \o LineEnd(lastHadNewline')) = Squeezed(held \o Starred(plain))
      BY <1>2, <2>1, <2>2, <2>3, <3>1, AddShowsAll
    <3>3. Starred(plain) \in Text
      BY <2>2, StarredIs
    <3> QED
      BY <1>4, <2>3, <2>4, <3>2, <3>3
  <2>5. CASE p.of = "echo"
    <3>1. ~NoEcho(onTheWay)
      BY <2>1, <2>2, <2>5, EchoTaken
    <3>2. PICK input \in Inputs :
              lastInput = WithoutCR(Append(input, "\n")) /\ OneEcho(onTheWay, input)
      BY <1>1, <3>1 DEF EchoAwaited
    <3>3. p = Packet(Echo(input), "echo")
      BY <2>1, <2>2, <2>5, <3>2, EchoTaken
    <3>4. text = Echo(input)
      BY <2>1, <3>3 DEF Packet
    <3>5. plain = lastInput /\ EndsLine(plain) /\ plain \in Text
      BY <2>1, <3>2, <3>4, EchoIsInput
    <3>6. output' = Shown(Starred(WithoutLineEnd(WithoutFirst(lastInput, plain))))
      BY <2>1, <2>3, <2>5 DEF Add
    <3>7. WithoutFirst(lastInput, plain) = <<>>
      BY <3>5, WithoutWhole
    <3>8. Starred(WithoutLineEnd(<<>>)) = <<>>
      <4>1. <<>> \in Text /\ ~EndsLine(<<>>)
        BY SqueezedEmpty DEF EndsLine
      <4>2. WithoutLineEnd(<<>>) = <<>>
        BY <4>1 DEF WithoutLineEnd
      <4> QED
        BY <4>1, <4>2, StarredIs
    <3>9. output' = output
      BY <3>6, <3>7, <3>8 DEF Shown
    <3>10. lastHadNewline'
      BY <2>3, <3>5 DEF Add, HasLineEnd, EndsLine
    <3>11. PICK e : e = <<"\n">>
      OBVIOUS
    <3>12. e \in Text /\ LineEnd(lastHadNewline') = e
      BY <3>10, <3>11 DEF LineEnd, Text, Chars
    <3>13. Squeezed(output \o e) = Squeezed(held \o e)
      <4>1. CASE lastHadNewline
        <5>1. held = output \o e
          BY <1>2, <3>11, <4>1 DEF LineEnd
        <5>2. Squeezed((output \o e) \o e) = Squeezed(output \o e)
          BY <1>3, <3>11, LineEndTwice
        <5> QED
          BY <5>1, <5>2
      <4>2. CASE ~lastHadNewline
        <5>1. output \o <<>> = output
          BY <1>3 DEF Text
        <5> QED
          BY <1>2, <4>2, <5>1 DEF LineEnd
      <4> QED
        BY <4>1, <4>2
    <3> QED
      BY <1>4, <2>3, <2>5, <3>9, <3>11, <3>12, <3>13
  <2> QED
    BY <2>4, <2>5
<1>7. ASSUME UNCHANGED <<console, transcript, unclear>> PROVE TranscriptShown'
  BY <1>7 DEF TranscriptShown, console
<1> QED
  BY <1>5, <1>6, <1>7 DEF Next, Stop, vars, process, ProcessEchoes, ProcessPrints, SessionEnds

--------------------------------------------------------------------------------
(* Theorems.                                                                *)

\* Every step of the user, of the process and of the session keeps the texts texts, the
\* letters accounted for, the awaited echo known and the transcript on the console.
THEOREM InductiveInvariant == Spec => []Inv
<1>1. Init => Inv
  <2> SUFFICES ASSUME Init PROVE Inv
    OBVIOUS
  <2>1. <<>> \in Text /\ Size(<<>>) = 0
    BY SizeLineEnd DEF LineEnd
  <2>2. TypeOK
    <3>1. <<>> \in Seq(Inputs) /\ <<>> \in Seq(Packets)
      OBVIOUS
    <3> QED
      BY <2>1, <3>1 DEF Init, TypeOK
  <2>3. Counted
    BY <2>1 DEF Init, Counted
  <2>4. EchoAwaited
    BY DEF Init, EchoAwaited, NoEcho
  <2>5. TranscriptShown
    BY DEF Init, TranscriptShown, LineEnd
  <2> QED
    BY <2>2, <2>3, <2>4, <2>5 DEF Inv
<1>2. Inv /\ [Next]_vars => Inv'
  BY NextType, NextCounts, NextEchoes, NextTranscript DEF Inv
<1> QED
  BY <1>1, <1>2, PTL DEF Spec

\* Console::Add: as long as nothing is unclear, the console shows the inputs and the output in
\* their order and on their lines.
THEOREM TranscriptIsShown == Spec => []TranscriptShown
<1>1. Inv => TranscriptShown
  BY DEF Inv
<1> QED
  BY <1>1, InductiveInvariant, PTL

\* Console::Add: whatever is taken for an echo, no more letters are missing than were typed.
THEOREM NoMoreIsMissing == Spec => []MissingAtMostTyped
<1>1. Inv => MissingAtMostTyped
  <2> SUFFICES ASSUME Inv PROVE MissingAtMostTyped
    OBVIOUS
  <2>1. /\ Size(received) \in Nat /\ Size(lastInput) \in Nat /\ Size(output) \in Nat
        /\ Size(typed) \in Nat
    BY SizeIsNat DEF Inv, TypeOK
  <2> QED
    BY <2>1 DEF Inv, Counted, MissingAtMostTyped, Size
<1> QED
  BY <1>1, InductiveInvariant, PTL
================================================================================
