----------------------------- MODULE ChannelProofs -----------------------------
(***************************************************************************)
(* Proofs about Channel, for any users, any number of sessions and of      *)
(* texts, and texts of any length.                                         *)
(***************************************************************************)
EXTENDS Channel, SelectionsProofs

USE DEF buffers, shown, server, seen, bounds

AllCommands == ChannelCommands \cup PrivateCommands \cup {"ChatTopic"}
Kinds == {ChannelCommands, PrivateCommands, {"ChatTopic"}}   \* of texts with a buffer
Texts == [id : Nat, com : AllCommands, from : Users, size : 1..MaxParts]
TextPart == [com : AllCommands, text : Texts, seq : 1..MaxParts]
LineSet == [com : AllCommands, from : Users, body : Seq(TextPart)]

\* The first m packets of a text, and its last n.
Start(text, m) == [j \in 1..m |-> Part(text, text.size + 1 - j)]
Rest(text, n) == [j \in 1..n |-> Part(text, n + 1 - j)]

\* What may be coming: the rest of a text, or of a user list, or one join or leave.
IsText(c) ==
    /\ Head(c).com \in AllCommands
    /\ Head(c).text \in Texts /\ Head(c).seq \in 1..Head(c).text.size
    /\ Head(c).text.com \in PrivateCommands => Head(c).text.from # Me
    /\ c = Rest(Head(c).text, Head(c).seq)

IsNames(c) ==
    /\ Head(c).com = "ChatUserList"
    /\ Head(c).names \in Seq(Users)
    /\ \/ c = <<ListPart(Head(c).names, 1)>>
       \/ c = <<ListPart(Head(c).names, 2), ListPart(c[2].names, 1)>> /\ c[2].names \in Seq(Users)

IsChange(c) ==
    /\ Head(c).com \in {"ChatJoin", "ChatLeave"}
    /\ Head(c).user \in Others
    /\ c = <<[com |-> Head(c).com, user |-> Head(c).user]>>

TypeOK ==
    /\ online \in BOOLEAN /\ net \in BOOLEAN /\ admin \in BOOLEAN /\ granted \in BOOLEAN
    /\ newuserlist \in Seq(Users) /\ rows \in Seq(Users)
    /\ newtopic \in Seq(TextPart) /\ newmessage \in Seq(TextPart)
    /\ newprivate \in Seq(TextPart) /\ topic \in Seq(TextPart)
    /\ heard \in Seq(LineSet) /\ whispered \in Seq(LineSet)
    /\ outbox \in Seq(Texts) /\ arrived \in Seq(Texts) /\ typed \in Seq(Texts)
    /\ coming = <<>> \/ IsText(coming) \/ IsNames(coming) \/ IsChange(coming)
    /\ members \in SUBSET Users
    /\ cut \in SUBSET Buffers /\ listed \in BOOLEAN /\ echoed \in BOOLEAN
    /\ muddled \in [heard : SUBSET Nat, whispered : SUBSET Nat, topic : BOOLEAN]
    /\ items \in Nat /\ sessions \in Nat

\* The server sends only in a session.
OfflineIsQuiet == ~online => coming = <<>>

\* A buffer holds the packets already received of the text that is coming, if the text is
\* of its kind, and nothing otherwise.  What a session left there goes before that.
GoesOn(b, c, coms) ==
    b = IF c # <<>> /\ Head(c).com \in coms
        THEN Start(Head(c).text, Head(c).text.size - Head(c).seq)
        ELSE <<>>

PrivateGoesOn == "private" \notin cut => GoesOn(newprivate, coming, PrivateCommands)
TopicGoesOn == "topic" \notin cut => GoesOn(newtopic, coming, {"ChatTopic"})
MessageGoesOn == "message" \notin cut /\ ~echoed => GoesOn(newmessage, coming, ChannelCommands)

\* A list that shows each user of a set once.
Lists(s, M) == IsInjective(s) /\ ToSet(s) = M

NamesGoOn ==
    "list" \notin cut =>
        IF coming # <<>> /\ Head(coming).com = "ChatUserList"
        THEN IF Len(coming) = 2
             THEN newuserlist = <<>> /\ Lists(coming[1].names \o coming[2].names, members)
             ELSE Lists(newuserlist \o coming[1].names, members)
        ELSE newuserlist = <<>>

\* The users the rows should show: those in the channel, before the change that is coming.
Expected ==
    IF coming # <<>> /\ Head(coming).com = "ChatJoin" THEN members \ {Head(coming).user}
    ELSE IF coming # <<>> /\ Head(coming).com = "ChatLeave" THEN members \cup {Head(coming).user}
    ELSE members

ChangeIsMade ==
    coming # <<>> =>
        /\ Head(coming).com = "ChatJoin" => Head(coming).user \in members
        /\ Head(coming).com = "ChatLeave" => Head(coming).user \notin members

RowsFollow == online /\ listed => Lists(rows, Expected)

\* Only lines that are shown can be muddled.
MuddledShown ==
    muddled.heard \subseteq 1..Len(heard) /\ muddled.whispered \subseteq 1..Len(whispered)

TextInv ==
    /\ MuddledShown
    /\ PrivateGoesOn /\ TopicGoesOn /\ MessageGoesOn
    /\ OthersHeard /\ WhispersHeard /\ TopicIsLast /\ OwnOnce
ListInv == NamesGoOn /\ ChangeIsMade /\ RowsFollow

Inv == TypeOK /\ OfflineIsQuiet /\ TextInv /\ ListInv
--------------------------------------------------------------------------------
(* The packets of a text.                                                   *)

LEMMA TextFacts ==
    ASSUME NEW t \in Texts
    PROVE  /\ t.size \in Nat /\ t.size >= 1 /\ t.size <= MaxParts /\ MaxParts \in Nat
           /\ t.com \in AllCommands /\ t.from \in Users /\ t.id \in Nat
           /\ \A n \in 1..t.size : /\ Part(t, n) \in TextPart
                                   /\ Part(t, n).com = t.com
                                   /\ Part(t, n).text = t
                                   /\ Part(t, n).seq = n
<1>1. MaxParts \in Nat
  BY ChannelAssumption
<1>2. t.size \in 1..MaxParts /\ t.com \in AllCommands /\ t.from \in Users /\ t.id \in Nat
  BY DEF Texts
<1>3. ASSUME NEW n \in 1..t.size
      PROVE  n \in 1..MaxParts
  BY <1>1, <1>2
<1>4. ASSUME NEW n \in 1..t.size
      PROVE  Part(t, n) \in TextPart
  BY <1>2, <1>3 DEF Part, TextPart
<1> QED
  BY <1>1, <1>2, <1>4 DEF Part

\* The rest of a text begins with its next packet.
LEMMA RestFacts ==
    ASSUME NEW t \in Texts, NEW n \in 1..t.size
    PROVE  /\ Rest(t, n) \in Seq(TextPart) /\ Rest(t, n) # <<>>
           /\ Len(Rest(t, n)) = n
           /\ Head(Rest(t, n)) = Part(t, n)
           /\ n = 1 => Tail(Rest(t, n)) = <<>>
           /\ n > 1 => Tail(Rest(t, n)) = Rest(t, n - 1)
<1>1. t.size \in Nat /\ n \in Nat /\ \A m \in 1..t.size : Part(t, m) \in TextPart
  BY TextFacts
<1>2. \A j \in 1..n : Part(t, n + 1 - j) \in TextPart
  BY <1>1
<1>3. /\ Rest(t, n) \in Seq(TextPart) /\ Len(Rest(t, n)) = n
      /\ \A j \in 1..n : Rest(t, n)[j] = Part(t, n + 1 - j)
  BY <1>1, <1>2 DEF Rest
<1>4. Rest(t, n) # <<>> /\ Head(Rest(t, n)) = Part(t, n)
  <2>1. Rest(t, n)[1] = Part(t, n + 1 - 1) /\ n + 1 - 1 = n
    BY <1>1, <1>3
  <2> QED
    BY <1>3, <2>1
<1>5. PICK q, k : q = Tail(Rest(t, n)) /\ k = n - 1
  OBVIOUS
<1>6. /\ k \in Nat /\ q \in Seq(TextPart) /\ Len(q) = k
      /\ \A j \in 1..k : q[j] = Part(t, n + 1 - (j + 1))
  BY <1>1, <1>3, <1>4, <1>5
<1>7. k = 0 => q = <<>>
  BY <1>6
<1>8. q = Rest(t, k)
  <2>1. \A j \in 1..k : n + 1 - (j + 1) = k + 1 - j
    BY <1>1, <1>5
  <2>2. q = [j \in 1..k |-> q[j]]
    BY <1>6
  <2> QED
    BY <1>6, <2>1, <2>2 DEF Rest
<1> QED
  BY <1>1, <1>3, <1>4, <1>5, <1>7, <1>8

LEMMA WholeFacts ==
    ASSUME NEW t \in Texts
    PROVE  /\ Whole(t) = Rest(t, t.size) /\ Whole(t) = Start(t, t.size)
           /\ Start(t, 0) = <<>>
           /\ Whole(t) \in Seq(TextPart) /\ Len(Whole(t)) = t.size
           /\ Whole(t)[1].text = t /\ Whole(t)[Len(Whole(t))].com = t.com
<1>1. t.size \in Nat /\ t.size >= 1 /\ \A m \in 1..t.size : Part(t, m) \in TextPart
  BY TextFacts
<1>2. Whole(t) = Rest(t, t.size) /\ Whole(t) = Start(t, t.size)
  BY DEF Whole, Rest, Start
<1>3. Whole(t) \in Seq(TextPart) /\ Len(Whole(t)) = t.size
  <2>1. t.size \in 1..t.size
    BY <1>1
  <2> QED
    BY <1>2, <2>1, RestFacts
<1>4. Start(t, 0) = <<>>
  BY DEF Start
<1>5. \A j \in 1..t.size : Whole(t)[j] = Part(t, t.size + 1 - j)
  BY <1>1 DEF Whole
<1>6. Whole(t)[1] = Part(t, t.size + 1 - 1) /\ Whole(t)[t.size] = Part(t, t.size + 1 - t.size)
  BY <1>1, <1>5
<1> QED
  BY <1>2, <1>3, <1>4, <1>6 DEF Part

\* What was received of a text grows by its next packet.
LEMMA StartGrows ==
    ASSUME NEW t \in Texts, NEW n \in 1..t.size
    PROVE  Append(Start(t, t.size - n), Part(t, n)) = Start(t, t.size - n + 1)
<1>1. t.size \in Nat /\ n \in Nat /\ \A m \in 1..t.size : Part(t, m) \in TextPart
  BY TextFacts
<1>2. PICK k : k = t.size - n
  OBVIOUS
<1>3. k \in Nat /\ t.size + 1 - (k + 1) = n
  BY <1>1, <1>2
<1>4. /\ Start(t, k) \in Seq(TextPart) /\ Len(Start(t, k)) = k
      /\ \A j \in 1..k : Start(t, k)[j] = Part(t, t.size + 1 - j)
  <2>1. \A j \in 1..k : Part(t, t.size + 1 - j) \in TextPart
    BY <1>1, <1>2, <1>3
  <2> QED
    BY <1>3, <2>1 DEF Start
<1>5. PICK a, x : x = Part(t, n) /\ a = Append(Start(t, k), x)
  OBVIOUS
<1>6. /\ a \in Seq(TextPart) /\ Len(a) = k + 1 /\ a[k + 1] = x
      /\ \A j \in 1..k : a[j] = Start(t, k)[j]
  BY <1>1, <1>3, <1>4, <1>5
<1>7. \A j \in 1..(k + 1) : a[j] = Part(t, t.size + 1 - j)
  BY <1>3, <1>4, <1>5, <1>6
<1>8. a = [j \in 1..(k + 1) |-> a[j]]
  BY <1>3, <1>6
<1> QED
  BY <1>2, <1>5, <1>7, <1>8 DEF Start

\* A packet of a text is received: the text goes on, or it is whole.
LEMMA PartReceived ==
    ASSUME NEW c, IsText(c)
    PROVE  LET p == Head(c)
               t == p.text
           IN  /\ t \in Texts /\ p \in TextPart /\ p = Part(t, p.seq) /\ p.com = t.com
               /\ p.seq \in 1..t.size /\ p.seq \in Nat /\ c # <<>> /\ c \in Seq(TextPart)
               /\ p.seq = 1 => Tail(c) = <<>>
               /\ p.seq # 1 => /\ Tail(c) # <<>> /\ IsText(Tail(c))
                               /\ Head(Tail(c)) = Part(t, p.seq - 1)
<1>1. PICK t, n : t = Head(c).text /\ n = Head(c).seq
  OBVIOUS
<1>2. /\ t \in Texts /\ n \in 1..t.size /\ c = Rest(t, n)
      /\ t.com \in PrivateCommands => t.from # Me
  BY <1>1 DEF IsText
<1>3. /\ c # <<>> /\ Head(c) = Part(t, n) /\ c \in Seq(TextPart)
      /\ n = 1 => Tail(c) = <<>>
      /\ n > 1 => Tail(c) = Rest(t, n - 1)
  BY <1>2, RestFacts
<1>4. t.size \in Nat /\ n \in Nat
  BY <1>2, TextFacts
<1>5. Head(c) \in TextPart /\ Head(c).com = t.com
  BY <1>2, <1>3, TextFacts
<1>6. CASE n = 1
  BY <1>1, <1>2, <1>3, <1>4, <1>5, <1>6
<1>7. CASE n # 1
  <2>1. PICK m : m = n - 1
    OBVIOUS
  <2>2. m \in 1..t.size /\ Tail(c) = Rest(t, m)
    BY <1>2, <1>3, <1>4, <1>7, <2>1
  <2>3. Tail(c) # <<>> /\ Head(Tail(c)) = Part(t, m)
    BY <1>2, <2>2, RestFacts
  <2>4. Part(t, m).text = t /\ Part(t, m).seq = m /\ Part(t, m).com = t.com /\ t.com \in AllCommands
    BY <1>2, <2>2, TextFacts
  <2>5. IsText(Tail(c))
    BY <1>2, <2>2, <2>3, <2>4 DEF IsText
  <2> QED
    BY <1>1, <1>2, <1>3, <1>4, <1>5, <1>7, <2>1, <2>3, <2>5
<1> QED
  BY <1>6, <1>7

\* The buffer of its kind goes on with it, or holds the whole text.
LEMMA BufferReceives ==
    ASSUME NEW c, IsText(c), NEW coms, NEW b, GoesOn(b, c, coms), Head(c).com \in coms
    PROVE  LET p == Head(c)
           IN  /\ p.seq = 1 => Append(b, p) = Whole(p.text) /\ GoesOn(<<>>, Tail(c), coms)
               /\ p.seq # 1 => GoesOn(Append(b, p), Tail(c), coms)
<1>1. PICK t, n : t = Head(c).text /\ n = Head(c).seq
  OBVIOUS
<1>2. /\ t \in Texts /\ Head(c) = Part(t, n) /\ n \in 1..t.size /\ n \in Nat /\ c # <<>>
      /\ Head(c).com = t.com
  BY <1>1, PartReceived
<1>3. t.size \in Nat
  BY <1>2, TextFacts
<1>4. b = Start(t, t.size - n)
  BY <1>1, <1>2 DEF GoesOn
<1>5. Append(b, Head(c)) = Start(t, t.size - n + 1)
  BY <1>2, <1>4, StartGrows
<1>6. CASE n = 1
  <2>1. t.size - n + 1 = t.size
    BY <1>3, <1>6
  <2>2. Tail(c) = <<>>
    BY <1>1, <1>6, PartReceived
  <2> QED
    BY <1>1, <1>2, <1>5, <1>6, <2>1, <2>2, WholeFacts DEF GoesOn
<1>7. CASE n # 1
  <2>1. Tail(c) # <<>> /\ Head(Tail(c)) = Part(t, n - 1)
    BY <1>1, <1>7, PartReceived
  <2>2. n - 1 \in 1..t.size /\ t.size - (n - 1) = t.size - n + 1
    BY <1>2, <1>3, <1>7
  <2>3. Part(t, n - 1).text = t /\ Part(t, n - 1).seq = n - 1 /\ Part(t, n - 1).com = t.com
    BY <1>2, <2>2, TextFacts
  <2>4. GoesOn(Append(b, Head(c)), Tail(c), coms)
    BY <1>2, <1>5, <2>1, <2>2, <2>3 DEF GoesOn
  <2> QED
    BY <1>1, <1>7, <2>4
<1> QED
  BY <1>6, <1>7

\* A buffer of another kind stays empty.
LEMMA BufferOfOtherKind ==
    ASSUME NEW c, IsText(c), NEW coms, NEW b, GoesOn(b, c, coms), Head(c).com \notin coms
    PROVE  GoesOn(b, Tail(c), coms)
<1>1. b = <<>>
  BY DEF GoesOn
<1>2. CASE Head(c).seq = 1
  BY <1>1, <1>2, PartReceived DEF GoesOn
<1>3. CASE Head(c).seq # 1
  <2>1. PICK t, n : t = Head(c).text /\ n = Head(c).seq
    OBVIOUS
  <2>2. /\ t \in Texts /\ n \in 1..t.size /\ n \in Nat /\ Head(c).com = t.com
        /\ Tail(c) # <<>> /\ Head(Tail(c)) = Part(t, n - 1)
    BY <1>3, <2>1, PartReceived
  <2>3. Head(Tail(c)).com = Head(c).com
    BY <2>2 DEF Part
  <2> QED
    BY <1>1, <2>3 DEF GoesOn
<1> QED
  BY <1>2, <1>3
--------------------------------------------------------------------------------
(* What the server sends.                                                   *)

\* What is sent at once: a buffer of any kind that is empty goes on with it.
Fresh(c) ==
    /\ c # <<>>
    /\ IsText(c) \/ IsNames(c) \/ IsChange(c)
    /\ \A coms \in Kinds : GoesOn(<<>>, c, coms)

LEMMA CommandsDiffer ==
    /\ "ChatUserList" \notin AllCommands
    /\ "ChatJoin" \notin AllCommands
    /\ "ChatLeave" \notin AllCommands
    /\ ChannelCommands \in Kinds /\ PrivateCommands \in Kinds /\ {"ChatTopic"} \in Kinds
    /\ \A coms \in Kinds : coms \in SUBSET AllCommands
    /\ Spoken \in SUBSET AllCommands
    /\ \A com \in ChannelCommands : com \notin PrivateCommands /\ com # "ChatTopic"
    /\ "ChatTopic" \notin PrivateCommands
  BY ChannelAssumption DEF AllCommands, Kinds, ChannelCommands, PrivateCommands

LEMMA WholeIsFresh ==
    ASSUME NEW t \in Texts, t.com \in PrivateCommands => t.from # Me
    PROVE  Fresh(Whole(t))
<1>1. PICK c : c = Whole(t)
  OBVIOUS
<1>2. t.size \in 1..t.size /\ t.size \in Nat /\ c = Rest(t, t.size) /\ Start(t, 0) = <<>>
      /\ t.size - t.size = 0
  BY <1>1, TextFacts, WholeFacts
<1>3. c # <<>> /\ Head(c) = Part(t, t.size)
  BY <1>2, RestFacts
<1>4. Head(c).text = t /\ Head(c).seq = t.size /\ Head(c).com \in AllCommands
  BY <1>2, <1>3, TextFacts
<1>5. IsText(c)
  BY <1>2, <1>4 DEF IsText
<1>6. \A coms \in Kinds : GoesOn(<<>>, c, coms)
  BY <1>2, <1>4 DEF GoesOn
<1> QED
  BY <1>1, <1>3, <1>5, <1>6 DEF Fresh

LEMMA ChangeIsFresh ==
    ASSUME NEW u \in Others, NEW com \in {"ChatJoin", "ChatLeave"}, NEW c,
           c = <<[com |-> com, user |-> u]>>
    PROVE  Fresh(c) /\ Head(c).com = com /\ Head(c).user = u
<1>1. c # <<>> /\ Head(c).com = com /\ Head(c).user = u
  OBVIOUS
<1>2. com \notin AllCommands
  BY CommandsDiffer
<1> QED
  BY <1>1, <1>2, CommandsDiffer DEF Fresh, IsChange, GoesOn

\* The users of a finite set, in some order.
LEMMA InSomeOrder ==
    ASSUME NEW M, M \in SUBSET Users
    PROVE  /\ IsFiniteSet(M) /\ Cardinality(M) \in Nat
           /\ SetToSeq(M) \in Seq(Users) /\ Len(SetToSeq(M)) = Cardinality(M)
           /\ Lists(SetToSeq(M), M)
<1>1. IsFiniteSet(Users)
  BY ChannelAssumption, FS_AddElement DEF Users
<1>2. IsFiniteSet(M) /\ Cardinality(M) \in Nat /\ ExistsBijection(1..Cardinality(M), M)
  BY <1>1, FS_Subset, FS_CardinalityType
<1>3. PICK c : c = Cardinality(M)
  OBVIOUS
<1>4. PICK f : f \in Bijection(1..c, M)
  BY <1>2, <1>3 DEF ExistsBijection
<1>6. f \in [1..c -> M] /\ IsInjective(f)
  BY <1>4 DEF Bijection, Injection
<1>7. PICK g : g = SetToSeq(M)
  OBVIOUS
<1>8. g \in [1..c -> M] /\ IsInjective(g)
  BY <1>3, <1>6, <1>7 DEF SetToSeq
<1>10. g \in Injection(1..c, M)
  BY <1>8 DEF Injection
<1>11. Cardinality(1..c) = c
  <2>1. Cardinality(1..c) = IF 1 > c THEN 0 ELSE c - 1 + 1
    BY <1>2, <1>3, FS_Interval
  <2> QED
    BY <1>2, <1>3, <2>1
<1>12. g \in Surjection(1..c, M)
  BY <1>2, <1>3, <1>10, <1>11, FS_Injection
<1>13. \A u \in M : \E a \in 1..c : g[a] = u
  BY <1>12 DEF Surjection
<1>14. g \in Seq(Users) /\ Len(g) = c /\ DOMAIN g = 1..c
  BY <1>2, <1>3, <1>8
<1>15. ToSet(g) = M
  BY <1>8, <1>13, <1>14 DEF ToSet
<1> QED
  BY <1>2, <1>3, <1>7, <1>8, <1>14, <1>15 DEF Lists

\* A user list in one packet or in two.
LEMMA UserListFacts ==
    ASSUME NEW names \in Seq(Users), NEW n \in Nat, n < Len(names), NEW c,
           c = UserListPackets(names, n)
    PROVE  /\ Fresh(c) /\ Head(c).com = "ChatUserList"
           /\ \/ Len(c) = 1 /\ c[1].names = names
              \/ Len(c) = 2 /\ c[1].names \o c[2].names = names
<1>1. "ChatUserList" \notin AllCommands
  BY CommandsDiffer
<1>2. CASE n = 0
  <2>1. c = <<ListPart(names, 1)>>
    BY <1>2 DEF UserListPackets
  <2>2. /\ c # <<>> /\ Len(c) = 1 /\ Head(c) = ListPart(names, 1) /\ c[1] = ListPart(names, 1)
    BY <2>1
  <2>3. Head(c).com = "ChatUserList" /\ Head(c).names = names /\ c[1].names = names
    BY <2>2 DEF ListPart
  <2>4. IsNames(c)
    BY <2>1, <2>3 DEF IsNames
  <2> QED
    BY <1>1, <2>2, <2>3, <2>4, CommandsDiffer DEF Fresh, GoesOn
<1>3. CASE n # 0
  <2>1. PICK a, b : a = SubSeq(names, 1, n) /\ b = SubSeq(names, n + 1, Len(names))
    OBVIOUS
  <2>2. a \in Seq(Users) /\ b \in Seq(Users) /\ a \o b = names
    <3>1. PICK m : m = Len(names)
      OBVIOUS
    <3>2. /\ a \in Seq(Users) /\ b \in Seq(Users) /\ Len(a) = n /\ Len(b) = m - n /\ m \in Nat
          /\ \A j \in 1..n : a[j] = names[j]
          /\ \A j \in 1..(m - n) : b[j] = names[n + j]
      BY <2>1, <3>1
    <3>3. PICK ab : ab = a \o b
      OBVIOUS
    <3>4. /\ ab \in Seq(Users) /\ Len(ab) = m
          /\ \A j \in 1..n : ab[j] = a[j]
          /\ \A j \in 1..(m - n) : ab[n + j] = b[j]
      <4>1. ab \in Seq(Users) /\ Len(ab) = m
        BY <3>2, <3>3
      <4>3. ASSUME NEW j \in 1..n
            PROVE  ab[j] = a[j]
        <5>1. j \in 1..(Len(a) + Len(b)) /\ j <= Len(a)
          BY <3>2
        <5> QED
          BY <3>2, <3>3, <5>1
      <4>2. ASSUME NEW j \in 1..(m - n)
            PROVE  ab[n + j] = b[j]
        <5>1. PICK i : i = n + j
          OBVIOUS
        <5>2. i \in 1..(Len(a) + Len(b)) /\ ~(i <= Len(a)) /\ i - Len(a) = j
          BY <3>2, <5>1
        <5> QED
          BY <3>2, <3>3, <5>1, <5>2
      <4> QED
        BY <4>1, <4>2, <4>3
    <3>5. \A j \in 1..m : ab[j] = names[j]
      <4> TAKE j \in 1..m
      <4>1. CASE j \in 1..n
        BY <4>1, <3>2, <3>4
      <4>2. CASE j \notin 1..n
        <5>1. PICK i : i = j - n
          OBVIOUS
        <5>2. i \in 1..(m - n) /\ n + i = j
          BY <3>2, <4>2, <5>1
        <5> QED
          BY <3>2, <3>4, <5>2
      <4> QED
        BY <4>1, <4>2
    <3>6. names = [j \in 1..m |-> names[j]] /\ ab = [j \in 1..m |-> ab[j]]
      BY <3>1, <3>4
    <3> QED
      BY <3>2, <3>3, <3>5, <3>6
  <2>3. c = <<ListPart(a, 2), ListPart(b, 1)>>
    BY <1>3, <2>1 DEF UserListPackets
  <2>4. /\ c # <<>> /\ Len(c) = 2 /\ Head(c) = ListPart(a, 2)
        /\ c[1] = ListPart(a, 2) /\ c[2] = ListPart(b, 1)
    BY <2>3
  <2>5. Head(c).com = "ChatUserList" /\ Head(c).names = a /\ c[1].names = a /\ c[2].names = b
    BY <2>4 DEF ListPart
  <2>6. IsNames(c)
    BY <2>2, <2>3, <2>5 DEF IsNames
  <2> QED
    <3>1. Fresh(c)
      BY <1>1, <2>4, <2>5, <2>6, CommandsDiffer DEF Fresh, GoesOn
    <3> QED
      BY <2>2, <2>4, <2>5, <3>1
<1> QED
  BY <1>2, <1>3
--------------------------------------------------------------------------------
(* The steps that handle no packet.                                         *)

SessionStep == Stop \/ SetNetwork \/ SetAdminMode \/ Disconnect \/ OnSocketFailRead

ServerStep ==
    \/ ServerReadsText
    \/ \E n \in Nat : ServerSendsUserList(n)
    \/ \E u \in Others : UserJoins(u) \/ UserLeaves(u)
    \/ \E com \in Spoken, u \in Others, size \in 1..MaxParts : ServerSendsText(com, u, size)

UserStep ==
    \E size \in 1..MaxParts :
        \/ \E com \in ChannelCommands : OnSendMessage(com, size)
        \/ OnSendPrivate(size) \/ SendTopic(size)

LEMMA NextSteps ==
    ASSUME Next
    PROVE  SessionStep \/ ServerStep \/ UserStep \/ ProcessMessage
<1>1. \A n \in 0..(IF MaxParts = 1 THEN 0 ELSE Cardinality(Others)) : n \in Nat
  OBVIOUS
<1>2. CASE \E n \in 0..(IF MaxParts = 1 THEN 0 ELSE Cardinality(Others)) : ServerSendsUserList(n)
  BY <1>1, <1>2, Zenon DEF ServerStep
<1>3. CASE \E size \in 1..MaxParts : \E com \in Spoken, u \in Others : ServerSendsText(com, u, size)
  BY <1>3, Zenon DEF ServerStep
<1>4. CASE \E size \in 1..MaxParts :
               \/ \E com \in Spoken \cap ChannelCommands : OnSendMessage(com, size)
               \/ OnSendPrivate(size) \/ OnSendTopic(size) \/ OnTopic(size)
  BY <1>4, Zenon DEF UserStep, OnSendTopic, OnTopic
<1>5. CASE \E u \in Others : UserJoins(u) \/ UserLeaves(u)
  BY <1>5, Zenon DEF ServerStep
<1> QED
  BY <1>2, <1>3, <1>4, <1>5, Zenon DEF Next, SessionStep, ServerStep

\* A session that ends leaves the buffers as they are.
LEMMA SessionSteps ==
    ASSUME TypeOK, OfflineIsQuiet, SessionStep
    PROVE  /\ UNCHANGED <<newuserlist, newtopic, newmessage, newprivate, rows, topic, heard,
                          whispered, arrived, muddled, typed, echoed>>
           /\ OfflineIsQuiet'
           /\ \/ coming' = coming /\ cut' = cut
              \/ /\ coming' = <<>>
                 /\ "list" \notin cut' => newuserlist = <<>>
                 /\ "topic" \notin cut' => newtopic = <<>>
                 /\ "message" \notin cut' => newmessage = <<>>
                 /\ "private" \notin cut' => newprivate = <<>>
           /\ TypeOK'
<1>1. CASE Stop
  BY <1>1 DEF Stop, vars, TypeOK, OfflineIsQuiet
<1>2. CASE SetNetwork
  <2>1. PICK present \in SUBSET Others : members' = present \cup {Me}
    BY <1>2 DEF SetNetwork
  <2>2. members' \in SUBSET Users
    BY <2>1 DEF Users
  <2>3. outbox' = <<>> /\ <<>> \in Seq(Texts) /\ coming = <<>>
    <3>1. <<>> \in Seq(Texts)
      OBVIOUS
    <3> QED
      BY <1>2, <3>1 DEF SetNetwork, OfflineIsQuiet
  <2>4. /\ UNCHANGED <<newuserlist, newtopic, newmessage, newprivate, rows, topic, heard,
                       whispered, arrived, muddled, typed, echoed, cut, admin, items>>
        /\ online' = TRUE /\ net' = TRUE /\ granted' = FALSE /\ listed' = FALSE
        /\ coming' = <<>> /\ sessions' = sessions + 1
    BY <1>2 DEF SetNetwork
  <2>5. TypeOK'
    <3>1. sessions' \in Nat
      BY <2>4 DEF TypeOK
    <3>3. online' \in BOOLEAN /\ net' \in BOOLEAN /\ granted' \in BOOLEAN /\ listed' \in BOOLEAN
      BY <2>4
    <3>2. outbox' \in Seq(Texts)
      BY <2>3, Zenon
    <3> QED
      BY <2>2, <2>4, <3>1, <3>2, <3>3, Zenon DEF TypeOK
  <2>6. OfflineIsQuiet' /\ coming' = coming
    BY <2>3, <2>4 DEF OfflineIsQuiet
  <2> QED
    BY <2>4, <2>5, <2>6
<1>3. CASE SetAdminMode
  BY <1>3 DEF SetAdminMode, TypeOK, OfflineIsQuiet
<1>4. CASE Disconnect \/ OnSocketFailRead
  <2>1. EndSession /\ net' \in BOOLEAN /\ admin' \in BOOLEAN
    BY <1>4 DEF Disconnect, OnSocketFailRead, TypeOK
  <2>2. cut' = {b \in Buffers : Left[b] # <<>>}
    BY <2>1 DEF EndSession
  <2>3. /\ cut' \in SUBSET Buffers
        /\ "list" \notin cut' => newuserlist = <<>>
        /\ "topic" \notin cut' => newtopic = <<>>
        /\ "message" \notin cut' => newmessage = <<>>
        /\ "private" \notin cut' => newprivate = <<>>
    BY <2>2 DEF Buffers, Left
  <2>4. /\ UNCHANGED <<newuserlist, newtopic, newmessage, newprivate, rows, topic, heard,
                       whispered, outbox, members, listed, arrived, muddled, typed, echoed,
                       items, sessions>>
        /\ online' = FALSE /\ granted' = FALSE /\ coming' = <<>>
    BY <2>1 DEF EndSession
  <2> QED
    BY <2>1, <2>2, <2>3, <2>4 DEF TypeOK, OfflineIsQuiet
<1> QED
  BY <1>1, <1>2, <1>3, <1>4 DEF SessionStep

\* What the server sends at once.
LEMMA ServerSteps ==
    ASSUME TypeOK, OfflineIsQuiet, ServerStep
    PROVE  /\ UNCHANGED <<newuserlist, newtopic, newmessage, newprivate, rows, topic, heard,
                          whispered, arrived, muddled, typed, echoed, cut, listed, online>>
           /\ OfflineIsQuiet'
           /\ coming = <<>> /\ (coming' = <<>> \/ Fresh(coming'))
           /\ TypeOK'
<1>1. /\ coming = <<>> /\ online = TRUE
      /\ UNCHANGED <<newuserlist, newtopic, newmessage, newprivate, rows, topic, heard,
                     whispered, arrived, muddled, typed, echoed, cut, listed, online, net,
                     admin, granted, sessions>>
      /\ items' \in Nat
  BY SMTT(40) DEF ServerStep, ServerReadsText, ServerSendsUserList, UserJoins, UserLeaves,
         ServerSendsText, CanSend, NewItem, TypeOK
<1>2. /\ coming' = <<>> \/ Fresh(coming')
      /\ outbox' \in Seq(Texts) /\ members' \in SUBSET Users
  <2>1. CASE ServerReadsText
    <3>1. Head(outbox) \in Texts /\ Tail(outbox) \in Seq(Texts)
      BY <2>1 DEF ServerReadsText, TypeOK
    <3>2. Head(outbox).com \in ChannelCommands \cup {"ChatTopic"} => Head(outbox).com \notin PrivateCommands
      BY CommandsDiffer
    <3>3. Head(outbox).com \in ChannelCommands \cup {"ChatTopic"} => Fresh(Whole(Head(outbox)))
      BY <3>1, <3>2, WholeIsFresh
    <3> QED
      BY <1>1, <2>1, <3>1, <3>3 DEF ServerReadsText, TypeOK
  <2>2. ASSUME NEW n \in Nat, ServerSendsUserList(n)
        PROVE  Fresh(coming') /\ outbox' = outbox /\ members' = members
    <3>1. SetToSeq(members) \in Seq(Users) /\ Len(SetToSeq(members)) = Cardinality(members)
      BY InSomeOrder DEF TypeOK
    <3> QED
      BY <2>2, <3>1, UserListFacts DEF ServerSendsUserList
  <2>3. ASSUME NEW u \in Others, UserJoins(u) \/ UserLeaves(u)
        PROVE  Fresh(coming') /\ outbox' = outbox /\ members' \in SUBSET Users
    BY <2>3, ChangeIsFresh DEF UserJoins, UserLeaves, TypeOK, Users
  <2>4. ASSUME NEW com \in Spoken, NEW u \in Others, NEW size \in 1..MaxParts,
               ServerSendsText(com, u, size)
        PROVE  Fresh(coming') /\ outbox' = outbox /\ members' = members
    <3>1. PICK t : t = Text(items', com, u, size)
      OBVIOUS
    <3>2. t \in Texts /\ t.from # Me
      BY <1>1, <3>1, CommandsDiffer, ChannelAssumption DEF Text, Texts, Users
    <3> QED
      BY <2>4, <3>1, <3>2, WholeIsFresh DEF ServerSendsText
  <2> QED
    BY <2>1, <2>2, <2>3, <2>4 DEF ServerStep, TypeOK
<1>3. coming' = <<>> \/ IsText(coming') \/ IsNames(coming') \/ IsChange(coming')
  BY <1>2 DEF Fresh
<1> QED
  BY <1>1, <1>2, <1>3 DEF TypeOK, OfflineIsQuiet

\* What is shown of a text, whole or not.
LEMMA LineType ==
    ASSUME NEW b \in Seq(TextPart), NEW p \in TextPart
    PROVE  /\ Append(b, p) \in Seq(TextPart)
           /\ Line(Append(b, p)) \in LineSet
           /\ Line(Append(b, p)).from = Append(b, p)[1].text.from
<1>1. PICK w, k : w = Append(b, p) /\ k = Len(w)
  OBVIOUS
<1>2. w \in Seq(TextPart) /\ k \in Nat /\ k >= 1
  BY <1>1
<1>3. w[1] \in TextPart /\ w[k] \in TextPart
  BY <1>1, <1>2
<1>4. w[1].text.from \in Users /\ w[k].com \in AllCommands
  <2>1. w[1].text \in Texts
    BY <1>3 DEF TextPart
  <2> QED
    BY <1>3, <2>1 DEF TextPart, Texts
<1>5. Line(w) \in LineSet /\ Line(w).from = w[1].text.from
  BY <1>1, <1>2, <1>4 DEF Line, LineSet
<1> QED
  BY <1>1, <1>2, <1>5

LEMMA LineOfWhole ==
    ASSUME NEW t \in Texts
    PROVE  Line(Whole(t)) \in LineSet /\ Line(Whole(t)).from = t.from
<1>1. PICK w : w = Whole(t)
  OBVIOUS
<1>2. w \in Seq(TextPart) /\ w[1].text = t /\ w[Len(w)].com = t.com
  BY <1>1, WholeFacts
<1>3. t.com \in AllCommands /\ t.from \in Users
  BY TextFacts
<1>4. Line(w) \in LineSet /\ Line(w).from = t.from
  BY <1>2, <1>3 DEF Line, LineSet
<1> QED
  BY <1>1, <1>4

\* What the user types is shown at once.
LEMMA UserSteps ==
    ASSUME TypeOK, UserStep
    PROVE  /\ UNCHANGED <<newuserlist, newtopic, newmessage, newprivate, rows, topic, coming,
                          members, cut, listed, arrived, muddled, echoed, online>>
           /\ \/ UNCHANGED <<heard, whispered, typed>>
              \/ \E t \in Texts :
                    /\ t.from = Me
                    /\ \/ /\ heard' = Append(heard, Line(Whole(t))) /\ typed' = Append(typed, t)
                          /\ whispered' = whispered
                       \/ /\ whispered' = Append(whispered, Line(Whole(t)))
                          /\ UNCHANGED <<heard, typed>>
           /\ TypeOK'
<1>1. PICK size \in 1..MaxParts, com \in ChannelCommands :
           OnSendMessage(com, size) \/ OnSendPrivate(size) \/ SendTopic(size)
  BY Zenon DEF UserStep, ChannelCommands
<1>2. \A c \in AllCommands : NewText(c, size) \in Texts /\ NewText(c, size).from = Me
  BY DEF NewText, Text, Texts, TypeOK, Users
<1>3. ASSUME NEW c \in AllCommands, AddBufferOut(NewText(c, size))
      PROVE  /\ UNCHANGED <<newuserlist, newtopic, newmessage, newprivate, rows, topic, coming,
                            members, cut, listed, arrived, muddled, echoed, online, net, admin,
                            granted, sessions>>
             /\ items' \in Nat /\ outbox' \in Seq(Texts)
  BY <1>2, <1>3 DEF AddBufferOut, NewItem, TypeOK
<1>4. com \in AllCommands /\ "ChatPrivMessage" \in AllCommands /\ "ChatTopic" \in AllCommands
  BY DEF AllCommands, PrivateCommands
<1>5. CASE OnSendMessage(com, size)
  <2>1. PICK t : t = NewText(com, size)
    OBVIOUS
  <2>2. /\ t \in Texts /\ t.from = Me /\ AddBufferOut(t) /\ whispered' = whispered
        /\ heard' = Append(heard, Line(Whole(t))) /\ typed' = Append(typed, t)
    BY <1>2, <1>4, <1>5, <2>1 DEF OnSendMessage
  <2>3. heard' \in Seq(LineSet) /\ typed' \in Seq(Texts)
    BY <2>2, LineOfWhole DEF TypeOK
  <2>4. TypeOK'
    BY <1>3, <1>4, <2>1, <2>2, <2>3, SMTT(40) DEF TypeOK
  <2> QED
    BY <1>3, <1>4, <2>1, <2>2, <2>4
<1>6. CASE OnSendPrivate(size)
  <2>1. PICK t : t = NewText("ChatPrivMessage", size)
    OBVIOUS
  <2>2. /\ t \in Texts /\ t.from = Me /\ AddBufferOut(t) /\ heard' = heard /\ typed' = typed
        /\ whispered' = Append(whispered, Line(Whole(t)))
    BY <1>2, <1>4, <1>6, <2>1 DEF OnSendPrivate
  <2>3. whispered' \in Seq(LineSet)
    BY <2>2, LineOfWhole DEF TypeOK
  <2>4. TypeOK'
    BY <1>3, <1>4, <2>1, <2>2, <2>3, SMTT(40) DEF TypeOK
  <2> QED
    BY <1>3, <1>4, <2>1, <2>2, <2>4
<1>7. CASE SendTopic(size)
  <2>1. AddBufferOut(NewText("ChatTopic", size)) /\ UNCHANGED <<heard, whispered, typed>>
    BY <1>7 DEF SendTopic
  <2>2. TypeOK'
    BY <1>3, <1>4, <2>1 DEF TypeOK
  <2> QED
    BY <1>3, <1>4, <2>1, <2>2
<1> QED
  BY <1>1, <1>5, <1>6, <1>7
--------------------------------------------------------------------------------
(* The steps that handle a packet.                                          *)

LEMMA ReceiveSteps ==
    ASSUME TypeOK, OfflineIsQuiet, NEW com, Receive(com)
    PROVE  /\ coming # <<>> /\ Head(coming).com \in com /\ coming' = Tail(coming)
           /\ OfflineIsQuiet'
           /\ UNCHANGED <<online, net, admin, granted, outbox, members, typed, items, sessions>>
           /\ com \in SUBSET AllCommands => IsText(coming)
           /\ com = {"ChatUserList"} => IsNames(coming)
           /\ com \in {{"ChatJoin"}, {"ChatLeave"}} => IsChange(coming)
           /\ IsText(coming) => coming' = <<>> \/ IsText(coming')
<1>1. /\ coming # <<>> /\ Head(coming).com \in com /\ coming' = Tail(coming) /\ online
      /\ UNCHANGED <<online, net, admin, granted, outbox, members, typed, items, sessions>>
  BY DEF Receive
<1>2. IsText(coming) \/ IsNames(coming) \/ IsChange(coming)
  BY <1>1 DEF TypeOK
<1>3. IsText(coming) => Head(coming).com \in AllCommands
  BY DEF IsText
<1>4. IsNames(coming) => Head(coming).com = "ChatUserList"
  BY DEF IsNames
<1>5. IsChange(coming) => Head(coming).com \in {"ChatJoin", "ChatLeave"}
  BY DEF IsChange
<1>6. OfflineIsQuiet'
  BY <1>1 DEF OfflineIsQuiet
<1>7. IsText(coming) => coming' = <<>> \/ IsText(coming')
  BY <1>1, PartReceived
<1> QED
  BY <1>1, <1>2, <1>3, <1>4, <1>5, <1>6, <1>7, CommandsDiffer
--------------------------------------------------------------------------------
(* The histories.                                                           *)

LEMMA TextsOfAppend ==
    ASSUME NEW s \in Seq(Texts), NEW t \in Texts, NEW coms
    PROVE  /\ TextsOf(s, coms) \in Seq(Texts)
           /\ t.com \in coms /\ t.from # Me =>
                  TextsOf(Append(s, t), coms) = Append(TextsOf(s, coms), t)
           /\ t.com \notin coms \/ t.from = Me => TextsOf(Append(s, t), coms) = TextsOf(s, coms)
<1>1. PICK G : G = {x \in Texts : x.com \in coms /\ x.from # Me}
  OBVIOUS
<1>2. PICK a : a = Append(s, t)
  OBVIOUS
<1>3. \A i \in DOMAIN s : s[i] \in Texts
  OBVIOUS
<1>4. a \in Seq(Texts)
  BY <1>2
<1>5. \A i \in DOMAIN a : a[i] \in Texts
  BY <1>4
<1>6. PICK I : I = Places(s, G)
  OBVIOUS
<1>7. PICK J : J = Places(a, G)
  OBVIOUS
<1>8. I = {i \in DOMAIN s : s[i].com \in coms /\ s[i].from # Me}
  BY <1>1, <1>3, <1>6 DEF Places
<1>9. J = {i \in DOMAIN a : a[i].com \in coms /\ a[i].from # Me}
  BY <1>1, <1>5, <1>7 DEF Places
<1>10. TextsOf(s, coms) = Selected(s, I) /\ TextsOf(a, coms) = Selected(a, J)
  BY <1>8, <1>9, Zenon DEF TextsOf
<1>11. /\ Selected(s, I) \in Seq(Texts)
       /\ t \in G => Selected(a, J) = Append(Selected(s, I), t)
       /\ t \notin G => Selected(a, J) = Selected(s, I)
  <2>1. /\ Selected(s, Places(s, G)) \in Seq(Texts)
        /\ t \in G => Selected(Append(s, t), Places(Append(s, t), G))
                          = Append(Selected(s, Places(s, G)), t)
        /\ t \notin G => Selected(Append(s, t), Places(Append(s, t), G))
                             = Selected(s, Places(s, G))
    BY SelectedGrows
  <2> QED
    BY <1>2, <1>6, <1>7, <2>1
<1>12. t \in G <=> t.com \in coms /\ t.from # Me
  BY <1>1
<1> QED
  BY <1>2, <1>10, <1>11, <1>12, Zenon

LEMMA TopicsAppend ==
    ASSUME NEW s \in Seq(Texts), NEW t \in Texts, NEW a, a = Append(s, t)
    PROVE  /\ TopicsOf(s) \in Seq(Texts)
           /\ t.com = "ChatTopic" => TopicsOf(a) = Append(TopicsOf(s), t)
           /\ t.com # "ChatTopic" => TopicsOf(a) = TopicsOf(s)
<1>1. PICK G : G = {x \in Texts : x.com = "ChatTopic"}
  OBVIOUS
<1>2. \A i \in DOMAIN s : s[i] \in Texts
  OBVIOUS
<1>3. a \in Seq(Texts)
  OBVIOUS
<1>4. \A i \in DOMAIN a : a[i] \in Texts
  BY <1>3
<1>5. PICK I : I = Places(s, G)
  OBVIOUS
<1>6. PICK J : J = Places(a, G)
  OBVIOUS
<1>7. I = {i \in DOMAIN s : s[i].com = "ChatTopic"}
  BY <1>1, <1>2, <1>5 DEF Places
<1>8. J = {i \in DOMAIN a : a[i].com = "ChatTopic"}
  BY <1>1, <1>4, <1>6 DEF Places
<1>9. /\ Selected(s, I) \in Seq(Texts)
      /\ t \in G => Selected(a, J) = Append(Selected(s, I), t)
      /\ t \notin G => Selected(a, J) = Selected(s, I)
  <2>1. /\ Selected(s, Places(s, G)) \in Seq(Texts)
        /\ t \in G => Selected(Append(s, t), Places(Append(s, t), G))
                          = Append(Selected(s, Places(s, G)), t)
        /\ t \notin G => Selected(Append(s, t), Places(Append(s, t), G))
                             = Selected(s, Places(s, G))
    BY SelectedGrows
  <2> QED
    BY <1>5, <1>6, <2>1
<1>10. t \in G <=> t.com = "ChatTopic"
  BY <1>1
<1> QED
  BY <1>7, <1>8, <1>9, <1>10, Zenon DEF TopicsOf

\* A line that is muddled is left out, and so is the user's own.
LEMMA LinesOfAppend ==
    ASSUME NEW s \in Seq(LineSet), NEW l \in LineSet, NEW but, but \subseteq 1..Len(s)
    PROVE  /\ LinesOf(s, but) \in Seq(LineSet)
           /\ l.from # Me => LinesOf(Append(s, l), but) = Append(LinesOf(s, but), l)
           /\ l.from = Me => LinesOf(Append(s, l), but) = LinesOf(s, but)
           /\ LinesOf(Append(s, l), but \cup {Len(s) + 1}) = LinesOf(s, but)
<1>1. PICK n, a : n = Len(s) /\ a = Append(s, l)
  OBVIOUS
<1>2. /\ n \in Nat /\ DOMAIN s = 1..n /\ DOMAIN a = 1..(n + 1) /\ a[n + 1] = l
      /\ \A i \in 1..n : a[i] = s[i]
  BY <1>1
<1>3. PICK I : I = {i \in DOMAIN s : s[i].from # Me /\ i \notin but}
  OBVIOUS
<1>4. I \subseteq 1..n /\ n + 1 \notin 1..n
  BY <1>2, <1>3
<1>5. l.from # Me => {i \in DOMAIN a : a[i].from # Me /\ i \notin but} = I \cup {n + 1}
  BY <1>1, <1>2, <1>3, <1>4
<1>6. l.from = Me => {i \in DOMAIN a : a[i].from # Me /\ i \notin but} = I
  BY <1>1, <1>2, <1>3, <1>4
<1>7. {i \in DOMAIN a : a[i].from # Me /\ i \notin but \cup {n + 1}} = I
  BY <1>1, <1>2, <1>3, <1>4
<1>8. /\ Selected(s, I) \in Seq(LineSet)
      /\ Selected(a, I) = Selected(s, I)
      /\ Selected(a, I \cup {n + 1}) = Append(Selected(s, I), l)
  <2>1. I \subseteq 1..Len(s)
    BY <1>1, <1>4
  <2>2. /\ Selected(s, I) \in Seq(LineSet)
        /\ Selected(Append(s, l), I) = Selected(s, I)
        /\ Selected(Append(s, l), I \cup {Len(s) + 1}) = Append(Selected(s, I), l)
    <3>1. Selected(s, I) \in Seq(LineSet)
      BY <2>1, SelectedType, Zenon
    <3>2. /\ Selected(Append(s, l), I) = Selected(s, I)
          /\ Selected(Append(s, l), I \cup {Len(s) + 1}) = Append(Selected(s, I), l)
      BY <2>1, SelectedAppend, Zenon
    <3> QED
      BY <3>1, <3>2
  <2> QED
    BY <1>1, <2>2, Zenon
<1> QED
  BY <1>1, <1>3, <1>5, <1>6, <1>7, <1>8, Zenon DEF LinesOf

LEMMA OwnLinesOfAppend ==
    ASSUME NEW s \in Seq(LineSet), NEW l \in LineSet
    PROVE  /\ l.from # Me => OwnLinesOf(Append(s, l)) = OwnLinesOf(s)
           /\ l.from = Me => OwnLinesOf(Append(s, l)) = Append(OwnLinesOf(s), l)
<1>1. PICK n, a : n = Len(s) /\ a = Append(s, l)
  OBVIOUS
<1>2. /\ n \in Nat /\ DOMAIN s = 1..n /\ DOMAIN a = 1..(n + 1) /\ a[n + 1] = l
      /\ \A i \in 1..n : a[i] = s[i]
  BY <1>1
<1>3. PICK I : I = {i \in DOMAIN s : s[i].from = Me}
  OBVIOUS
<1>4. I \subseteq 1..n
  BY <1>2, <1>3
<1>5. l.from = Me => {i \in DOMAIN a : a[i].from = Me} = I \cup {n + 1}
  BY <1>2, <1>3
<1>6. l.from # Me => {i \in DOMAIN a : a[i].from = Me} = I
  BY <1>2, <1>3
<1>7. /\ Selected(a, I) = Selected(s, I)
      /\ Selected(a, I \cup {n + 1}) = Append(Selected(s, I), l)
  <2>1. I \subseteq 1..Len(s)
    BY <1>1, <1>4
  <2>2. /\ Selected(Append(s, l), I) = Selected(s, I)
        /\ Selected(Append(s, l), I \cup {Len(s) + 1}) = Append(Selected(s, I), l)
    BY <2>1, SelectedAppend, Zenon
  <2> QED
    BY <1>1, <2>2, Zenon
<1> QED
  BY <1>1, <1>3, <1>5, <1>6, <1>7, Zenon DEF OwnLinesOf

LEMMA LinesAppend ==
    ASSUME NEW s \in Seq(Texts), NEW t \in Texts
    PROVE  Lines(Append(s, t)) = Append(Lines(s), Line(Whole(t)))
<1>1. PICK n, a : n = Len(s) /\ a = Append(s, t)
  OBVIOUS
<1>2. /\ n \in Nat /\ Len(a) = n + 1 /\ a[n + 1] = t
      /\ \A i \in 1..n : a[i] = s[i] /\ s[i] \in Texts
  BY <1>1
<1>3. PICK l, r : l = Lines(s) /\ r = Append(l, Line(Whole(t)))
  OBVIOUS
<1>4. /\ l \in Seq(LineSet) /\ Len(l) = n /\ \A i \in 1..n : l[i] = Line(Whole(s[i]))
  <2>1. \A i \in 1..n : Line(Whole(s[i])) \in LineSet
    BY <1>2, LineOfWhole
  <2> QED
    BY <1>1, <1>2, <1>3, <2>1 DEF Lines
<1>5. Line(Whole(t)) \in LineSet
  BY LineOfWhole
<1>6. /\ r \in Seq(LineSet) /\ Len(r) = n + 1 /\ r[n + 1] = Line(Whole(t))
      /\ \A i \in 1..n : r[i] = l[i]
  BY <1>2, <1>3, <1>4, <1>5
<1>7. \A i \in 1..(n + 1) : r[i] = Line(Whole(a[i]))
  BY <1>2, <1>4, <1>6
<1>8. r = [i \in 1..(n + 1) |-> r[i]]
  BY <1>2, <1>6
<1> QED
  BY <1>1, <1>2, <1>3, <1>7, <1>8 DEF Lines
--------------------------------------------------------------------------------
(* Texts are put together and shown.                                        *)

\* The steps that handle no packet keep the buffers going.
LEMMA QuietBuffer ==
    ASSUME NEW b, NEW c, NEW d, NEW coms \in Kinds,
           \/ GoesOn(b, c, coms) /\ (d = c \/ (c = <<>> /\ (d = <<>> \/ Fresh(d))))
           \/ b = <<>> /\ d = <<>>
    PROVE  GoesOn(b, d, coms)
<1>1. CASE GoesOn(b, c, coms) /\ d = c
  BY <1>1
<1>2. CASE d = <<>> /\ ((GoesOn(b, c, coms) /\ c = <<>>) \/ b = <<>>)
  BY <1>2 DEF GoesOn
<1>3. CASE GoesOn(b, c, coms) /\ c = <<>> /\ Fresh(d)
  <2>1. b = <<>>
    BY <1>3 DEF GoesOn
  <2> QED
    BY <1>3, <2>1 DEF Fresh
<1> QED
  BY <1>1, <1>2, <1>3

LEMMA QuietSteps ==
    ASSUME TypeOK, OfflineIsQuiet, SessionStep \/ ServerStep \/ UserStep
    PROVE  /\ UNCHANGED <<newuserlist, newtopic, newmessage, newprivate, rows, topic, arrived,
                          muddled, echoed>>
           /\ \/ /\ cut' = cut
                 /\ \/ coming' = coming
                    \/ coming = <<>> /\ (coming' = <<>> \/ Fresh(coming'))
              \/ /\ coming' = <<>>
                 /\ "list" \notin cut' => newuserlist = <<>>
                 /\ "topic" \notin cut' => newtopic = <<>>
                 /\ "message" \notin cut' => newmessage = <<>>
                 /\ "private" \notin cut' => newprivate = <<>>
<1>1. CASE SessionStep
  BY <1>1, SessionSteps
<1>2. CASE ServerStep
  BY <1>2, ServerSteps
<1>3. CASE UserStep
  BY <1>3, UserSteps
<1> QED
  BY <1>1, <1>2, <1>3

LEMMA QuietGoesOn ==
    ASSUME TypeOK, OfflineIsQuiet, PrivateGoesOn, TopicGoesOn, MessageGoesOn,
           SessionStep \/ ServerStep \/ UserStep
    PROVE  PrivateGoesOn' /\ TopicGoesOn' /\ MessageGoesOn'
<1>1. ASSUME "private" \notin cut'
      PROVE  GoesOn(newprivate, coming', PrivateCommands)
  <2>1. "private" \notin cut => GoesOn(newprivate, coming, PrivateCommands)
    BY DEF PrivateGoesOn
  <2>2. \/ /\ GoesOn(newprivate, coming, PrivateCommands)
           /\ \/ coming' = coming
              \/ coming = <<>> /\ (coming' = <<>> \/ Fresh(coming'))
        \/ newprivate = <<>> /\ coming' = <<>>
    BY <1>1, <2>1, QuietSteps
  <2>3. PrivateCommands \in Kinds
    BY CommandsDiffer
  <2> QED
    BY <2>2, <2>3, QuietBuffer
<1>2. ASSUME "topic" \notin cut'
      PROVE  GoesOn(newtopic, coming', {"ChatTopic"})
  <2>1. "topic" \notin cut => GoesOn(newtopic, coming, {"ChatTopic"})
    BY DEF TopicGoesOn
  <2>2. \/ /\ GoesOn(newtopic, coming, {"ChatTopic"})
           /\ \/ coming' = coming
              \/ coming = <<>> /\ (coming' = <<>> \/ Fresh(coming'))
        \/ newtopic = <<>> /\ coming' = <<>>
    BY <1>2, <2>1, QuietSteps
  <2>3. {"ChatTopic"} \in Kinds
    BY CommandsDiffer
  <2> QED
    BY <2>2, <2>3, QuietBuffer
<1>3. ASSUME "message" \notin cut', ~echoed
      PROVE  GoesOn(newmessage, coming', ChannelCommands)
  <2>1. "message" \notin cut => GoesOn(newmessage, coming, ChannelCommands)
    BY <1>3 DEF MessageGoesOn
  <2>2. \/ /\ GoesOn(newmessage, coming, ChannelCommands)
           /\ \/ coming' = coming
              \/ coming = <<>> /\ (coming' = <<>> \/ Fresh(coming'))
        \/ newmessage = <<>> /\ coming' = <<>>
    BY <1>3, <2>1, QuietSteps
  <2>3. ChannelCommands \in Kinds
    BY CommandsDiffer
  <2> QED
    BY <2>2, <2>3, QuietBuffer
<1>4. newprivate' = newprivate /\ newtopic' = newtopic /\ newmessage' = newmessage
      /\ echoed' = echoed
  BY QuietSteps
<1>5. PrivateGoesOn'
  BY <1>1, <1>4 DEF PrivateGoesOn
<1>6. TopicGoesOn'
  BY <1>2, <1>4 DEF TopicGoesOn
<1>7. MessageGoesOn'
  BY <1>3, <1>4 DEF MessageGoesOn
<1> QED
  BY <1>5, <1>6, <1>7

\* What the user types is not among what the others say, and is shown once.
LEMMA QuietShows ==
    ASSUME TypeOK, OfflineIsQuiet, MuddledShown, OthersHeard, WhispersHeard, TopicIsLast,
           OwnOnce, SessionStep \/ ServerStep \/ UserStep
    PROVE  MuddledShown' /\ OthersHeard' /\ WhispersHeard' /\ TopicIsLast' /\ OwnOnce'
<1>1. UNCHANGED <<topic, arrived, echoed, muddled>>
  BY QuietSteps
<1> DEFINE but == muddled.heard
           also == muddled.whispered
<1>2. /\ MuddledShown'
      /\ LinesOf(heard', but) = LinesOf(heard, but)
      /\ LinesOf(whispered', also) = LinesOf(whispered, also)
      /\ OwnLinesOf(heard') = Lines(typed')
  <2>1. CASE UNCHANGED <<heard, whispered, typed>>
    BY <1>1, <2>1 DEF OwnOnce, MuddledShown
  <2>2. ASSUME NEW t \in Texts, t.from = Me, heard' = Append(heard, Line(Whole(t))),
               typed' = Append(typed, t), whispered' = whispered
        PROVE  /\ MuddledShown'
               /\ LinesOf(heard', but) = LinesOf(heard, but)
               /\ LinesOf(whispered', also) = LinesOf(whispered, also)
               /\ OwnLinesOf(heard') = Lines(typed')
    <3>1. PICK l : l = Line(Whole(t))
      OBVIOUS
    <3>2. l \in LineSet /\ l.from = Me
      BY <2>2, <3>1, LineOfWhole
    <3>3. /\ LinesOf(heard', but) = LinesOf(heard, but)
          /\ OwnLinesOf(heard') = Append(OwnLinesOf(heard), l)
      <4>1. heard \in Seq(LineSet) /\ but \subseteq 1..Len(heard)
        BY DEF TypeOK, MuddledShown
      <4>2. LinesOf(Append(heard, l), but) = LinesOf(heard, but)
        BY <3>2, <4>1, LinesOfAppend
      <4>3. OwnLinesOf(Append(heard, l)) = Append(OwnLinesOf(heard), l)
        BY <3>2, <4>1, OwnLinesOfAppend
      <4> QED
        BY <2>2, <3>1, <4>2, <4>3
    <3>4. Lines(typed') = Append(Lines(typed), l)
      BY <2>2, <3>1, LinesAppend DEF TypeOK
    <3>5. MuddledShown'
      BY <1>1, <2>2 DEF MuddledShown, TypeOK
    <3> QED
      BY <2>2, <3>3, <3>4, <3>5 DEF OwnOnce
  <2>3. ASSUME NEW t \in Texts, t.from = Me, whispered' = Append(whispered, Line(Whole(t))),
               UNCHANGED <<heard, typed>>
        PROVE  /\ MuddledShown'
               /\ LinesOf(heard', but) = LinesOf(heard, but)
               /\ LinesOf(whispered', also) = LinesOf(whispered, also)
               /\ OwnLinesOf(heard') = Lines(typed')
    <3>1. PICK l : l = Line(Whole(t))
      OBVIOUS
    <3>2. l \in LineSet /\ l.from = Me
      BY <2>3, <3>1, LineOfWhole
    <3>3. LinesOf(whispered', also) = LinesOf(whispered, also)
      BY <2>3, <3>1, <3>2, LinesOfAppend DEF TypeOK, MuddledShown
    <3>5. MuddledShown'
      BY <1>1, <2>3 DEF MuddledShown, TypeOK
    <3> QED
      BY <2>3, <3>3, <3>5 DEF OwnOnce
  <2>4. \/ UNCHANGED <<heard, whispered, typed>>
        \/ \E t \in Texts :
              /\ t.from = Me
              /\ \/ /\ heard' = Append(heard, Line(Whole(t))) /\ typed' = Append(typed, t)
                    /\ whispered' = whispered
                 \/ /\ whispered' = Append(whispered, Line(Whole(t)))
                    /\ UNCHANGED <<heard, typed>>
    <3>1. CASE SessionStep
      BY <3>1, SessionSteps
    <3>2. CASE ServerStep
      BY <3>2, ServerSteps
    <3>3. CASE UserStep
      BY <3>3, UserSteps
    <3> QED
      BY <3>1, <3>2, <3>3
  <2> QED
    BY <2>1, <2>2, <2>3, <2>4
<1>3. OthersHeard'
  BY <1>1, <1>2 DEF OthersHeard
<1>4. WhispersHeard'
  BY <1>1, <1>2 DEF WhispersHeard
<1>5. TopicIsLast'
  BY <1>1 DEF TopicIsLast
<1>6. OwnOnce'
  BY <1>2 DEF OwnOnce
<1> QED
  BY <1>2, <1>3, <1>4, <1>5, <1>6

\* A packet of a text: the part of the history it makes.
LEMMA TextArrives ==
    ASSUME TypeOK, IsText(coming), NEW b, Arrive(Head(coming), b)
    PROVE  LET p == Head(coming)
           IN  /\ arrived' \in Seq(Texts) /\ cut' \in SUBSET Buffers
               /\ \A c : c # b => (c \in cut' <=> c \in cut)
               /\ p.seq # 1 => arrived' = arrived /\ cut' = cut
               /\ p.seq = 1 => /\ b \notin cut => arrived' = Append(arrived, p.text)
                               /\ b \in cut => arrived' = arrived
               /\ p.com \notin ChannelCommands =>
                      TextsOf(arrived', ChannelCommands) = TextsOf(arrived, ChannelCommands)
               /\ p.com \notin PrivateCommands =>
                      TextsOf(arrived', PrivateCommands) = TextsOf(arrived, PrivateCommands)
               /\ p.com # "ChatTopic" => TopicsOf(arrived') = TopicsOf(arrived)
<1>1. PICK p, t : p = Head(coming) /\ t = p.text
  OBVIOUS
<1>2. t \in Texts /\ p.com = t.com
  BY <1>1, PartReceived
<1>3. arrived \in Seq(Texts) /\ cut \in SUBSET Buffers
  BY DEF TypeOK
<1>4. CASE p.seq = 1 /\ b \notin cut
  <2>1. arrived' = Append(arrived, t) /\ cut' = cut \ {b}
    BY <1>1, <1>4 DEF Arrive
  <2>2. t.com \notin ChannelCommands =>
            TextsOf(arrived', ChannelCommands) = TextsOf(arrived, ChannelCommands)
    BY <1>2, <1>3, <2>1, TextsOfAppend
  <2>3. t.com \notin PrivateCommands =>
            TextsOf(arrived', PrivateCommands) = TextsOf(arrived, PrivateCommands)
    BY <1>2, <1>3, <2>1, TextsOfAppend
  <2>4. arrived' \in Seq(Texts)
    BY <1>2, <1>3, <2>1
  <2>5. t.com # "ChatTopic" => TopicsOf(arrived') = TopicsOf(arrived)
    BY <1>2, <1>3, <2>1, TopicsAppend
  <2> QED
    BY <1>1, <1>2, <1>3, <1>4, <2>1, <2>2, <2>3, <2>4, <2>5
<1>5. CASE p.seq # 1 \/ b \in cut
  <2>1. arrived' = arrived /\ cut' = IF p.seq = 1 THEN cut \ {b} ELSE cut
    BY <1>1, <1>5 DEF Arrive
  <2> QED
    BY <1>1, <1>3, <1>5, <2>1
<1> QED
  BY <1>4, <1>5

\* The text its last packet completes leaves nothing in a buffer that is emptied.
LEMMA NothingGoesOn ==
    ASSUME NEW c, IsText(c), Head(c).seq = 1, NEW coms
    PROVE  GoesOn(<<>>, Tail(c), coms)
  BY PartReceived DEF GoesOn

\* Of the last topic that arrived, the whole is shown.
LEMMA TopicStep ==
    ASSUME TypeOK, OfflineIsQuiet, TextInv, ChatTopic
    PROVE  TypeOK' /\ OfflineIsQuiet' /\ TextInv'
<1>1. PICK p, t, w : p = Head(coming) /\ t = p.text /\ w = Append(newtopic, p)
  OBVIOUS
<1>2. /\ Receive({"ChatTopic"})
      /\ newtopic' = IF p.seq = 1 THEN <<>> ELSE w
      /\ topic' = IF p.seq = 1 THEN w ELSE topic
      /\ Arrive(p, "topic") /\ MuddleTopic(p)
      /\ UNCHANGED <<newuserlist, newmessage, newprivate, rows, heard, whispered, listed, echoed>>
  BY <1>1 DEF ChatTopic
<1>3. /\ p.com = "ChatTopic" /\ coming' = Tail(coming) /\ IsText(coming)
      /\ coming' = <<>> \/ IsText(coming')
      /\ OfflineIsQuiet'
      /\ UNCHANGED <<online, net, admin, granted, outbox, members, typed, items, sessions>>
  <2>1. {"ChatTopic"} \in SUBSET AllCommands
    BY DEF AllCommands
  <2> QED
    BY <1>1, <1>2, <2>1, ReceiveSteps
<1>4. /\ t \in Texts /\ p \in TextPart /\ t.com = "ChatTopic"
      /\ p.com \notin ChannelCommands /\ p.com \notin PrivateCommands
  BY <1>1, <1>3, PartReceived, CommandsDiffer
<1>5. newtopic' \in Seq(TextPart) /\ topic' \in Seq(TextPart) /\ arrived' \in Seq(Texts)
      /\ cut' \in SUBSET Buffers
  <2>1. w \in Seq(TextPart) /\ newtopic \in Seq(TextPart) /\ topic \in Seq(TextPart)
    BY <1>1, <1>4 DEF TypeOK
  <2>2. arrived' \in Seq(Texts) /\ cut' \in SUBSET Buffers
    BY <1>1, <1>2, <1>3, TextArrives
  <2>3. <<>> \in Seq(TextPart)
    OBVIOUS
  <2> QED
    BY <1>2, <2>1, <2>2, <2>3, Zenon
<1>6. /\ muddled' \in [heard : SUBSET Nat, whispered : SUBSET Nat, topic : BOOLEAN]
      /\ muddled'.heard = muddled.heard /\ muddled'.whispered = muddled.whispered
      /\ p.seq # 1 => muddled' = muddled
      /\ p.seq = 1 /\ "topic" \in cut => muddled'.topic = TRUE
  <2>1. muddled \in [heard : SUBSET Nat, whispered : SUBSET Nat, topic : BOOLEAN]
    BY DEF TypeOK
  <2>2. CASE p.seq # 1
    BY <1>2, <2>1, <2>2 DEF MuddleTopic
  <2>3. CASE p.seq = 1 /\ "topic" \in cut
    <3>1. muddled' = [muddled EXCEPT !.topic = TRUE]
      BY <1>2, <2>3 DEF MuddleTopic
    <3> QED
      BY <2>1, <2>3, <3>1
  <2>4. CASE p.seq = 1 /\ "topic" \notin cut
    <3>1. muddled' = [muddled EXCEPT !.topic = FALSE]
      <4>1. ("topic" \in cut) = FALSE
        BY <2>4
      <4> QED
        BY <1>2, <2>4, <4>1, Zenon DEF MuddleTopic
    <3> QED
      BY <2>1, <2>4, <3>1
  <2> QED
    BY <2>2, <2>3, <2>4
<1>7. TypeOK'
  BY <1>2, <1>3, <1>5, <1>6, Zenon DEF TypeOK
<1>8. PrivateGoesOn'
  <2>1. ASSUME "private" \notin cut'
        PROVE  GoesOn(newprivate, Tail(coming), PrivateCommands)
    <3>1. "private" \notin cut
      BY <1>1, <1>2, <1>3, <2>1, TextArrives
    <3> QED
      BY <1>1, <1>3, <1>4, <3>1, BufferOfOtherKind DEF TextInv, PrivateGoesOn
  <2> QED
    BY <1>2, <1>3, <2>1 DEF PrivateGoesOn
<1>9. MessageGoesOn'
  <2>1. ASSUME "message" \notin cut', ~echoed
        PROVE  GoesOn(newmessage, Tail(coming), ChannelCommands)
    <3>1. "message" \notin cut
      BY <1>1, <1>2, <1>3, <2>1, TextArrives
    <3> QED
      BY <1>1, <1>3, <1>4, <2>1, <3>1, BufferOfOtherKind DEF TextInv, MessageGoesOn
  <2> QED
    BY <1>2, <1>3, <2>1 DEF MessageGoesOn
<1>10. ASSUME "topic" \notin cut
       PROVE  /\ p.seq = 1 => w = Whole(t)
              /\ p.seq # 1 => GoesOn(w, Tail(coming), {"ChatTopic"})
  <2>1. GoesOn(newtopic, coming, {"ChatTopic"}) /\ Head(coming).com \in {"ChatTopic"}
    BY <1>1, <1>3, <1>10 DEF TextInv, TopicGoesOn
  <2> QED
    BY <1>1, <1>3, <2>1, BufferReceives
<1>11. TopicGoesOn'
  <2>1. CASE p.seq = 1
    BY <1>1, <1>2, <1>3, <2>1, NothingGoesOn DEF TopicGoesOn
  <2>2. CASE p.seq # 1
    <3>1. cut' = cut
      BY <1>1, <1>2, <1>3, <2>2, TextArrives
    <3> QED
      BY <1>2, <1>3, <1>10, <2>2, <3>1 DEF TopicGoesOn
  <2> QED
    BY <2>1, <2>2
<1>12. MuddledShown' /\ OthersHeard' /\ WhispersHeard' /\ OwnOnce'
  <2>1. /\ TextsOf(arrived', ChannelCommands) = TextsOf(arrived, ChannelCommands)
        /\ TextsOf(arrived', PrivateCommands) = TextsOf(arrived, PrivateCommands)
    BY <1>1, <1>2, <1>3, <1>4, TextArrives
  <2> QED
    BY <1>2, <1>3, <1>6, <2>1
       DEF TextInv, MuddledShown, OthersHeard, WhispersHeard, OwnOnce
<1>13. TopicIsLast'
  <2>1. CASE p.seq # 1
    <3>1. arrived' = arrived /\ topic' = topic /\ muddled' = muddled
      BY <1>1, <1>2, <1>3, <1>6, <2>1, TextArrives
    <3> QED
      BY <3>1 DEF TextInv, TopicIsLast
  <2>2. CASE p.seq = 1 /\ "topic" \in cut
    BY <1>6, <2>2 DEF TopicIsLast
  <2>3. CASE p.seq = 1 /\ "topic" \notin cut
    <3>1. arrived' = Append(arrived, t) /\ arrived \in Seq(Texts)
      BY <1>1, <1>2, <1>3, <2>3, TextArrives DEF TypeOK
    <3>2. TopicsOf(arrived) \in Seq(Texts) /\ TopicsOf(arrived') = Append(TopicsOf(arrived), t)
      BY <1>4, <3>1, TopicsAppend
    <3>3. PICK a, b : a = TopicsOf(arrived) /\ b = TopicsOf(arrived')
      OBVIOUS
    <3>4. b # <<>> /\ b[Len(b)] = t
      BY <1>4, <3>2, <3>3
    <3>5. topic' = Whole(t)
      BY <1>2, <1>10, <2>3
    <3> QED
      BY <3>3, <3>4, <3>5 DEF TopicIsLast
  <2> QED
    BY <2>1, <2>2, <2>3
<1> QED
  BY <1>3, <1>7, <1>8, <1>9, <1>11, <1>12, <1>13 DEF TextInv

\* A text that is whole joins what was shown, and what arrived.
LEMMA WholeIsShown ==
    ASSUME NEW lines \in Seq(LineSet), NEW but, but \subseteq 1..Len(lines),
           NEW texts \in Seq(Texts), NEW t \in Texts, NEW coms,
           t.com \in coms, t.from # Me, LinesOf(lines, but) = Lines(TextsOf(texts, coms))
    PROVE  LinesOf(Append(lines, Line(Whole(t))), but) = Lines(TextsOf(Append(texts, t), coms))
<1>1. PICK l : l = Line(Whole(t))
  OBVIOUS
<1>2. l \in LineSet /\ l.from # Me
  BY <1>1, LineOfWhole
<1>3. LinesOf(Append(lines, l), but) = Append(LinesOf(lines, but), l)
  BY <1>2, LinesOfAppend
<1>4. TextsOf(texts, coms) \in Seq(Texts)
      /\ TextsOf(Append(texts, t), coms) = Append(TextsOf(texts, coms), t)
  BY TextsOfAppend
<1>5. Lines(Append(TextsOf(texts, coms), t)) = Append(Lines(TextsOf(texts, coms)), l)
  BY <1>1, <1>4, LinesAppend
<1> QED
  BY <1>1, <1>3, <1>4, <1>5

\* What Muddle leaves of the history, in either of its two places.
LEMMA MuddleFacts ==
    ASSUME muddled \in [heard : SUBSET Nat, whispered : SUBSET Nat, topic : BOOLEAN],
           NEW isShown \in BOOLEAN, NEW b, NEW lines, Len(lines) \in Nat
    PROVE  /\ Muddle(isShown, b, "heard", lines) =>
                  /\ muddled' \in [heard : SUBSET Nat, whispered : SUBSET Nat, topic : BOOLEAN]
                  /\ muddled'.whispered = muddled.whispered /\ muddled'.topic = muddled.topic
                  /\ isShown /\ b \in cut =>
                         muddled'.heard = muddled.heard \cup {Len(lines) + 1}
                  /\ ~isShown \/ b \notin cut => muddled'.heard = muddled.heard
           /\ Muddle(isShown, b, "whispered", lines) =>
                  /\ muddled' \in [heard : SUBSET Nat, whispered : SUBSET Nat, topic : BOOLEAN]
                  /\ muddled'.heard = muddled.heard /\ muddled'.topic = muddled.topic
                  /\ isShown /\ b \in cut =>
                         muddled'.whispered = muddled.whispered \cup {Len(lines) + 1}
                  /\ ~isShown \/ b \notin cut => muddled'.whispered = muddled.whispered
<1>1. CASE isShown /\ b \in cut
  BY <1>1 DEF Muddle
<1>2. CASE ~(isShown /\ b \in cut)
  BY <1>2 DEF Muddle
<1> QED
  BY <1>1, <1>2

\* A text of the channel; the user's own, when it comes back, is not shown again.
LEMMA MessageStep ==
    ASSUME TypeOK, OfflineIsQuiet, TextInv, ChatMessage
    PROVE  TypeOK' /\ OfflineIsQuiet' /\ TextInv'
<1>1. PICK p, t, w : p = Head(coming) /\ t = p.text /\ w = Append(newmessage, p)
  OBVIOUS
<1>2. PICK own \in BOOLEAN : own = (p.seq = 1 /\ w[1].text.from = Me)
  OBVIOUS
<1>3. PICK isShown \in BOOLEAN : isShown = (p.seq = 1 /\ ~own)
  OBVIOUS
<1>4. /\ Receive(ChannelCommands)
      /\ newmessage' = IF isShown THEN <<>> ELSE w
      /\ heard' = IF isShown THEN Append(heard, Line(w)) ELSE heard
      /\ Arrive(p, "message") /\ Muddle(isShown, "message", "heard", heard)
      /\ UNCHANGED <<newuserlist, newtopic, newprivate, rows, topic, whispered, listed>>
  BY <1>1, <1>2, <1>3 DEF ChatMessage
<1>5. echoed' \in BOOLEAN /\ (~echoed' => ~echoed /\ ~own)
  <2>1. echoed' = (echoed \/ (p.seq = 1 /\ w[1].text.from = Me))
    BY <1>1 DEF ChatMessage
  <2> QED
    BY <1>2, <2>1, Zenon
<1>6. /\ p.com \in ChannelCommands /\ coming' = Tail(coming) /\ IsText(coming)
      /\ coming' = <<>> \/ IsText(coming')
      /\ OfflineIsQuiet'
      /\ UNCHANGED <<online, net, admin, granted, outbox, members, typed, items, sessions>>
  <2>1. ChannelCommands \in SUBSET AllCommands
    BY DEF AllCommands
  <2> QED
    BY <1>1, <1>4, <2>1, ReceiveSteps
<1>7. /\ t \in Texts /\ p \in TextPart /\ t.com \in ChannelCommands
      /\ p.com # "ChatTopic" /\ p.com \notin PrivateCommands
  BY <1>1, <1>6, PartReceived, CommandsDiffer
<1>8. w \in Seq(TextPart) /\ Line(w) \in LineSet /\ Line(w).from = w[1].text.from
  <2>1. newmessage \in Seq(TextPart)
    BY DEF TypeOK
  <2> QED
    BY <1>1, <1>7, <2>1, LineType
<1>9. newmessage' \in Seq(TextPart) /\ heard' \in Seq(LineSet) /\ arrived' \in Seq(Texts)
      /\ cut' \in SUBSET Buffers
  <2>1. arrived' \in Seq(Texts) /\ cut' \in SUBSET Buffers
    BY <1>1, <1>4, <1>6, TextArrives
  <2>2. <<>> \in Seq(TextPart)
    OBVIOUS
  <2>3. Append(heard, Line(w)) \in Seq(LineSet) /\ heard \in Seq(LineSet)
    BY <1>8 DEF TypeOK
  <2> QED
    BY <1>4, <1>8, <2>1, <2>2, <2>3, Zenon
<1>10. /\ muddled' \in [heard : SUBSET Nat, whispered : SUBSET Nat, topic : BOOLEAN]
       /\ muddled'.whispered = muddled.whispered /\ muddled'.topic = muddled.topic
       /\ isShown /\ "message" \in cut => muddled'.heard = muddled.heard \cup {Len(heard) + 1}
       /\ ~isShown \/ "message" \notin cut => muddled'.heard = muddled.heard
  <2>1. /\ muddled \in [heard : SUBSET Nat, whispered : SUBSET Nat, topic : BOOLEAN]
        /\ Len(heard) \in Nat
    BY DEF TypeOK
  <2> QED
    BY <1>4, <2>1, MuddleFacts
<1>11. TypeOK'
  BY <1>4, <1>5, <1>6, <1>9, <1>10, Zenon DEF TypeOK
<1>12. PrivateGoesOn'
  <2>1. ASSUME "private" \notin cut'
        PROVE  GoesOn(newprivate, Tail(coming), PrivateCommands)
    <3>1. "private" \notin cut
      BY <1>1, <1>4, <1>6, <2>1, TextArrives
    <3> QED
      BY <1>1, <1>6, <1>7, <3>1, BufferOfOtherKind DEF TextInv, PrivateGoesOn
  <2> QED
    BY <1>4, <1>6, <2>1 DEF PrivateGoesOn
<1>13. TopicGoesOn'
  <2>1. ASSUME "topic" \notin cut'
        PROVE  GoesOn(newtopic, Tail(coming), {"ChatTopic"})
    <3>1. Head(coming).com \notin {"ChatTopic"}
      BY <1>1, <1>7
    <3>2. "topic" \notin cut
      BY <1>1, <1>4, <1>6, <2>1, TextArrives
    <3> QED
      BY <1>6, <3>1, <3>2, BufferOfOtherKind DEF TextInv, TopicGoesOn
  <2> QED
    BY <1>4, <1>6, <2>1 DEF TopicGoesOn
<1>14. ASSUME "message" \notin cut, ~echoed
       PROVE  /\ p.seq = 1 => w = Whole(t)
              /\ p.seq # 1 => GoesOn(w, Tail(coming), ChannelCommands)
  <2>1. GoesOn(newmessage, coming, ChannelCommands) /\ Head(coming).com \in ChannelCommands
    BY <1>1, <1>6, <1>14 DEF TextInv, MessageGoesOn
  <2> QED
    BY <1>1, <1>6, <2>1, BufferReceives
<1>15. MessageGoesOn'
  <2> SUFFICES ASSUME "message" \notin cut', ~echoed, ~own
               PROVE  GoesOn(newmessage', Tail(coming), ChannelCommands)
    BY <1>5, <1>6 DEF MessageGoesOn
  <2>1. CASE p.seq = 1
    BY <1>1, <1>3, <1>4, <1>6, <2>1, NothingGoesOn
  <2>2. CASE p.seq # 1
    <3>1. cut' = cut
      BY <1>1, <1>4, <1>6, <2>2, TextArrives
    <3> QED
      BY <1>3, <1>4, <1>14, <2>2, <3>1
  <2> QED
    BY <2>1, <2>2
<1>16. MuddledShown'
  <2>1. PICK n : n = Len(heard)
    OBVIOUS
  <2>2. n \in Nat /\ muddled.heard \subseteq 1..n /\ muddled.whispered \subseteq 1..Len(whispered)
    BY <2>1 DEF TypeOK, TextInv, MuddledShown
  <2>3. muddled'.heard \subseteq 1..Len(heard')
    <3>1. CASE isShown
      <4>1. Len(heard') = n + 1
        BY <1>4, <2>1, <3>1 DEF TypeOK
      <4> QED
        BY <1>10, <2>1, <2>2, <3>1, <4>1
    <3>2. CASE ~isShown
      BY <1>4, <1>10, <2>1, <2>2, <3>2
    <3> QED
      BY <3>1, <3>2
  <2> QED
    BY <1>4, <1>10, <2>2, <2>3 DEF MuddledShown
<1>17. OthersHeard'
  <2> SUFFICES ASSUME ~echoed, ~own
               PROVE  LinesOf(heard', muddled'.heard) = Lines(TextsOf(arrived', ChannelCommands))
    BY <1>5 DEF OthersHeard
  <2>1. /\ LinesOf(heard, muddled.heard) = Lines(TextsOf(arrived, ChannelCommands))
        /\ muddled.heard \subseteq 1..Len(heard)
        /\ heard \in Seq(LineSet) /\ arrived \in Seq(Texts)
    BY DEF TypeOK, TextInv, MuddledShown, OthersHeard
  <2>2. CASE p.seq # 1
    BY <1>1, <1>3, <1>4, <1>6, <1>10, <2>1, <2>2, TextArrives
  <2>3. CASE p.seq = 1 /\ "message" \notin cut
    <3>1. w = Whole(t) /\ t.from # Me
      BY <1>2, <1>7, <1>14, <2>3, WholeFacts
    <3>2. /\ heard' = Append(heard, Line(Whole(t))) /\ arrived' = Append(arrived, t)
          /\ muddled'.heard = muddled.heard
      BY <1>1, <1>3, <1>4, <1>6, <1>10, <2>3, <3>1, TextArrives
    <3> QED
      BY <1>7, <2>1, <3>1, <3>2, WholeIsShown
  <2>4. CASE p.seq = 1 /\ "message" \in cut
    <3>1. /\ heard' = Append(heard, Line(w)) /\ arrived' = arrived
          /\ muddled'.heard = muddled.heard \cup {Len(heard) + 1}
      BY <1>1, <1>3, <1>4, <1>6, <1>10, <2>4, TextArrives
    <3> QED
      BY <1>8, <2>1, <3>1, LinesOfAppend
  <2> QED
    BY <2>2, <2>3, <2>4
<1>18. OwnOnce'
  <2>1. OwnLinesOf(heard') = OwnLinesOf(heard)
    <3>1. CASE isShown
      <4>1. Line(w).from # Me /\ heard' = Append(heard, Line(w)) /\ heard \in Seq(LineSet)
        BY <1>2, <1>3, <1>4, <1>8, <3>1 DEF TypeOK
      <4> QED
        BY <1>8, <4>1, OwnLinesOfAppend
    <3>2. CASE ~isShown
      BY <1>4, <3>2
    <3> QED
      BY <3>1, <3>2
  <2> QED
    BY <1>6, <2>1 DEF TextInv, OwnOnce
<1>19. WhispersHeard'
  <2>1. TextsOf(arrived', PrivateCommands) = TextsOf(arrived, PrivateCommands)
    BY <1>1, <1>4, <1>6, <1>7, TextArrives
  <2> QED
    BY <1>4, <1>10, <2>1 DEF TextInv, WhispersHeard
<1>20. TopicIsLast'
  <2>1. TopicsOf(arrived') = TopicsOf(arrived)
    BY <1>1, <1>4, <1>6, <1>7, TextArrives
  <2> QED
    BY <1>4, <1>10, <2>1 DEF TextInv, TopicIsLast
<1> QED
  BY <1>6, <1>11, <1>12, <1>13, <1>15, <1>16, <1>17, <1>18, <1>19, <1>20 DEF TextInv

\* A private text, which is never the user's own.
LEMMA PrivateStep ==
    ASSUME TypeOK, OfflineIsQuiet, TextInv, ChatPrivMessage
    PROVE  TypeOK' /\ OfflineIsQuiet' /\ TextInv'
<1>1. PICK p, t, w : p = Head(coming) /\ t = p.text /\ w = Append(newprivate, p)
  OBVIOUS
<1>2. PICK isShown \in BOOLEAN : isShown = (p.seq = 1)
  OBVIOUS
<1>3. /\ Receive(PrivateCommands)
      /\ newprivate' = IF isShown THEN <<>> ELSE w
      /\ whispered' = IF isShown THEN Append(whispered, Line(w)) ELSE whispered
      /\ Arrive(p, "private") /\ Muddle(isShown, "private", "whispered", whispered)
      /\ UNCHANGED <<newuserlist, newtopic, newmessage, rows, topic, heard, listed, echoed>>
  BY <1>1, <1>2 DEF ChatPrivMessage
<1>4. /\ p.com \in PrivateCommands /\ coming' = Tail(coming) /\ IsText(coming)
      /\ coming' = <<>> \/ IsText(coming')
      /\ OfflineIsQuiet'
      /\ UNCHANGED <<online, net, admin, granted, outbox, members, typed, items, sessions>>
  <2>1. PrivateCommands \in SUBSET AllCommands
    BY DEF AllCommands
  <2> QED
    BY <1>1, <1>3, <2>1, ReceiveSteps
<1>5. /\ t \in Texts /\ p \in TextPart /\ t.com = p.com /\ t.com \in PrivateCommands
      /\ p.com # "ChatTopic" /\ p.com \notin ChannelCommands
  BY <1>1, <1>4, PartReceived, CommandsDiffer
<1>6. t.from # Me
  BY <1>1, <1>4, <1>5 DEF IsText
<1>7. w \in Seq(TextPart) /\ Line(w) \in LineSet
  <2>1. newprivate \in Seq(TextPart)
    BY DEF TypeOK
  <2> QED
    BY <1>1, <1>5, <2>1, LineType
<1>8. newprivate' \in Seq(TextPart) /\ whispered' \in Seq(LineSet) /\ arrived' \in Seq(Texts)
      /\ cut' \in SUBSET Buffers
  <2>1. arrived' \in Seq(Texts) /\ cut' \in SUBSET Buffers
    BY <1>1, <1>3, <1>4, TextArrives
  <2>2. <<>> \in Seq(TextPart)
    OBVIOUS
  <2>3. Append(whispered, Line(w)) \in Seq(LineSet) /\ whispered \in Seq(LineSet)
    BY <1>7 DEF TypeOK
  <2> QED
    BY <1>3, <1>7, <2>1, <2>2, <2>3, Zenon
<1>9. /\ muddled' \in [heard : SUBSET Nat, whispered : SUBSET Nat, topic : BOOLEAN]
      /\ muddled'.heard = muddled.heard /\ muddled'.topic = muddled.topic
      /\ isShown /\ "private" \in cut =>
             muddled'.whispered = muddled.whispered \cup {Len(whispered) + 1}
      /\ ~isShown \/ "private" \notin cut => muddled'.whispered = muddled.whispered
  <2>1. /\ muddled \in [heard : SUBSET Nat, whispered : SUBSET Nat, topic : BOOLEAN]
        /\ Len(whispered) \in Nat
    BY DEF TypeOK
  <2> QED
    BY <1>3, <2>1, MuddleFacts
<1>10. TypeOK'
  BY <1>3, <1>4, <1>8, <1>9, Zenon DEF TypeOK
<1>11. TopicGoesOn'
  <2>1. ASSUME "topic" \notin cut'
        PROVE  GoesOn(newtopic, Tail(coming), {"ChatTopic"})
    <3>1. Head(coming).com \notin {"ChatTopic"}
      BY <1>1, <1>5
    <3>2. "topic" \notin cut
      BY <1>1, <1>3, <1>4, <2>1, TextArrives
    <3> QED
      BY <1>4, <3>1, <3>2, BufferOfOtherKind DEF TextInv, TopicGoesOn
  <2> QED
    BY <1>3, <1>4, <2>1 DEF TopicGoesOn
<1>12. MessageGoesOn'
  <2>1. ASSUME "message" \notin cut', ~echoed
        PROVE  GoesOn(newmessage, Tail(coming), ChannelCommands)
    <3>1. "message" \notin cut
      BY <1>1, <1>3, <1>4, <2>1, TextArrives
    <3> QED
      BY <1>1, <1>4, <1>5, <2>1, <3>1, BufferOfOtherKind DEF TextInv, MessageGoesOn
  <2> QED
    BY <1>3, <1>4, <2>1 DEF MessageGoesOn
<1>13. ASSUME "private" \notin cut
       PROVE  /\ p.seq = 1 => w = Whole(t)
              /\ p.seq # 1 => GoesOn(w, Tail(coming), PrivateCommands)
  <2>1. GoesOn(newprivate, coming, PrivateCommands) /\ Head(coming).com \in PrivateCommands
    BY <1>1, <1>4, <1>13 DEF TextInv, PrivateGoesOn
  <2> QED
    BY <1>1, <1>4, <2>1, BufferReceives
<1>14. PrivateGoesOn'
  <2>1. CASE p.seq = 1
    BY <1>1, <1>2, <1>3, <1>4, <2>1, NothingGoesOn DEF PrivateGoesOn
  <2>2. CASE p.seq # 1
    <3>1. cut' = cut
      BY <1>1, <1>3, <1>4, <2>2, TextArrives
    <3> QED
      BY <1>2, <1>3, <1>4, <1>13, <2>2, <3>1 DEF PrivateGoesOn
  <2> QED
    BY <2>1, <2>2
<1>15. MuddledShown'
  <2>1. PICK n : n = Len(whispered)
    OBVIOUS
  <2>2. n \in Nat /\ muddled.whispered \subseteq 1..n /\ muddled.heard \subseteq 1..Len(heard)
    BY <2>1 DEF TypeOK, TextInv, MuddledShown
  <2>3. muddled'.whispered \subseteq 1..Len(whispered')
    <3>1. CASE isShown
      <4>1. Len(whispered') = n + 1
        BY <1>3, <2>1, <3>1 DEF TypeOK
      <4> QED
        BY <1>9, <2>1, <2>2, <3>1, <4>1
    <3>2. CASE ~isShown
      BY <1>3, <1>9, <2>1, <2>2, <3>2
    <3> QED
      BY <3>1, <3>2
  <2> QED
    BY <1>3, <1>9, <2>2, <2>3 DEF MuddledShown
<1>16. WhispersHeard'
  <2>1. /\ LinesOf(whispered, muddled.whispered) = Lines(TextsOf(arrived, PrivateCommands))
        /\ muddled.whispered \subseteq 1..Len(whispered)
        /\ whispered \in Seq(LineSet) /\ arrived \in Seq(Texts)
    BY DEF TypeOK, TextInv, MuddledShown, WhispersHeard
  <2>2. CASE p.seq # 1
    BY <1>1, <1>2, <1>3, <1>4, <1>9, <2>1, <2>2, TextArrives DEF WhispersHeard
  <2>3. CASE p.seq = 1 /\ "private" \notin cut
    <3>1. /\ whispered' = Append(whispered, Line(Whole(t))) /\ arrived' = Append(arrived, t)
          /\ muddled'.whispered = muddled.whispered
      BY <1>1, <1>2, <1>3, <1>4, <1>9, <1>13, <2>3, TextArrives
    <3> QED
      BY <1>5, <1>6, <2>1, <3>1, WholeIsShown DEF WhispersHeard
  <2>4. CASE p.seq = 1 /\ "private" \in cut
    <3>1. /\ whispered' = Append(whispered, Line(w)) /\ arrived' = arrived
          /\ muddled'.whispered = muddled.whispered \cup {Len(whispered) + 1}
      BY <1>1, <1>2, <1>3, <1>4, <1>9, <2>4, TextArrives
    <3> QED
      BY <1>7, <2>1, <3>1, LinesOfAppend DEF WhispersHeard
  <2> QED
    BY <2>2, <2>3, <2>4
<1>17. OthersHeard' /\ OwnOnce'
  <2>1. TextsOf(arrived', ChannelCommands) = TextsOf(arrived, ChannelCommands)
    BY <1>1, <1>3, <1>4, <1>5, TextArrives
  <2> QED
    BY <1>3, <1>4, <1>9, <2>1 DEF TextInv, OthersHeard, OwnOnce
<1>18. TopicIsLast'
  <2>1. TopicsOf(arrived') = TopicsOf(arrived)
    BY <1>1, <1>3, <1>4, <1>5, TextArrives
  <2> QED
    BY <1>3, <1>9, <2>1 DEF TextInv, TopicIsLast
<1> QED
  BY <1>4, <1>10, <1>11, <1>12, <1>14, <1>15, <1>16, <1>17, <1>18 DEF TextInv
--------------------------------------------------------------------------------
(* Lists, joins and leaves.                                                 *)

\* A list of users, a join or a leave is no text: no buffer of texts goes on with it.
LEMMA OtherBuffers ==
    ASSUME TextInv, coming # <<>>, Head(coming).com \notin AllCommands,
           coming' = <<>> \/ Head(coming').com \notin AllCommands,
           \A b \in {"topic", "message", "private"} : b \in cut => b \in cut',
           UNCHANGED <<newtopic, newmessage, newprivate, topic, heard, whispered, arrived, muddled,
                       typed, echoed>>
    PROVE  TextInv'
<1>1. ASSUME NEW coms \in SUBSET AllCommands, NEW b, GoesOn(b, coming, coms)
      PROVE  GoesOn(b, coming', coms)
  <2>1. Head(coming).com \notin coms /\ (coming' = <<>> \/ Head(coming').com \notin coms)
    OBVIOUS
  <2> QED
    BY <1>1, <2>1 DEF GoesOn
<1>2. /\ PrivateCommands \in SUBSET AllCommands /\ ChannelCommands \in SUBSET AllCommands
      /\ {"ChatTopic"} \in SUBSET AllCommands
  BY DEF AllCommands
<1>3. "private" \notin cut => GoesOn(newprivate, coming', PrivateCommands)
  BY <1>1, <1>2, Zenon DEF TextInv, PrivateGoesOn
<1>4. "topic" \notin cut => GoesOn(newtopic, coming', {"ChatTopic"})
  BY <1>1, <1>2, Zenon DEF TextInv, TopicGoesOn
<1>5. "message" \notin cut /\ ~echoed => GoesOn(newmessage, coming', ChannelCommands)
  BY <1>1, <1>2, Zenon DEF TextInv, MessageGoesOn
<1>6. PrivateGoesOn' /\ TopicGoesOn' /\ MessageGoesOn'
  BY <1>3, <1>4, <1>5 DEF PrivateGoesOn, TopicGoesOn, MessageGoesOn
<1> QED
  BY <1>6 DEF TextInv, MuddledShown, OthersHeard, WhispersHeard, TopicIsLast, OwnOnce

LEMMA ListStep ==
    ASSUME TypeOK, OfflineIsQuiet, TextInv, ChatUserList
    PROVE  TypeOK' /\ OfflineIsQuiet' /\ TextInv'
<1>1. PICK p, w : p = Head(coming) /\ w = newuserlist \o p.names
  OBVIOUS
<1>2. /\ Receive({"ChatUserList"})
      /\ \/ p.seq = 1 /\ rows' = w /\ newuserlist' = <<>> /\ cut' = cut \ {"list"}
         \/ p.seq # 1 /\ newuserlist' = w /\ UNCHANGED <<rows, cut>>
      /\ listed' \in BOOLEAN
      /\ UNCHANGED <<newtopic, newmessage, newprivate, topic, heard, whispered, arrived, muddled,
                     echoed>>
  <2>1. CASE p.seq = 1
    BY <1>1, <2>1, Zenon DEF ChatUserList, SetUserList
  <2>2. CASE p.seq # 1
    BY <1>1, <2>2, Zenon DEF ChatUserList, TypeOK
  <2> QED
    BY <2>1, <2>2
<1>3. /\ coming # <<>> /\ p.com = "ChatUserList" /\ coming' = Tail(coming) /\ IsNames(coming)
      /\ OfflineIsQuiet'
      /\ UNCHANGED <<online, net, admin, granted, outbox, members, typed, items, sessions>>
  BY <1>1, <1>2, ReceiveSteps
<1>4. /\ p.names \in Seq(Users)
      /\ coming' = <<>> \/ IsNames(coming')
  <2>1. CASE coming = <<ListPart(p.names, 1)>>
    BY <1>1, <1>3, <2>1 DEF IsNames
  <2>2. CASE /\ coming = <<ListPart(p.names, 2), ListPart(coming[2].names, 1)>>
             /\ coming[2].names \in Seq(Users)
    <3>1. PICK names : names = coming[2].names
      OBVIOUS
    <3>2. coming' = <<ListPart(names, 1)>> /\ names \in Seq(Users)
      <4>1. PICK a, b : a = ListPart(p.names, 2) /\ b = ListPart(names, 1)
        OBVIOUS
      <4>2. coming = <<a, b>>
        BY <2>2, <3>1, <4>1
      <4>3. Tail(<<a, b>>) = <<b>>
        OBVIOUS
      <4> QED
        BY <1>3, <2>2, <3>1, <4>1, <4>2, <4>3
    <3>3. Head(coming') = ListPart(names, 1)
      BY <3>2
    <3>4. Head(coming').com = "ChatUserList" /\ Head(coming').names = names
      BY <3>3 DEF ListPart
    <3>5. IsNames(coming')
      BY <3>2, <3>4 DEF IsNames
    <3> QED
      BY <1>1, <1>3, <3>5 DEF IsNames
  <2> QED
    BY <1>1, <1>3, <2>1, <2>2 DEF IsNames
<1>5. newuserlist' \in Seq(Users) /\ rows' \in Seq(Users) /\ cut' \in SUBSET Buffers
  <2>1. newuserlist \in Seq(Users) /\ rows \in Seq(Users) /\ w \in Seq(Users)
    BY <1>1, <1>4 DEF TypeOK
  <2>2. <<>> \in Seq(Users)
    OBVIOUS
  <2>3. cut' \in SUBSET Buffers
    BY <1>2 DEF TypeOK
  <2> QED
    BY <1>2, <2>1, <2>2, <2>3, Zenon
<1>6. TypeOK'
  BY <1>2, <1>3, <1>4, <1>5, Zenon DEF TypeOK
<1>7. TextInv'
  <2>1. coming' = <<>> \/ Head(coming').com \notin AllCommands
    BY <1>4, CommandsDiffer DEF IsNames
  <2>2. Head(coming).com \notin AllCommands
    BY <1>1, <1>3, CommandsDiffer
  <2>3. \A b \in {"topic", "message", "private"} : b \in cut => b \in cut'
    BY <1>2
  <2> QED
    BY <1>2, <1>3, <2>1, <2>2, <2>3, OtherBuffers
<1> QED
  BY <1>3, <1>6, <1>7

\* A list without one of its elements.
LEMMA RemoveAtFacts ==
    ASSUME NEW S, NEW s \in Seq(S), NEW i \in 1..Len(s)
    PROVE  /\ RemoveAt(s, i) \in Seq(S) /\ Len(RemoveAt(s, i)) = Len(s) - 1
           /\ \A k \in 1..(Len(s) - 1) : RemoveAt(s, i)[k] = IF k < i THEN s[k] ELSE s[k + 1]
<1>1. PICK n, a, b : n = Len(s) /\ a = SubSeq(s, 1, i - 1) /\ b = SubSeq(s, i + 1, n)
  OBVIOUS
<1>2. /\ n \in Nat /\ i \in Nat /\ 1 <= i /\ i <= n
      /\ a \in Seq(S) /\ Len(a) = i - 1 /\ \A k \in 1..(i - 1) : a[k] = s[k]
      /\ b \in Seq(S) /\ Len(b) = n - i
  <2>1. n \in Nat /\ i \in Nat /\ 1 <= i /\ i <= n
    BY <1>1
  <2>2. a \in Seq(S) /\ Len(a) = i - 1 /\ \A k \in 1..(i - 1) : a[k] = s[k]
    BY <1>1, <2>1
  <2>3. b \in Seq(S) /\ Len(b) = n - i
    <3>1. \A k \in (i + 1)..n : s[k] \in S
      BY <1>1, <2>1
    <3>2. n - (i + 1) + 1 = n - i /\ n - i \in Nat
      BY <2>1
    <3> QED
      BY <1>1, <2>1, <3>1, <3>2
  <2> QED
    BY <2>1, <2>2, <2>3
<1>3. \A k \in 1..(n - i) : b[k] = s[i + k]
  BY <1>1, <1>2
<1>4. PICK r : r = RemoveAt(s, i)
  OBVIOUS
<1>5. r = a \o b
  BY <1>1, <1>4 DEF RemoveAt
<1>6. r \in Seq(S) /\ Len(r) = n - 1
  <2>1. r \in Seq(S) /\ Len(r) = Len(a) + Len(b)
    <3>1. a \in Seq(S) /\ b \in Seq(S)
      BY <1>2
    <3>2. a \o b \in Seq(S)
      BY <3>1
    <3>3. Len(a \o b) = Len(a) + Len(b)
      BY <3>1
    <3> QED
      BY <1>5, <3>2, <3>3
  <2> QED
    BY <1>2, <2>1
<1>7. ASSUME NEW k \in 1..(n - 1)
      PROVE  r[k] = IF k < i THEN s[k] ELSE s[k + 1]
  <2>1. CASE k < i
    <3>1. k \in 1..(Len(a) + Len(b)) /\ k <= Len(a)
      BY <1>2, <2>1
    <3>2. r[k] = a[k]
      <4>1. a \in Seq(S) /\ b \in Seq(S)
        BY <1>2
      <4>2. \A m \in 1..(Len(a) + Len(b)) :
                (a \o b)[m] = IF m <= Len(a) THEN a[m] ELSE b[m - Len(a)]
        BY <4>1
      <4> QED
        BY <1>5, <3>1, <4>2
    <3> QED
      BY <1>2, <2>1, <3>2
  <2>2. CASE ~(k < i)
    <3>1. PICK j : j = k - (i - 1)
      OBVIOUS
    <3>2. k \in 1..(Len(a) + Len(b)) /\ ~(k <= Len(a)) /\ k - Len(a) = j
          /\ j \in 1..(n - i) /\ i + j = k + 1
      BY <1>2, <2>2, <3>1
    <3>3. r[k] = b[j]
      <4>1. a \in Seq(S) /\ b \in Seq(S)
        BY <1>2
      <4>2. \A m \in 1..(Len(a) + Len(b)) :
                (a \o b)[m] = IF m <= Len(a) THEN a[m] ELSE b[m - Len(a)]
        BY <4>1
      <4> QED
        BY <1>5, <3>2, <4>2
    <3> QED
      BY <1>3, <2>2, <3>2, <3>3
  <2> QED
    BY <2>1, <2>2
<1> QED
  BY <1>1, <1>4, <1>6, <1>7

LEMMA RemoveFirstFacts ==
    ASSUME NEW S, NEW s \in Seq(S), NEW u
    PROVE  /\ RemoveFirst(s, u) \in Seq(S)
           /\ \A M : Lists(s, M) => Lists(RemoveFirst(s, u), M \ {u})
<1>1. CASE ~ \E i \in 1..Len(s) : s[i] = u
  <2>1. RemoveFirst(s, u) = s
    BY <1>1 DEF RemoveFirst
  <2>2. ASSUME NEW M, Lists(s, M)
        PROVE  M \ {u} = M
    BY <1>1, <2>2 DEF Lists, ToSet
  <2> QED
    BY <2>1, <2>2
<1>2. CASE \E i \in 1..Len(s) : s[i] = u
  <2>1. PICK I : I = {i \in 1..Len(s) : s[i] = u}
    OBVIOUS
  <2>2. I \subseteq Nat /\ I # {}
    BY <1>2, <2>1
  <2>3. PICK i : i = Min(I)
    OBVIOUS
  <2>4. i \in I
    <3>1. \E n \in I : \A m \in I : n <= m
      BY <2>2, LeastNumber
    <3> QED
      BY <2>3, <3>1 DEF Min
  <2>5. RemoveFirst(s, u) = RemoveAt(s, i)
    BY <1>2, <2>1, <2>2, <2>3 DEF RemoveFirst, SelectInSeq
  <2>6. PICK r, n : r = RemoveAt(s, i) /\ n = Len(s)
    OBVIOUS
  <2>7. i \in 1..n /\ s[i] = u /\ n \in Nat
    BY <2>1, <2>4, <2>6
  <2>8. /\ r \in Seq(S) /\ Len(r) = n - 1 /\ DOMAIN r = 1..(n - 1) /\ DOMAIN s = 1..n
        /\ \A k \in 1..(n - 1) : r[k] = IF k < i THEN s[k] ELSE s[k + 1]
    BY <2>6, <2>7, RemoveAtFacts
  <2>9. ASSUME NEW M, Lists(s, M)
        PROVE  Lists(r, M \ {u})
    <3>1. /\ \A a, b \in 1..n : s[a] = s[b] => a = b
          /\ M = {s[k] : k \in 1..n}
      BY <2>8, <2>9 DEF Lists, IsInjective, ToSet
    <3>2. IsInjective(r)
      <4> SUFFICES ASSUME NEW a \in 1..(n - 1), NEW b \in 1..(n - 1), r[a] = r[b]
                   PROVE  a = b
        BY <2>8 DEF IsInjective
      <4>1. a \in 1..n /\ b \in 1..n /\ a + 1 \in 1..n /\ b + 1 \in 1..n
        BY <2>7
      <4>2. PICK c, d : c = (IF a < i THEN a ELSE a + 1) /\ d = IF b < i THEN b ELSE b + 1
        OBVIOUS
      <4>3. r[a] = s[c] /\ r[b] = s[d] /\ c \in 1..n /\ d \in 1..n
        BY <2>7, <2>8, <4>1, <4>2
      <4>4. c = d
        BY <3>1, <4>3
      <4> QED
        BY <2>7, <4>2, <4>4
    <3>3. ASSUME NEW k \in 1..(n - 1)
          PROVE  r[k] \in M \ {u}
      <4>1. k \in 1..n /\ k + 1 \in 1..n
        BY <2>7
      <4>2. r[k] = IF k < i THEN s[k] ELSE s[k + 1]
        BY <2>8
      <4> QED
        BY <2>7, <3>1, <4>1, <4>2
    <3>4. ASSUME NEW x \in M \ {u}
          PROVE  \E k \in 1..(n - 1) : r[k] = x
      <4>1. PICK j \in 1..n : s[j] = x
        BY <3>1
      <4>2. CASE j < i
        BY <2>7, <2>8, <4>1, <4>2
      <4>3. CASE j > i
        <5>1. j - 1 \in 1..(n - 1) /\ ~(j - 1 < i) /\ j - 1 + 1 = j
          BY <2>7, <4>3
        <5> QED
          BY <2>8, <4>1, <5>1
      <4> QED
        BY <2>7, <4>1, <4>2, <4>3
    <3>5. ToSet(r) = M \ {u}
      BY <2>8, <3>3, <3>4 DEF ToSet
    <3> QED
      BY <3>2, <3>5 DEF Lists
  <2> QED
    BY <2>5, <2>6, <2>8, <2>9
<1> QED
  BY <1>1, <1>2

LEMMA AppendLists ==
    ASSUME NEW S, NEW s \in Seq(S), NEW u \in S, NEW M, Lists(s, M), u \notin M
    PROVE  Lists(Append(s, u), M \cup {u})
<1>1. PICK n, a : n = Len(s) /\ a = Append(s, u)
  OBVIOUS
<1>2. /\ n \in Nat /\ DOMAIN s = 1..n /\ DOMAIN a = 1..(n + 1) /\ a[n + 1] = u
      /\ \A k \in 1..n : a[k] = s[k]
  BY <1>1
<1>3. /\ \A i, j \in 1..n : s[i] = s[j] => i = j
      /\ M = {s[k] : k \in 1..n}
  BY <1>2 DEF Lists, IsInjective, ToSet
<1>4. IsInjective(a)
  <2>1. \A k \in 1..n : a[k] # u
    BY <1>2, <1>3
  <2>2. \A k \in 1..(n + 1) : k \in 1..n \/ k = n + 1
    BY <1>2
  <2> QED
    BY <1>2, <1>3, <2>1, <2>2 DEF IsInjective
<1>5. ToSet(a) = M \cup {u}
  <2>1. \A k \in 1..(n + 1) : k \in 1..n \/ k = n + 1
    BY <1>2
  <2>2. n + 1 \in 1..(n + 1) /\ 1..n \subseteq 1..(n + 1)
    BY <1>2
  <2> QED
    BY <1>2, <1>3, <2>1, <2>2 DEF ToSet
<1> QED
  BY <1>1, <1>4, <1>5 DEF Lists

LEMMA ChangeStep ==
    ASSUME TypeOK, OfflineIsQuiet, TextInv, ChatJoin \/ ChatLeave
    PROVE  TypeOK' /\ OfflineIsQuiet' /\ TextInv'
<1>1. PICK u : u = Head(coming).user
  OBVIOUS
<1>2. /\ \/ Receive({"ChatJoin"}) /\ rows' = Append(rows, u)
         \/ Receive({"ChatLeave"}) /\ rows' = RemoveFirst(rows, u)
      /\ UNCHANGED <<newuserlist, newtopic, newmessage, newprivate, topic, heard, whispered,
                     cut, listed, arrived, muddled, echoed>>
  BY <1>1 DEF ChatJoin, ChatLeave
<1>3. /\ coming # <<>> /\ Head(coming).com \in {"ChatJoin", "ChatLeave"}
      /\ coming' = Tail(coming) /\ IsChange(coming)
      /\ OfflineIsQuiet'
      /\ UNCHANGED <<online, net, admin, granted, outbox, members, typed, items, sessions>>
  BY <1>2, ReceiveSteps
<1>4. u \in Others /\ coming' = <<>>
  BY <1>1, <1>3 DEF IsChange
<1>5. rows' \in Seq(Users)
  <2>1. rows \in Seq(Users) /\ u \in Users
    BY <1>4 DEF TypeOK, Users
  <2>2. Append(rows, u) \in Seq(Users)
    BY <2>1
  <2>3. RemoveFirst(rows, u) \in Seq(Users)
    BY <2>1, RemoveFirstFacts
  <2> QED
    BY <1>2, <2>2, <2>3
<1>6. TypeOK'
  BY <1>2, <1>3, <1>4, <1>5, Zenon DEF TypeOK
<1>7. TextInv'
  BY <1>2, <1>3, <1>4, CommandsDiffer, OtherBuffers
<1> QED
  BY <1>3, <1>6, <1>7
--------------------------------------------------------------------------------
(* The rows show the users of the channel.                                  *)

LEMMA SessionLists ==
    ASSUME TypeOK, OfflineIsQuiet, ListInv, SessionStep
    PROVE  ListInv'
<1>1. UNCHANGED <<newuserlist, rows>>
  BY SessionSteps
<1>2. CASE SetNetwork
  <2>1. coming = <<>> /\ coming' = <<>> /\ listed' = FALSE /\ cut' = cut
    BY <1>2 DEF SetNetwork, OfflineIsQuiet
  <2> QED
    BY <1>1, <2>1 DEF ListInv, NamesGoOn, ChangeIsMade, RowsFollow
<1>3. CASE Disconnect \/ OnSocketFailRead
  <2>1. coming' = <<>> /\ online' = FALSE
    BY <1>3 DEF Disconnect, OnSocketFailRead, EndSession
  <2>2. "list" \notin cut' => newuserlist' = <<>>
    BY <1>3 DEF Disconnect, OnSocketFailRead, EndSession, Buffers, Left
  <2> QED
    BY <2>1, <2>2 DEF ListInv, NamesGoOn, ChangeIsMade, RowsFollow
<1>4. CASE Stop \/ SetAdminMode
  <2>1. UNCHANGED <<coming, members, online, listed, cut>>
    BY <1>4 DEF Stop, SetAdminMode, vars
  <2> QED
    BY <1>1, <2>1 DEF ListInv, NamesGoOn, ChangeIsMade, RowsFollow, Expected
<1> QED
  BY <1>2, <1>3, <1>4 DEF SessionStep

LEMMA UserLists ==
    ASSUME TypeOK, ListInv, UserStep
    PROVE  ListInv'
<1>1. UNCHANGED <<newuserlist, rows, coming, members, online, listed, cut>>
  BY UserSteps
<1> QED
  BY <1>1 DEF ListInv, NamesGoOn, ChangeIsMade, RowsFollow, Expected

LEMMA ServerLists ==
    ASSUME TypeOK, OfflineIsQuiet, ListInv, ServerStep
    PROVE  ListInv'
<1>1. /\ UNCHANGED <<newuserlist, rows, cut, listed, online>>
      /\ coming = <<>>
  BY ServerSteps
<1>2. /\ "list" \notin cut => newuserlist = <<>>
      /\ online /\ listed => Lists(rows, members)
  BY <1>1 DEF ListInv, NamesGoOn, RowsFollow, Expected
<1>3. CASE coming' = <<>> \/ IsText(coming')
  <2>1. members' = members
    <3>1. ASSUME NEW u \in Others, UserJoins(u) \/ UserLeaves(u)
          PROVE  FALSE
      <4>1. Fresh(coming') /\ Head(coming').com \in {"ChatJoin", "ChatLeave"}
        BY <3>1, ChangeIsFresh DEF UserJoins, UserLeaves
      <4> QED
        BY <1>3, <4>1, CommandsDiffer DEF IsText, Fresh
    <3> QED
      BY <3>1 DEF ServerStep, ServerReadsText, ServerSendsUserList, ServerSendsText
  <2>2. coming' = <<>> \/ Head(coming').com \in AllCommands
    BY <1>3 DEF IsText
  <2>3. \/ coming' = <<>>
        \/ Head(coming').com \notin {"ChatUserList", "ChatJoin", "ChatLeave"}
    BY <2>2, CommandsDiffer
  <2> QED
    BY <1>1, <1>2, <2>1, <2>3 DEF ListInv, NamesGoOn, ChangeIsMade, RowsFollow, Expected
<1>4. CASE \E n \in Nat : ServerSendsUserList(n)
  <2>1. PICK n \in Nat : ServerSendsUserList(n)
    BY <1>4
  <2>2. PICK names : names = SetToSeq(members)
    OBVIOUS
  <2>3. names \in Seq(Users) /\ Lists(names, members) /\ Len(names) = Cardinality(members)
    BY <2>2, InSomeOrder DEF TypeOK
  <2>4. n < Len(names) /\ coming' = UserListPackets(names, n) /\ members' = members
    BY <2>1, <2>2, <2>3 DEF ServerSendsUserList
  <2>5. /\ Fresh(coming') /\ Head(coming').com = "ChatUserList"
        /\ \/ Len(coming') = 1 /\ coming'[1].names = names
           \/ Len(coming') = 2 /\ coming'[1].names \o coming'[2].names = names
    BY <2>3, <2>4, UserListFacts
  <2>6. <<>> \o names = names
    BY <2>3
  <2>7. NamesGoOn'
    <3>1. CASE Len(coming') = 1 /\ coming'[1].names = names
      <4>1. "list" \notin cut' => newuserlist' = <<>>
        BY <1>1, <1>2
      <4>2. "list" \notin cut' => newuserlist' \o coming'[1].names = names
        BY <2>6, <3>1, <4>1
      <4>3. Len(coming') # 2 /\ Lists(names, members')
        BY <2>3, <2>4, <3>1
      <4> QED
        BY <2>5, <4>2, <4>3 DEF NamesGoOn, Fresh
    <3>2. CASE Len(coming') = 2 /\ coming'[1].names \o coming'[2].names = names
      BY <1>1, <1>2, <2>3, <2>4, <2>5, <3>2 DEF NamesGoOn, Fresh
    <3> QED
      BY <2>5, <3>1, <3>2
  <2>8. ChangeIsMade' /\ RowsFollow'
    BY <1>1, <1>2, <2>4, <2>5 DEF ChangeIsMade, RowsFollow, Expected
  <2> QED
    BY <2>7, <2>8 DEF ListInv
<1>5. ASSUME NEW u \in Others, UserJoins(u)
      PROVE  ListInv'
  <2>1. /\ u \notin members /\ members' = members \cup {u}
        /\ coming' # <<>> /\ Head(coming').com = "ChatJoin" /\ Head(coming').user = u
    BY <1>5 DEF UserJoins
  <2>2. Expected' = members
    BY <2>1 DEF Expected
  <2> QED
    BY <1>1, <1>2, <2>1, <2>2 DEF ListInv, NamesGoOn, ChangeIsMade, RowsFollow
<1>6. ASSUME NEW u \in Others, UserLeaves(u)
      PROVE  ListInv'
  <2>1. /\ u \in members /\ members' = members \ {u}
        /\ coming' # <<>> /\ Head(coming').com = "ChatLeave" /\ Head(coming').user = u
    BY <1>6 DEF UserLeaves
  <2>2. Expected' = members
    BY <2>1 DEF Expected
  <2> QED
    BY <1>1, <1>2, <2>1, <2>2 DEF ListInv, NamesGoOn, ChangeIsMade, RowsFollow
<1>7. CASE ServerReadsText \/ \E com \in Spoken, u \in Others, size \in 1..MaxParts :
                                  ServerSendsText(com, u, size)
  <2>1. coming' = <<>> \/ \E t \in Texts : Fresh(coming') /\ coming' = Whole(t)
    <3>1. CASE ServerReadsText
      <4>1. Head(outbox) \in Texts
        BY <3>1 DEF ServerReadsText, TypeOK
      <4> QED
        BY <1>1, <3>1, <4>1, ServerSteps DEF ServerReadsText
    <3>2. ASSUME NEW com \in Spoken, NEW u \in Others, NEW size \in 1..MaxParts,
                 ServerSendsText(com, u, size)
          PROVE  coming' = <<>> \/ \E t \in Texts : Fresh(coming') /\ coming' = Whole(t)
      <4>1. Text(items', com, u, size) \in Texts /\ coming' = Whole(Text(items', com, u, size))
        BY <3>2, CommandsDiffer DEF ServerSendsText, NewItem, TypeOK, Text, Texts, Users
      <4> QED
        BY <4>1, ServerSteps
    <3> QED
      BY <1>7, <3>1, <3>2
  <2>2. ASSUME NEW t \in Texts, Fresh(coming'), coming' = Whole(t)
        PROVE  IsText(coming')
    <3>1. t.size \in 1..t.size /\ coming' = Rest(t, t.size)
      BY <2>2, TextFacts, WholeFacts
    <3>2. Head(coming') = Part(t, t.size)
      BY <3>1, RestFacts
    <3>3. Head(coming').com \in AllCommands
      BY <3>1, <3>2, TextFacts
    <3> QED
      BY <2>2, <3>3, CommandsDiffer DEF Fresh, IsNames, IsChange
  <2> QED
    BY <1>3, <2>1, <2>2
<1> QED
  BY <1>4, <1>5, <1>6, <1>7 DEF ServerStep

\* The packets of texts pass the list by.
LEMMA TextLists ==
    ASSUME TypeOK, OfflineIsQuiet, ListInv, ChatTopic \/ ChatMessage \/ ChatPrivMessage
    PROVE  ListInv'
<1>1. /\ UNCHANGED <<newuserlist, rows, listed>>
      /\ \E com \in {{"ChatTopic"}, ChannelCommands, PrivateCommands} : Receive(com)
  BY DEF ChatTopic, ChatMessage, ChatPrivMessage
<1>2. /\ UNCHANGED <<online, members>> /\ coming # <<>>
      /\ IsText(coming) /\ (coming' = <<>> \/ IsText(coming'))
  <2>1. \A com \in {{"ChatTopic"}, ChannelCommands, PrivateCommands} : com \in SUBSET AllCommands
    BY DEF AllCommands
  <2> QED
    BY <1>1, <2>1, ReceiveSteps
<1>3. \A c : IsText(c) => Head(c).com \notin {"ChatUserList", "ChatJoin", "ChatLeave"}
  BY CommandsDiffer DEF IsText
<1>4. /\ Head(coming).com \notin {"ChatUserList", "ChatJoin", "ChatLeave"}
      /\ coming' = <<>> \/ Head(coming').com \notin {"ChatUserList", "ChatJoin", "ChatLeave"}
  BY <1>2, <1>3
<1>5. "list" \in cut => "list" \in cut'
  <2>1. \E b \in {"topic", "message", "private"} : Arrive(Head(coming), b)
    BY DEF ChatTopic, ChatMessage, ChatPrivMessage
  <2> QED
    BY <1>2, <2>1, TextArrives
<1> QED
  BY <1>1, <1>2, <1>4, <1>5 DEF ListInv, NamesGoOn, ChangeIsMade, RowsFollow, Expected

\* A list is put together, and shown when it is whole.
LEMMA ListLists ==
    ASSUME TypeOK, OfflineIsQuiet, ListInv, ChatUserList
    PROVE  ListInv'
<1>1. PICK p, w : p = Head(coming) /\ w = newuserlist \o p.names
  OBVIOUS
<1>2. /\ Receive({"ChatUserList"})
      /\ p.seq = 1 => /\ rows' = w /\ newuserlist' = <<>>
                      /\ listed' => "list" \notin cut
      /\ p.seq # 1 => newuserlist' = w /\ UNCHANGED <<rows, listed, cut>>
  <2>1. CASE p.seq = 1
    BY <1>1, <2>1, Zenon DEF ChatUserList, SetUserList
  <2>2. CASE p.seq # 1
    BY <1>1, <2>2, Zenon DEF ChatUserList
  <2> QED
    BY <2>1, <2>2
<1>3. /\ coming # <<>> /\ p.com = "ChatUserList" /\ coming' = Tail(coming) /\ IsNames(coming)
      /\ UNCHANGED <<online, members>>
  BY <1>1, <1>2, ReceiveSteps
<1>4. CASE coming = <<ListPart(p.names, 1)>>
  <2>1. PICK a : a = ListPart(p.names, 1)
    OBVIOUS
  <2>2. coming = <<a>> /\ a.seq = 1 /\ p = a
    BY <1>1, <1>4, <2>1 DEF ListPart
  <2>3. coming' = <<>> /\ Len(coming) = 1 /\ coming[1] = p
    BY <1>3, <2>2
  <2>4. "list" \notin cut => Lists(w, members)
    BY <1>1, <1>3, <2>3 DEF ListInv, NamesGoOn
  <2>5. rows' = w /\ newuserlist' = <<>> /\ (listed' => "list" \notin cut)
    BY <1>2, <2>2
  <2> QED
    BY <1>3, <2>3, <2>4, <2>5 DEF ListInv, NamesGoOn, ChangeIsMade, RowsFollow, Expected
<1>5. CASE coming = <<ListPart(p.names, 2), ListPart(coming[2].names, 1)>>
  <2>1. PICK a, b : a = ListPart(p.names, 2) /\ b = ListPart(coming[2].names, 1)
    OBVIOUS
  <2>2. coming = <<a, b>>
    BY <1>5, <2>1
  <2>3. Len(coming) = 2 /\ coming[1] = a /\ coming[2] = b /\ Tail(<<a, b>>) = <<b>> /\ p = a
    BY <1>1, <2>2
  <2>4. a.seq = 2 /\ b.com = "ChatUserList" /\ a.names = p.names
    BY <2>1 DEF ListPart
  <2>5. /\ coming' = <<b>> /\ Len(coming') = 1 /\ coming'[1] = b /\ coming' # <<>>
        /\ Head(coming') = b
    BY <1>3, <2>2, <2>3
  <2>6. newuserlist' = w /\ UNCHANGED <<rows, listed, cut>>
    BY <1>2, <2>3, <2>4
  <2>7. ASSUME "list" \notin cut
        PROVE  w = p.names /\ Lists(w \o b.names, members)
    <3>1. newuserlist = <<>> /\ Lists(coming[1].names \o coming[2].names, members)
      BY <1>1, <1>3, <2>3, <2>7 DEF ListInv, NamesGoOn
    <3>2. p.names \in Seq(Users)
      BY <1>1, <1>3 DEF IsNames
    <3>3. w = p.names
      BY <1>1, <3>1, <3>2
    <3> QED
      BY <2>3, <3>1, <3>3
  <2>8. NamesGoOn'
    BY <1>3, <2>4, <2>5, <2>6, <2>7 DEF NamesGoOn
  <2>9. Expected' = members /\ Expected = members
    BY <1>1, <1>3, <2>4, <2>5 DEF Expected
  <2>10. ChangeIsMade' /\ RowsFollow'
    BY <1>3, <2>4, <2>5, <2>6, <2>9 DEF ListInv, ChangeIsMade, RowsFollow
  <2> QED
    BY <2>8, <2>10 DEF ListInv
<1> QED
  BY <1>1, <1>3, <1>4, <1>5 DEF IsNames

LEMMA ChangeLists ==
    ASSUME TypeOK, OfflineIsQuiet, ListInv, ChatJoin \/ ChatLeave
    PROVE  ListInv'
<1>1. PICK u : u = Head(coming).user
  OBVIOUS
<1>2. /\ \/ Receive({"ChatJoin"}) /\ rows' = Append(rows, u)
         \/ Receive({"ChatLeave"}) /\ rows' = RemoveFirst(rows, u)
      /\ UNCHANGED <<newuserlist, cut, listed>>
  BY <1>1 DEF ChatJoin, ChatLeave
<1>3. /\ coming # <<>> /\ coming' = Tail(coming) /\ IsChange(coming)
      /\ UNCHANGED <<online, members>>
  BY <1>2, ReceiveSteps
<1>4. u \in Others /\ coming' = <<>> /\ rows \in Seq(Users) /\ u \in Users
  <2>1. u \in Others /\ coming' = <<>>
    <3>1. PICK a : a = [com |-> Head(coming).com, user |-> u]
      OBVIOUS
    <3>2. coming = <<a>> /\ u \in Others
      BY <1>1, <1>3, <3>1 DEF IsChange
    <3>3. Tail(<<a>>) = <<>>
      OBVIOUS
    <3> QED
      BY <1>3, <3>2, <3>3
  <2>2. rows \in Seq(Users)
    BY DEF TypeOK
  <2> QED
    BY <2>1, <2>2 DEF Users
<1>5. Expected' = members /\ newuserlist' = newuserlist
  BY <1>2, <1>3, <1>4 DEF Expected
<1>6. "list" \notin cut => newuserlist = <<>>
  BY <1>3 DEF ListInv, NamesGoOn, IsChange
<1>7. ASSUME online, listed
      PROVE  Lists(rows', members)
  <2>1. Lists(rows, Expected)
    BY <1>7 DEF ListInv, RowsFollow
  <2>2. CASE Receive({"ChatJoin"}) /\ rows' = Append(rows, u)
    <3>1. Head(coming).com = "ChatJoin"
      BY <2>2, ReceiveSteps
    <3>2. Expected = members \ {u} /\ u \in members
      BY <1>1, <1>3, <3>1 DEF Expected, ListInv, ChangeIsMade
    <3>3. PICK M : M = members \ {u}
      OBVIOUS
    <3>4. Lists(rows, M) /\ u \notin M /\ members = M \cup {u}
      BY <2>1, <3>2, <3>3
    <3>5. Lists(Append(rows, u), M \cup {u})
      BY <1>4, <3>4, AppendLists
    <3> QED
      BY <2>2, <3>4, <3>5
  <2>3. CASE Receive({"ChatLeave"}) /\ rows' = RemoveFirst(rows, u)
    <3>1. Head(coming).com = "ChatLeave"
      BY <2>3, ReceiveSteps
    <3>2. Expected = members \cup {u} /\ u \notin members
      BY <1>1, <1>3, <3>1 DEF Expected, ListInv, ChangeIsMade
    <3>3. Lists(RemoveFirst(rows, u), (members \cup {u}) \ {u})
      BY <1>4, <2>1, <3>2, RemoveFirstFacts
    <3>4. (members \cup {u}) \ {u} = members
      BY <3>2
    <3> QED
      BY <2>3, <3>3, <3>4
  <2> QED
    BY <1>2, <2>2, <2>3
<1> QED
  BY <1>2, <1>3, <1>4, <1>5, <1>6, <1>7 DEF ListInv, NamesGoOn, ChangeIsMade, RowsFollow
--------------------------------------------------------------------------------
(* Theorems.                                                                *)

LEMMA Initially == Init => Inv
<1> SUFFICES ASSUME Init PROVE Inv
  OBVIOUS
<1>1. \A S : <<>> \in Seq(S)
  OBVIOUS
<1>2. TypeOK
  BY <1>1 DEF Init, TypeOK
<1>3. \A s : {i \in DOMAIN s : FALSE} = {}
  OBVIOUS
<1>4. (\A but : LinesOf(<<>>, but) = <<>>) /\ OwnLinesOf(<<>>) = <<>>
  BY SelectedEmpty DEF LinesOf, OwnLinesOf
<1>5. TopicsOf(<<>>) = <<>> /\ \A coms : TextsOf(<<>>, coms) = <<>>
  BY SelectedEmpty DEF TopicsOf, TextsOf
<1>6. Lines(<<>>) = <<>>
  BY DEF Lines
<1>7. TextInv
  BY <1>4, <1>5, <1>6 DEF Init, TextInv, MuddledShown, PrivateGoesOn, TopicGoesOn, MessageGoesOn,
     GoesOn, OthersHeard, WhispersHeard, TopicIsLast, OwnOnce
<1>8. ListInv /\ OfflineIsQuiet
  BY DEF Init, ListInv, NamesGoOn, ChangeIsMade, RowsFollow, OfflineIsQuiet
<1> QED
  BY <1>2, <1>7, <1>8 DEF Inv

LEMMA Preserved == Inv /\ [Next]_vars => Inv'
<1> SUFFICES ASSUME Inv, [Next]_vars PROVE Inv'
  OBVIOUS
<1> USE DEF Inv
<1>1. CASE SessionStep
  <2>1. TypeOK' /\ OfflineIsQuiet'
    BY <1>1, SessionSteps
  <2>2. TextInv'
    BY <1>1, QuietGoesOn, QuietShows DEF TextInv
  <2> QED
    BY <1>1, <2>1, <2>2, SessionLists
<1>2. CASE ServerStep
  <2>1. TypeOK' /\ OfflineIsQuiet'
    BY <1>2, ServerSteps
  <2>2. TextInv'
    BY <1>2, QuietGoesOn, QuietShows DEF TextInv
  <2> QED
    BY <1>2, <2>1, <2>2, ServerLists
<1>3. CASE UserStep
  <2>1. TypeOK' /\ OfflineIsQuiet'
    BY <1>3, UserSteps DEF OfflineIsQuiet
  <2>2. TextInv'
    BY <1>3, QuietGoesOn, QuietShows DEF TextInv
  <2> QED
    BY <1>3, <2>1, <2>2, UserLists
<1>4. CASE ChatTopic \/ ChatMessage \/ ChatPrivMessage
  BY <1>4, TopicStep, MessageStep, PrivateStep, TextLists
<1>5. CASE ChatUserList
  BY <1>5, ListStep, ListLists
<1>6. CASE ChatJoin \/ ChatLeave
  BY <1>6, ChangeStep, ChangeLists
<1>7. CASE UNCHANGED vars
  BY <1>7 DEF vars, TypeOK, OfflineIsQuiet, TextInv, MuddledShown, ListInv, PrivateGoesOn,
     TopicGoesOn, MessageGoesOn, OthersHeard, WhispersHeard, TopicIsLast, OwnOnce, NamesGoOn, ChangeIsMade,
     RowsFollow, Expected
<1> QED
  BY <1>1, <1>2, <1>3, <1>4, <1>5, <1>6, <1>7, NextSteps DEF ProcessMessage

\* The inductive invariant: types, the buffers, what is shown of them, and the list.
THEOREM InductiveInvariant == Spec => []Inv
<1> QED
  BY Initially, Preserved, PTL DEF Spec

\* The rows, the buffers and the histories keep their types, whatever the order of the packets.
THEOREM TypesHold == Spec => []TypeOK
<1>1. Inv => TypeOK
  BY DEF Inv
<1> QED
  BY <1>1, InductiveInvariant, PTL

\* Channel::ProcessMessage shows what the others say whole, once and in order, but for the first
\* line after a session that was cut in the middle of a message, as long as no message of the
\* user's own came back.
THEOREM OthersAreHeard == Spec => []OthersHeard
<1>1. Inv => OthersHeard
  BY DEF Inv, TextInv
<1> QED
  BY <1>1, InductiveInvariant, PTL

\* Private messages are shown so too, whatever comes back of the user's own.
THEOREM WhispersAreHeard == Spec => []WhispersHeard
<1>1. Inv => WhispersHeard
  BY DEF Inv, TextInv
<1> QED
  BY <1>1, InductiveInvariant, PTL

\* Channel::OnSend shows what the user says, and ProcessMessage does not show it again,
\* even after a session that was cut.
THEOREM OwnIsShownOnce == Spec => []OwnOnce
<1>1. Inv => OwnOnce
  BY DEF Inv, TextInv
<1> QED
  BY <1>1, InductiveInvariant, PTL

\* The topic shown is the last one the server sent, but for one put behind the rest of another
\* that a session was cut in.
THEOREM TopicIsTheLast == Spec => []TopicIsLast
<1>1. Inv => TopicIsLast
  BY DEF Inv, TextInv
<1> QED
  BY <1>1, InductiveInvariant, PTL

\* Once a list was received that is not put behind the rest of another session's, the rows show
\* each user of the channel once: the lists, joins and leaves keep up with the server.
THEOREM ListShowsUsers == Spec => []ListIsUsers
<1>1. Inv => ListIsUsers
  <2> SUFFICES ASSUME Inv, online, coming = <<>>, listed
               PROVE  ToSet(rows) = members /\ Len(rows) = Cardinality(members)
    BY DEF ListIsUsers
  <2>1. Lists(rows, members) /\ rows \in Seq(Users)
    BY DEF Inv, TypeOK, ListInv, RowsFollow, Expected
  <2>2. PICK n : n = Len(rows)
    OBVIOUS
  <2>3. n \in Nat /\ DOMAIN rows = 1..n
    BY <2>1, <2>2
  <2>4. rows \in [1..n -> members] /\ IsInjective(rows) /\ ToSet(rows) = members
    BY <2>1, <2>3 DEF Lists, ToSet
  <2>5. rows \in Injection(1..n, members)
    BY <2>4 DEF Injection
  <2>6. rows \in Surjection(1..n, members)
    BY <2>3, <2>4 DEF Surjection, ToSet
  <2>7. ExistsBijection(1..n, members)
    BY <2>5, <2>6 DEF ExistsBijection, Bijection
  <2>8. Cardinality(members) = n
    BY <2>3, <2>7, FS_CountingElements
  <2> QED
    BY <2>1, <2>2, <2>8 DEF Lists
<1> QED
  BY <1>1, InductiveInvariant, PTL
--------------------------------------------------------------------------------
(* The two ways a session ends.                                             *)

\* The behaviours in which no session ends by a failed read.
NoFailedReads == Init /\ [][Next /\ ~OnSocketFailRead]_vars

\* What the channel got from a session is gone with it.
NothingIsKept == (net => online) /\ (admin => online /\ granted)

LEMMA NothingKept ==
    ASSUME NothingIsKept, [Next /\ ~OnSocketFailRead]_vars
    PROVE  NothingIsKept'
<1>1. CASE UNCHANGED vars
  BY <1>1 DEF vars, NothingIsKept
<1>2. CASE SessionStep /\ ~OnSocketFailRead
  <2>1. CASE Stop
    BY <2>1 DEF Stop, vars, NothingIsKept
  <2>2. CASE SetNetwork
    BY <2>2 DEF SetNetwork, NothingIsKept
  <2>3. CASE SetAdminMode
    BY <2>3 DEF SetAdminMode, NothingIsKept
  <2>4. CASE Disconnect
    BY <2>4 DEF Disconnect, EndSession, NothingIsKept
  <2> QED
    BY <1>2, <2>1, <2>2, <2>3, <2>4 DEF SessionStep
<1>3. CASE ServerStep
  BY <1>3 DEF ServerStep, ServerReadsText, ServerSendsUserList, UserJoins, UserLeaves,
              ServerSendsText, NothingIsKept
<1>4. CASE UserStep
  BY <1>4 DEF UserStep, OnSendMessage, OnSendPrivate, SendTopic, AddBufferOut, NothingIsKept
<1>5. CASE ProcessMessage
  BY <1>5 DEF ProcessMessage, ChatUserList, ChatJoin, ChatLeave, ChatTopic, ChatMessage,
              ChatPrivMessage, Receive, NothingIsKept
<1> QED
  BY <1>1, <1>2, <1>3, <1>4, <1>5, NextSteps

\* As long as no session ends in OnSocketFailRead, what the user types goes to a session and only
\* an administrator can edit the topic: the finding about EditorIsAdmin comes from that handler
\* alone, however many sessions there are.
THEOREM OnlyFailedReadsKeep == NoFailedReads => [](NothingIsKept /\ EditorIsAdmin)
<1>1. Init => NothingIsKept
  BY DEF Init, NothingIsKept
<1>2. NothingIsKept /\ [Next /\ ~OnSocketFailRead]_vars => NothingIsKept'
  BY NothingKept
<1>3. NothingIsKept => NothingIsKept /\ EditorIsAdmin
  BY DEF NothingIsKept, EditorIsAdmin
<1> QED
  BY <1>1, <1>2, <1>3, PTL DEF NoFailedReads
================================================================================
