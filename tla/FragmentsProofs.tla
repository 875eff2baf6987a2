---------------------------- MODULE FragmentsProofs ----------------------------
(***************************************************************************)
(* Proofs about Fragments, for any lengths, any places where the           *)
(* connection ends a record, and any number of messages.                   *)
(***************************************************************************)
EXTENDS Fragments, TLAPS

USE DEF MaxData, HeaderSize

RunSet == [msg : Nat, from : Nat, to : Nat]
Byte == {b \in Nat : b < 256}
PacketSet == [seq : Byte, pktLen : Byte, data : RunSet]
FrameSet == {f \in [packet : PacketSet, read : Nat, cut : Nat] :
                /\ f.read < FrameSize(f.packet) /\ f.cut < FrameSize(f.packet)
                /\ f.packet.data.to
                     = f.packet.data.from + GetLength(f.packet.seq, f.packet.pktLen)}

TypeOK ==
    /\ sent \in Seq(Lengths)
    /\ wire \in Seq(FrameSet)
    /\ temp \in Seq(RunSet)
    /\ delivered \in Seq(Seq(RunSet))
    /\ garbled \in BOOLEAN /\ split \in BOOLEAN

\* Unless a record ended inside a header or inside data, each packet on the connection is
\* unread, and no record ends inside its header or inside its data.
FramesUnread == ~split => ~garbled /\ \A k \in 1..Len(wire) : wire[k].read = 0
                                                     /\ wire[k].cut \in {0, HeaderSize}

\* The packet of message j, of a regular length, that carries number s: the numbers go
\* from FirstSequence to 1, and only the last packet is not full.
IsPacket(p, j, len, s) ==
    LET c == FirstSequence(len)
    IN  /\ p.seq = s /\ s \in 1..c
        /\ p.data = Run(j, MaxData * (c - s), IF s = 1 THEN len ELSE MaxData * (c - s + 1))

Msg(k) == wire[k].packet.data.msg
Number(k) == wire[k].packet.seq
First(k) == FirstSequence(sent[Msg(k)])

\* The connection holds the packets not yet read in the order they were made, up to the
\* last one of the last message.
WireInOrder ==
    /\ \A k \in 1..Len(wire) :
            Msg(k) \in 1..Len(sent) /\ IsPacket(wire[k].packet, Msg(k), sent[Msg(k)], Number(k))
    /\ \A k \in 1..(Len(wire) - 1) :
            IF Number(k) = 1 THEN Msg(k + 1) = Msg(k) + 1 /\ Number(k + 1) = First(k + 1)
            ELSE Msg(k + 1) = Msg(k) /\ Number(k + 1) = Number(k) - 1
    /\ wire # <<>> => Number(Len(wire)) = 1 /\ Msg(Len(wire)) = Len(sent)

\* What was read of the message the next packet belongs to is in the buffer, as one run,
\* and all the messages before it were delivered.
BufferFollows ==
    IF wire = <<>> THEN temp = <<>> /\ Len(delivered) = Len(sent)
    ELSE /\ Len(delivered) + 1 = Msg(1)
         /\ temp = IF Number(1) = First(1) THEN <<>>
                   ELSE <<Run(Msg(1), 0, MaxData * (First(1) - Number(1)))>>

DeliveredWhole == \A k \in 1..Len(delivered) : delivered[k] = Whole(k)

InOrder == AllRegular /\ ~split => WireInOrder /\ BufferFollows /\ DeliveredWhole

Inv == TypeOK /\ FramesUnread /\ InOrder
--------------------------------------------------------------------------------
(* What AddBuffer makes.                                                    *)

\* One sequence behind another.
LEMMA ConcatFacts ==
    ASSUME NEW S, NEW s \in Seq(S), NEW t \in Seq(S)
    PROVE  /\ s \o t \in Seq(S) /\ Len(s \o t) = Len(s) + Len(t)
           /\ \A k \in 1..Len(s) : (s \o t)[k] = s[k]
           /\ \A i \in 1..Len(t) : (s \o t)[Len(s) + i] = t[i]
  OBVIOUS

\* The quotient and the rest of a length by PCKT_MAXDATA.
LEMMA Division ==
    ASSUME NEW len \in Nat
    PROVE  /\ len \div MaxData \in Nat /\ len % MaxData \in Nat /\ len % MaxData < 256
           /\ len = MaxData * (len \div MaxData) + (len % MaxData)
<1>1. len \div 256 \in Nat
  OBVIOUS
<1>2. len % 256 \in Nat /\ len % 256 < 256
  OBVIOUS
<1>3. len = 256 * (len \div 256) + (len % 256)
  OBVIOUS
<1> QED
  BY <1>1, <1>2, <1>3

\* What the eight bits of pkt_len keep of a length.
LEMMA SetLengthFacts ==
    ASSUME NEW len \in Nat
    PROVE  /\ SetLength(len) \in Nat /\ SetLength(len) < 256
           /\ len >= 1 /\ len <= 256 => SetLength(len) + 1 = len
           /\ len >= 256 => SetLength(len) = 255
  BY DEF SetLength

\* GetLength says how many bytes a packet carries, and RecvPacket reads as many.
LEMMA GetLengthFacts ==
    ASSUME NEW p \in PacketSet
    PROVE  /\ GetLength(p.seq, p.pktLen) \in Nat
           /\ DataToRead(p) = GetLength(p.seq, p.pktLen)
           /\ FrameSize(p) = 4 + GetLength(p.seq, p.pktLen)
  BY DEF PacketSet, Byte, GetLength, DataToRead, FrameSize

\* The number of packets is not above the number of the first one.
LEMMA CountFacts ==
    ASSUME NEW len \in Nat
    PROVE  /\ FragmentCount(len) \in Nat /\ FirstSequence(len) \in Nat
           /\ FragmentCount(len) <= FirstSequence(len)
           /\ \A i \in 1..FragmentCount(len) : MaxData * (i - 1) < len
<1>1. /\ len \div 256 \in Nat /\ len % 256 \in Nat /\ len % 256 < 256
      /\ len = 256 * (len \div 256) + (len % 256)
  BY Division
<1> QED
  BY <1>1 DEF FragmentCount, FirstSequence

LEMMA NewFragmentType ==
    ASSUME NEW msg \in Nat, NEW seq \in Nat, NEW from \in Nat, NEW rest \in Nat
    PROVE  /\ NewFragment(msg, seq, from, rest) \in PacketSet
           /\ NewFragment(msg, seq, from, rest).data.to
                = NewFragment(msg, seq, from, rest).data.from
                    + GetLength(NewFragment(msg, seq, from, rest).seq,
                                NewFragment(msg, seq, from, rest).pktLen)
<1> DEFINE s == seq % 256
           l == SetLength(rest)
           stored == IF GetLength(s, l) >= 1 THEN l ELSE SetLength(0)
<1>1. /\ s \in Nat /\ s < 256
      /\ l \in Nat /\ l < 256
      /\ SetLength(0) = 0
  BY SetLengthFacts DEF SetLength, MaxData
<1>2. GetLength(s, l) \in Nat
  BY <1>1 DEF GetLength
<1>3. /\ stored \in Nat /\ stored < 256
      /\ GetLength(s, stored) = GetLength(s, l)
  BY <1>1 DEF GetLength
<1>4. NewFragment(msg, seq, from, rest)
        = [seq |-> s, pktLen |-> stored, data |-> Run(msg, from, from + GetLength(s, l))]
  BY DEF NewFragment
<1> HIDE DEF s, l, stored
<1> QED
  BY <1>1, <1>2, <1>3, <1>4 DEF PacketSet, Byte, RunSet, Run

LEMMA AddBufferType ==
    ASSUME NEW msg \in Nat, NEW len \in Nat
    PROVE  /\ AddBuffer(msg, len) \in Seq(PacketSet)
           /\ Len(AddBuffer(msg, len)) = FragmentCount(len)
           /\ \A i \in 1..FragmentCount(len) :
                  LET p == AddBuffer(msg, len)[i]
                  IN  p.data.to = p.data.from + GetLength(p.seq, p.pktLen)
<1>1. ASSUME NEW i \in 1..FragmentCount(len)
      PROVE  /\ FirstSequence(len) - (i - 1) \in Nat /\ MaxData * (i - 1) \in Nat
             /\ len - MaxData * (i - 1) \in Nat
  BY CountFacts
<1>2. \A i \in 1..FragmentCount(len) :
          LET p == NewFragment(msg, FirstSequence(len) - (i - 1), MaxData * (i - 1),
                               len - MaxData * (i - 1))
          IN  /\ p \in PacketSet
              /\ p.data.to = p.data.from + GetLength(p.seq, p.pktLen)
  <2> TAKE i \in 1..FragmentCount(len)
  <2> DEFINE number == FirstSequence(len) - (i - 1)
             place == MaxData * (i - 1)
             left == len - MaxData * (i - 1)
  <2>1. number \in Nat /\ place \in Nat /\ left \in Nat
    BY <1>1
  <2> HIDE DEF number, place, left
  <2> DEFINE p == NewFragment(msg, number, place, left)
  <2>2. p \in PacketSet /\ p.data.to = p.data.from + GetLength(p.seq, p.pktLen)
    <3>1. NewFragment(msg, number, place, left) \in PacketSet
      BY <2>1, NewFragmentType
    <3>2. NewFragment(msg, number, place, left).data.to
                = NewFragment(msg, number, place, left).data.from
                    + GetLength(NewFragment(msg, number, place, left).seq,
                                NewFragment(msg, number, place, left).pktLen)
      BY <2>1, NewFragmentType
    <3> QED
      BY <3>1, <3>2
  <2> QED
    BY <2>2 DEF number, place, left
<1>3. FragmentCount(len) \in Nat
  BY CountFacts
<1> QED
  BY <1>2, <1>3, SMTT(40) DEF AddBuffer

\* A message of a regular length is cut in as many packets as its first number says, which
\* fits in eight bits: full ones and a last one, numbered 1, with the rest.
LEMMA RegularFragments ==
    ASSUME NEW msg \in Nat, NEW len \in Nat, NEW c, c = FirstSequence(len), Regular(len)
    PROVE  /\ FragmentCount(len) = c /\ c \in Nat /\ 1 <= c /\ c <= 255
           /\ \A i \in 1..c :
                 /\ AddBuffer(msg, len)[i].seq = c + 1 - i
                 /\ AddBuffer(msg, len)[i].data = Run(msg, MaxData * (i - 1),
                                                      IF i = c THEN len ELSE MaxData * i)
<1>1. /\ len \div 256 \in Nat /\ len % 256 \in Nat /\ 1 <= len % 256 /\ len % 256 < 256
      /\ len = 256 * (len \div 256) + (len % 256) /\ len < 65280
  BY Division DEF Regular
<1>2. FragmentCount(len) = c /\ c = (len \div 256) + 1 /\ c \in Nat /\ 1 <= c /\ c <= 255
  BY <1>1 DEF FragmentCount, FirstSequence
<1>3. ASSUME NEW i \in 1..c
      PROVE  /\ AddBuffer(msg, len)[i].seq = c + 1 - i
             /\ AddBuffer(msg, len)[i].data = Run(msg, MaxData * (i - 1),
                                                  IF i = c THEN len ELSE MaxData * i)
  <2> DEFINE p == AddBuffer(msg, len)[i]
             rest == len - 256 * (i - 1)
  <2>1. p = NewFragment(msg, c - (i - 1), 256 * (i - 1), rest)
    BY <1>2 DEF AddBuffer
  <2>2. c - (i - 1) = c + 1 - i /\ c + 1 - i \in Nat /\ 1 <= c + 1 - i
        /\ (c + 1 - i) % 256 = c + 1 - i
    BY <1>2
  <2>3. rest \in Nat /\ (i = c => 1 <= rest /\ rest <= 255) /\ (i # c => rest >= 256)
    BY <1>1, <1>2
  <2>4. SetLength(rest) + 1 = IF i = c THEN rest ELSE 256
    BY <2>3, SetLengthFacts
  <2>5. GetLength(c + 1 - i, SetLength(rest)) = SetLength(rest) + 1
    BY <2>2 DEF GetLength
  <2>6. /\ p.seq = c + 1 - i /\ p.pktLen = SetLength(rest)
        /\ p.data = Run(msg, 256 * (i - 1), 256 * (i - 1) + (SetLength(rest) + 1))
    <3>1. GetLength(c + 1 - i, SetLength(rest)) >= 1
      BY <2>3, <2>5, SetLengthFacts
    <3> QED
      BY <2>1, <2>2, <2>5, <3>1 DEF NewFragment
  <2>7. 256 * (i - 1) + (SetLength(rest) + 1) = IF i = c THEN len ELSE 256 * i
    BY <1>1, <1>2, <2>4
  <2> QED
    BY <2>6, <2>7
<1> QED
  BY <1>2, <1>3
--------------------------------------------------------------------------------
(* Reading.                                                                 *)

\* A read takes at least one byte from a connection that has some, and leaves packets.
LEMMA ReadType ==
    ASSUME NEW frames \in Seq(FrameSet), frames # <<>>, NEW n \in Nat \ {0}
    PROVE  /\ Read(frames, n).got \in Nat /\ Read(frames, n).rest \in Seq(FrameSet)
           /\ Head(frames).read + n < FrameSize(Head(frames).packet)
                => Read(frames, n).rest # <<>>
<1> DEFINE f == Head(frames)
           recordEnd == IF f.read < f.cut THEN f.cut ELSE FrameSize(f.packet)
           end == IF f.read + n < recordEnd THEN f.read + n ELSE recordEnd
<1>1. f \in FrameSet /\ Tail(frames) \in Seq(FrameSet)
  OBVIOUS
<1>2. /\ f.packet \in PacketSet /\ f.read \in Nat /\ f.cut \in Nat
      /\ f.read < FrameSize(f.packet) /\ f.cut < FrameSize(f.packet)
      /\ f.packet.data.to = f.packet.data.from + GetLength(f.packet.seq, f.packet.pktLen)
  BY <1>1 DEF FrameSet
<1> HIDE DEF f
<1>3. FrameSize(f.packet) \in Nat
  <2>1. GetLength(f.packet.seq, f.packet.pktLen) \in Nat
        /\ FrameSize(f.packet) = 4 + GetLength(f.packet.seq, f.packet.pktLen)
    BY <1>2, GetLengthFacts
  <2> QED
    BY <2>1
<1>4. recordEnd \in Nat /\ f.read < recordEnd /\ recordEnd <= FrameSize(f.packet)
  BY <1>2, <1>3
<1>5. end \in Nat /\ f.read < end /\ end <= FrameSize(f.packet)
  <2> HIDE DEF recordEnd
  <2>1. f.read + n \in Nat /\ f.read < f.read + n
    BY <1>2
  <2> QED
    BY <1>2, <1>3, <1>4, <2>1
<1>6. Read(frames, n) =
        [got |-> end - f.read,
         rest |-> IF end = FrameSize(f.packet) THEN Tail(frames)
                  ELSE <<[f EXCEPT !.read = end]>> \o Tail(frames)]
  BY DEF Read, f
<1> HIDE DEF recordEnd, end
<1>7. ASSUME end # FrameSize(f.packet)
      PROVE  <<[f EXCEPT !.read = end]>> \o Tail(frames) \in Seq(FrameSet)
  <2>1. [f EXCEPT !.read = end] \in FrameSet
    BY <1>1, <1>2, <1>3, <1>5, <1>7, SMTT(40) DEF FrameSet
  <2>2. <<[f EXCEPT !.read = end]>> \in Seq(FrameSet)
    BY <2>1
  <2> QED
    BY <1>1, <2>2
<1>8. end - f.read \in Nat
  BY <1>2, <1>5
<1>9. ASSUME f.read + n < FrameSize(f.packet)
      PROVE  Read(frames, n).rest # <<>>
  <2>1. end # FrameSize(f.packet)
    BY <1>2, <1>3, <1>4, <1>9 DEF end
  <2>2. <<[f EXCEPT !.read = end]>> \o Tail(frames) # <<>>
    BY <1>1
  <2> QED
    BY <1>6, <2>1, <2>2
<1> QED
  BY <1>1, <1>6, <1>7, <1>8, <1>9 DEF f

\* An unread packet in which no record ends is read whole, its header and then its data.
LEMMA ReadWhole ==
    ASSUME NEW frames \in Seq(FrameSet), frames # <<>>,
           Head(frames).read = 0, Head(frames).cut \in {0, HeaderSize}
    PROVE  LET p == Head(frames).packet
               header == Read(frames, HeaderSize)
           IN  /\ header.got = HeaderSize
               /\ DataToRead(p) = 0 => header.rest = Tail(frames)
               /\ DataToRead(p) # 0 =>
                     /\ Read(header.rest, DataToRead(p)).got = DataToRead(p)
                     /\ Read(header.rest, DataToRead(p)).rest = Tail(frames)
<1> DEFINE f == Head(frames)
           p == f.packet
           d == DataToRead(p)
           g == [f EXCEPT !.read = 4]
           more == <<g>> \o Tail(frames)
<1>1. f \in FrameSet /\ Tail(frames) \in Seq(FrameSet) /\ f.read = 0 /\ f.cut \in {0, 4}
  OBVIOUS
<1>2. Read(frames, HeaderSize) =
        LET recordEnd == IF f.read < f.cut THEN f.cut ELSE FrameSize(f.packet)
            end == IF f.read + 4 < recordEnd THEN f.read + 4 ELSE recordEnd
        IN  [got |-> end - f.read,
             rest |-> IF end = FrameSize(f.packet) THEN Tail(frames)
                      ELSE <<[f EXCEPT !.read = end]>> \o Tail(frames)]
  BY DEF Read
<1> HIDE DEF f
<1>3. p \in PacketSet /\ d \in Nat /\ FrameSize(p) = 4 + d /\ f.cut < FrameSize(p)
  <2>1. p \in PacketSet /\ f.cut < FrameSize(p)
    BY <1>1 DEF FrameSet
  <2>2. GetLength(p.seq, p.pktLen) \in Nat /\ d = GetLength(p.seq, p.pktLen)
        /\ FrameSize(p) = 4 + GetLength(p.seq, p.pktLen)
    BY <2>1, GetLengthFacts
  <2> QED
    BY <2>1, <2>2
<1> HIDE DEF p, d
<1>4. Read(frames, HeaderSize) =
        [got |-> 4, rest |-> IF d = 0 THEN Tail(frames) ELSE more]
  <2> DEFINE recordEnd == IF f.read < f.cut THEN f.cut ELSE FrameSize(p)
             end == IF f.read + 4 < recordEnd THEN f.read + 4 ELSE recordEnd
  <2>1. end = 4 /\ end - f.read = 4 /\ (end = FrameSize(p) <=> d = 0)
    BY <1>1, <1>3
  <2>2. Read(frames, HeaderSize) =
          [got |-> end - f.read,
           rest |-> IF end = FrameSize(p) THEN Tail(frames)
                    ELSE <<[f EXCEPT !.read = end]>> \o Tail(frames)]
    BY <1>2 DEF p
  <2> HIDE DEF end
  <2> QED
    BY <2>1, <2>2
<1>5. g \in [packet : PacketSet, read : Nat, cut : Nat] /\ g.read = 4 /\ g.cut = f.cut
      /\ g.packet = p
  BY <1>1 DEF FrameSet, p
<1> HIDE DEF g
<1>6. Head(more) = g /\ Tail(more) = Tail(frames)
  BY <1>1, <1>5
<1>7. ASSUME d # 0
      PROVE  Read(more, d) = [got |-> d, rest |-> Tail(frames)]
  <2> DEFINE recordEnd == IF g.read < g.cut THEN g.cut ELSE FrameSize(p)
             end == IF g.read + d < recordEnd THEN g.read + d ELSE recordEnd
  <2>1. Read(more, d) =
          [got |-> end - g.read,
           rest |-> IF end = FrameSize(p) THEN Tail(frames)
                    ELSE <<[g EXCEPT !.read = end]>> \o Tail(frames)]
    <3> HIDE DEF more
    <3> QED
      BY <1>5, <1>6 DEF Read
  <2>2. end = FrameSize(p) /\ end - g.read = d
    BY <1>1, <1>3, <1>5
  <2> HIDE DEF end
  <2> QED
    BY <2>1, <2>2
<1>8. Read(frames, HeaderSize).got = 4 /\ (d = 0 => Read(frames, HeaderSize).rest = Tail(frames))
      /\ (d # 0 => Read(frames, HeaderSize).rest = more)
  BY <1>4
<1> HIDE DEF more
<1>9. d # 0 => /\ Read(Read(frames, HeaderSize).rest, d).got = d
               /\ Read(Read(frames, HeaderSize).rest, d).rest = Tail(frames)
  BY <1>7, <1>8
<1> QED
  BY <1>8, <1>9 DEF d, p, f

\* The buffer stays a sequence of runs.
LEMMA ExtendType ==
    ASSUME NEW runs \in Seq(RunSet), NEW r \in RunSet
    PROVE  Extend(runs, r) \in Seq(RunSet)
<1>1. CASE runs = <<>>
  BY <1>1 DEF Extend
<1>2. CASE runs # <<>>
  <2> DEFINE last == runs[Len(runs)]
  <2>1. last \in RunSet /\ Len(runs) \in 1..Len(runs)
    BY <1>2
  <2>2. Run(r.msg, last.from, r.to) \in RunSet
    BY <2>1 DEF Run, RunSet
  <2>3. [runs EXCEPT ![Len(runs)] = Run(r.msg, last.from, r.to)] \in Seq(RunSet)
    BY <2>1, <2>2
  <2> QED
    BY <2>3 DEF Extend
<1> QED
  BY <1>1, <1>2
--------------------------------------------------------------------------------
(* Types.                                                                   *)

\* The packets of a message, on the connection.
LEMMA FramesType ==
    ASSUME NEW msg \in Nat, NEW len \in Nat, NEW c \in Nat
    PROVE  /\ Frames(AddBuffer(msg, len), c) \in Seq(FrameSet)
           /\ Len(Frames(AddBuffer(msg, len), c)) = FragmentCount(len)
           /\ \A i \in 1..FragmentCount(len) :
                 /\ Frames(AddBuffer(msg, len), c)[i].packet = AddBuffer(msg, len)[i]
                 /\ Frames(AddBuffer(msg, len), c)[i].read = 0
                 /\ Frames(AddBuffer(msg, len), c)[i].cut \in {0, c}
<1>0. PICK packets : packets = AddBuffer(msg, len)
  OBVIOUS
<1>1. packets \in Seq(PacketSet) /\ Len(packets) = FragmentCount(len)
  BY <1>0, AddBufferType
<1>2. FragmentCount(len) \in Nat
  BY CountFacts
<1>3. ASSUME NEW i \in 1..FragmentCount(len)
      PROVE  /\ Frame(packets[i], c) \in FrameSet
             /\ Frame(packets[i], c).packet = packets[i] /\ Frame(packets[i], c).read = 0
             /\ Frame(packets[i], c).cut \in {0, c}
  <2>1. packets[i] \in PacketSet
    BY <1>1
  <2>2. FrameSize(packets[i]) \in Nat /\ FrameSize(packets[i]) > 0
    <3>1. GetLength(packets[i].seq, packets[i].pktLen) \in Nat
          /\ FrameSize(packets[i]) = 4 + GetLength(packets[i].seq, packets[i].pktLen)
      BY <2>1, GetLengthFacts
    <3> QED
      BY <3>1
  <2>3. packets[i].data.to
          = packets[i].data.from + GetLength(packets[i].seq, packets[i].pktLen)
    BY <1>0, AddBufferType
  <2> QED
    BY <2>1, <2>2, <2>3 DEF Frame, FrameSet
<1>4. Frames(packets, c) = [i \in 1..FragmentCount(len) |-> Frame(packets[i], c)]
  BY <1>1 DEF Frames
<1>5. /\ Frames(packets, c) \in Seq(FrameSet) /\ Len(Frames(packets, c)) = FragmentCount(len)
      /\ \A i \in 1..FragmentCount(len) : Frames(packets, c)[i] = Frame(packets[i], c)
  BY <1>2, <1>3, <1>4
<1> QED
  BY <1>0, <1>3, <1>5

LEMMA SendMessageType ==
    ASSUME TypeOK, NEW len \in Lengths, NEW c \in Cuts, SendMessage(len, c)
    PROVE  TypeOK'
<1>0. PICK frames : frames = Frames(AddBuffer(Len(sent) + 1, len), c)
  OBVIOUS
<1>1. len \in Nat /\ c \in Nat /\ Len(sent) + 1 \in Nat
  BY FragmentsAssumption DEF TypeOK
<1>2. frames \in Seq(FrameSet)
  BY <1>0, <1>1, FramesType
<1>3. /\ sent' = Append(sent, len) /\ wire' = wire \o frames
      /\ temp' = temp /\ delivered' = delivered /\ garbled' = garbled
  BY <1>0 DEF SendMessage
<1>4. split' \in BOOLEAN
  BY Zenon DEF SendMessage
<1>5. wire' \in Seq(FrameSet)
  BY <1>2, <1>3 DEF TypeOK
<1> QED
  BY <1>3, <1>4, <1>5 DEF TypeOK

LEMMA ReceiveFragmentType ==
    ASSUME TypeOK, ReceiveFragment
    PROVE  TypeOK'
<1> DEFINE f == Head(wire)
           packet == f.packet
           header == Read(wire, HeaderSize)
           d == DataToRead(packet)
           data == IF d = 0 THEN [got |-> 0, rest |-> header.rest] ELSE Read(header.rest, d)
           whole == Extend(temp, Run(packet.data.msg, packet.data.from,
                                     packet.data.from + data.got))
<1>1. /\ wire # <<>> /\ sent' = sent /\ split' = split
      /\ \/ garbled' = TRUE /\ UNCHANGED <<wire, temp, delivered>>
         \/ /\ f.read = 0 /\ wire' = data.rest /\ garbled' = garbled
            /\ \/ delivered' = Append(delivered, whole) /\ temp' = <<>>
               \/ delivered' = delivered /\ temp' = whole
  BY DEF ReceiveFragment
<1>2. f \in FrameSet
  BY <1>1 DEF TypeOK
<1>3. packet \in PacketSet /\ packet.data \in RunSet
  BY <1>2 DEF FrameSet, PacketSet
<1>4. d \in Nat /\ FrameSize(packet) = 4 + d
  BY <1>3, GetLengthFacts
<1>5. header.rest \in Seq(FrameSet) /\ (f.read + 4 < FrameSize(packet) => header.rest # <<>>)
  <2>1. wire \in Seq(FrameSet) /\ wire # <<>> /\ HeaderSize \in Nat \ {0}
    BY <1>1 DEF TypeOK
  <2>2. header.rest \in Seq(FrameSet)
    BY <2>1, ReadType
  <2>3. Head(wire).read + HeaderSize < FrameSize(Head(wire).packet)
          => Read(wire, HeaderSize).rest # <<>>
    BY <2>1, ReadType
  <2> QED
    BY <2>2, <2>3
<1> HIDE DEF f, header, d
<1>6. CASE garbled' = TRUE /\ UNCHANGED <<wire, temp, delivered>>
  BY <1>1, <1>6 DEF TypeOK
<1>7. CASE f.read = 0 /\ wire' = data.rest /\ garbled' = garbled
  <2>1. data.got \in Nat /\ data.rest \in Seq(FrameSet)
    <3>1. CASE d = 0
      BY <1>5, <3>1
    <3>2. CASE d # 0
      <4>1. header.rest # <<>> /\ d \in Nat \ {0}
        BY <1>4, <1>5, <1>7, <3>2
      <4> QED
        BY <1>5, <3>2, <4>1, ReadType
    <3> QED
      BY <3>1, <3>2
  <2> HIDE DEF data
  <2>2. Run(packet.data.msg, packet.data.from, packet.data.from + data.got) \in RunSet
    BY <1>3, <2>1 DEF Run, RunSet
  <2>3. whole \in Seq(RunSet)
    BY <2>2, ExtendType DEF TypeOK
  <2> HIDE DEF whole
  <2>4. temp' \in Seq(RunSet) /\ delivered' \in Seq(Seq(RunSet))
    <3>1. <<>> \in Seq(RunSet) /\ temp \in Seq(RunSet) /\ delivered \in Seq(Seq(RunSet))
      BY DEF TypeOK
    <3>2. \/ delivered' = Append(delivered, whole) /\ temp' = <<>>
          \/ delivered' = delivered /\ temp' = whole
          \/ delivered' = delivered /\ temp' = temp
      BY <1>1
    <3>3. Append(delivered, whole) \in Seq(Seq(RunSet))
      <4> DEFINE S == Seq(RunSet)
      <4>1. whole \in S /\ delivered \in Seq(S)
        BY <2>3, <3>1
      <4> HIDE DEF S
      <4>2. Append(delivered, whole) \in Seq(S)
        BY <4>1
      <4> QED
        BY <4>2 DEF S
    <3> QED
      BY <2>3, <3>1, <3>2, <3>3, Zenon
  <2> QED
    BY <1>1, <1>7, <2>1, <2>4 DEF TypeOK
<1> QED
  BY <1>1, <1>6, <1>7

\* Types: the fields of the packets keep their eight bits, and a read never goes past the
\* end of a packet.
THEOREM TypesHold == Spec => []TypeOK
<1>1. Init => TypeOK
  <2>1. /\ <<>> \in Seq(Lengths) /\ <<>> \in Seq(FrameSet) /\ <<>> \in Seq(RunSet)
        /\ <<>> \in Seq(Seq(RunSet))
    OBVIOUS
  <2> QED
    BY <2>1 DEF Init, TypeOK
<1>2. TypeOK /\ [Next]_vars => TypeOK'
  <2> SUFFICES ASSUME TypeOK, [Next]_vars PROVE TypeOK'
    OBVIOUS
  <2>1. ASSUME NEW len \in Lengths, NEW c \in Cuts, SendMessage(len, c)
        PROVE  TypeOK'
    BY <2>1, SendMessageType
  <2>2. CASE ReceiveFragment
    BY <2>2, ReceiveFragmentType
  <2>3. CASE UNCHANGED vars
    BY <2>3 DEF vars, TypeOK
  <2> QED
    BY <2>1, <2>2, <2>3 DEF Next, Stop
<1> QED
  BY <1>1, <1>2, PTL DEF Spec
--------------------------------------------------------------------------------
(* Headers.                                                                 *)

\* As long as no record ended inside a header or inside data, RecvPacket takes the first
\* packet off the connection with all its data.
LEMMA ReceiveWhole ==
    ASSUME TypeOK, FramesUnread, ~split, ReceiveFragment
    PROVE  LET p == Head(wire).packet
           IN  /\ wire # <<>> /\ wire' = Tail(wire) /\ garbled' = garbled
               /\ IF p.seq = 1
                  THEN delivered' = Append(delivered, Extend(temp, p.data)) /\ temp' = <<>>
                  ELSE delivered' = delivered /\ temp' = Extend(temp, p.data)
<1> DEFINE f == Head(wire)
           p == f.packet
           header == Read(wire, HeaderSize)
           d == DataToRead(p)
           data == IF d = 0 THEN [got |-> 0, rest |-> header.rest] ELSE Read(header.rest, d)
           whole == Extend(temp, Run(p.data.msg, p.data.from, p.data.from + data.got))
<1>1. /\ wire # <<>>
      /\ IF f.read # 0 \/ header.got < HeaderSize
         THEN garbled' = TRUE /\ UNCHANGED <<wire, temp, delivered>>
         ELSE /\ wire' = data.rest
              /\ IF p.seq = 1
                 THEN delivered' = Append(delivered, whole) /\ temp' = <<>>
                 ELSE delivered' = delivered /\ temp' = whole
              /\ UNCHANGED garbled
  BY DEF ReceiveFragment
<1>2. f \in FrameSet /\ f = wire[1] /\ 1 \in 1..Len(wire)
  BY <1>1 DEF TypeOK
<1>3. f.read = 0 /\ f.cut \in {0, HeaderSize}
  BY <1>2 DEF FramesUnread
<1>4. /\ header.got = HeaderSize
      /\ d = 0 => header.rest = Tail(wire)
      /\ d # 0 => Read(header.rest, d).got = d /\ Read(header.rest, d).rest = Tail(wire)
  BY <1>1, <1>3, ReadWhole DEF TypeOK
<1>5. data.got = d /\ data.rest = Tail(wire)
  BY <1>4
<1>6. /\ p.data \in RunSet /\ p.data.to = p.data.from + d
  <2>1. p \in PacketSet /\ p.data.to = p.data.from + GetLength(p.seq, p.pktLen)
    BY <1>2 DEF FrameSet
  <2>2. d = GetLength(p.seq, p.pktLen)
    BY <2>1, GetLengthFacts
  <2> QED
    BY <2>1, <2>2 DEF PacketSet
<1> HIDE DEF f, d, data
<1>7. Run(p.data.msg, p.data.from, p.data.from + data.got) = p.data
  BY <1>5, <1>6 DEF RunSet, Run
<1>8. whole = Extend(temp, p.data)
  BY <1>7
<1>9. ~(f.read # 0 \/ header.got < HeaderSize)
  BY <1>3, <1>4
<1> HIDE DEF p, header, whole
<1> QED
  BY <1>1, <1>5, <1>8, <1>9 DEF f, p

LEMMA UnreadStep ==
    ASSUME TypeOK, FramesUnread, [Next]_vars
    PROVE  FramesUnread'
<1>1. ASSUME NEW len \in Lengths, NEW c \in Cuts, SendMessage(len, c)
      PROVE  FramesUnread'
  <2> SUFFICES ASSUME ~split'
               PROVE  FramesUnread'
    BY DEF FramesUnread
  <2>a. PICK msg : msg = Len(sent) + 1
    OBVIOUS
  <2>0. PICK frames : frames = Frames(AddBuffer(msg, len), c)
    OBVIOUS
  <2>1. /\ ~split /\ c \in {0, HeaderSize} /\ wire' = wire \o frames /\ garbled' = garbled
    BY <1>1, <2>a, <2>0, Zenon DEF SendMessage
  <2>2. len \in Nat /\ c \in Nat /\ msg \in Nat
    BY <2>a, FragmentsAssumption DEF TypeOK
  <2>3. /\ frames \in Seq(FrameSet) /\ Len(frames) = FragmentCount(len)
        /\ \A i \in 1..FragmentCount(len) : frames[i].read = 0 /\ frames[i].cut \in {0, c}
    <3>1. frames \in Seq(FrameSet) /\ Len(frames) = FragmentCount(len)
      BY <2>0, <2>2, FramesType
    <3>2. ASSUME NEW i \in 1..FragmentCount(len)
          PROVE  frames[i].read = 0 /\ frames[i].cut \in {0, c}
      BY <2>0, <2>2, FramesType
    <3> QED
      BY <3>1, <3>2
  <2>4. ~garbled /\ \A k \in 1..Len(wire) : wire[k].read = 0 /\ wire[k].cut \in {0, HeaderSize}
    BY <2>1 DEF FramesUnread
  <2>5. ASSUME NEW k \in 1..Len(wire')
        PROVE  wire'[k].read = 0 /\ wire'[k].cut \in {0, HeaderSize}
    <3>1. CASE k \in 1..Len(wire)
      BY <2>1, <2>3, <2>4, <3>1 DEF TypeOK
    <3>2. CASE k \notin 1..Len(wire)
      <4>1. wire'[k] = frames[k - Len(wire)] /\ k - Len(wire) \in 1..Len(frames)
        BY <2>1, <2>3, <3>2 DEF TypeOK
      <4> QED
        BY <2>1, <2>3, <4>1
    <3> QED
      BY <3>1, <3>2
  <2> QED
    BY <2>1, <2>4, <2>5 DEF FramesUnread
<1>2. CASE ReceiveFragment
  <2> SUFFICES ASSUME ~split
               PROVE  FramesUnread'
    BY <1>2 DEF FramesUnread, ReceiveFragment
  <2>1. wire # <<>> /\ wire' = Tail(wire) /\ garbled' = garbled
    BY <1>2, ReceiveWhole
  <2>2. \A k \in 1..Len(wire') : wire'[k] = wire[k + 1] /\ k + 1 \in 1..Len(wire)
    BY <2>1 DEF TypeOK
  <2> QED
    BY <1>2, <2>1, <2>2 DEF FramesUnread
<1>3. CASE UNCHANGED vars
  BY <1>3 DEF vars, FramesUnread
<1> QED
  BY <1>1, <1>2, <1>3 DEF Next, Stop

\* Init, with nothing sent.
LEMMA UnreadInit == Init => FramesUnread
  BY DEF Init, FramesUnread

\* RecvPacket never takes data for a header, whatever lengths were sent, unless a record
\* ended inside a header or inside data.
THEOREM HeadersAreFound == Spec => []HeadersFound
<1>1. FramesUnread /\ TypeOK => HeadersFound
  BY DEF FramesUnread, TypeOK, HeadersFound
<1>2. TypeOK /\ FramesUnread /\ [Next]_vars => FramesUnread'
  BY UnreadStep
<1> QED
  BY <1>1, <1>2, UnreadInit, TypesHold, PTL DEF Spec
--------------------------------------------------------------------------------
(* Regular lengths.                                                         *)

\* What the buffer holds after the first packet of a message, and after the next one.
LEMMA ExtendFacts ==
    ASSUME NEW j \in Nat, NEW x \in Nat, NEW y \in Nat, x # y
    PROVE  /\ Extend(<<>>, Run(j, x, y)) = <<Run(j, x, y)>>
           /\ Extend(<<Run(j, 0, x)>>, Run(j, x, y)) = <<Run(j, 0, y)>>
<1>1. /\ Run(j, x, y).from # Run(j, x, y).to /\ Run(j, x, y).from = x
      /\ Run(j, x, y).msg = j /\ Run(j, x, y).to = y
      /\ Run(j, 0, x).msg = j /\ Run(j, 0, x).to = x /\ Run(j, 0, x).from = 0
  BY DEF Run
<1>2. Extend(<<>>, Run(j, x, y)) = <<Run(j, x, y)>>
  BY <1>1 DEF Extend
<1>3. Extend(<<Run(j, 0, x)>>, Run(j, x, y)) = <<Run(j, 0, y)>>
  <2> DEFINE runs == <<Run(j, 0, x)>>
  <2>1. Len(runs) = 1 /\ runs # <<>> /\ runs[1] = Run(j, 0, x)
    OBVIOUS
  <2>2. Extend(runs, Run(j, x, y)) = [runs EXCEPT ![1] = Run(j, 0, y)]
    <3> HIDE DEF runs
    <3> QED
      BY <1>1, <2>1 DEF Extend
  <2>3. [runs EXCEPT ![1] = Run(j, 0, y)] = <<Run(j, 0, y)>>
    OBVIOUS
  <2> QED
    BY <2>2, <2>3
<1> QED
  BY <1>2, <1>3

\* The message numbers and lengths of regular messages.
LEMMA RegularCount ==
    ASSUME TypeOK, AllRegular, NEW j \in 1..Len(sent)
    PROVE  /\ sent[j] \in Nat /\ Regular(sent[j])
           /\ FirstSequence(sent[j]) \in Nat /\ 1 <= FirstSequence(sent[j])
           /\ MaxData * (FirstSequence(sent[j]) - 1) < sent[j]
<1>1. sent[j] \in Nat /\ Regular(sent[j])
  <2>1. sent[j] \in Lengths
    BY DEF TypeOK
  <2> QED
    BY <2>1, FragmentsAssumption DEF AllRegular
<1>2. FirstSequence(sent[j]) \in Nat /\ 1 <= FirstSequence(sent[j])
      /\ FragmentCount(sent[j]) = FirstSequence(sent[j])
  BY <1>1, RegularFragments
<1>3. \A i \in 1..FragmentCount(sent[j]) : MaxData * (i - 1) < sent[j]
  BY <1>1, CountFacts
<1>4. FirstSequence(sent[j]) \in 1..FragmentCount(sent[j])
  BY <1>2
<1> QED
  BY <1>1, <1>2, <1>3, <1>4

\* AddBuffer's packets go behind the last packet of the message before.
LEMMA SendInOrder ==
    ASSUME TypeOK, InOrder, NEW len \in Lengths, NEW c \in Cuts, SendMessage(len, c)
    PROVE  InOrder'
<1> SUFFICES ASSUME AllRegular', ~split'
             PROVE  WireInOrder' /\ BufferFollows' /\ DeliveredWhole'
  BY DEF InOrder
<1>0. PICK n, w, m, msg : /\ n = Len(sent) /\ w = Len(wire) /\ m = FirstSequence(len)
                          /\ msg = n + 1
  OBVIOUS
<1>a. PICK packets : packets = AddBuffer(msg, len)
  OBVIOUS
<1>b. PICK frames : frames = Frames(packets, c)
  OBVIOUS
<1>1. /\ sent' = Append(sent, len) /\ wire' = wire \o frames
      /\ temp' = temp /\ delivered' = delivered
  BY <1>0, <1>a, <1>b DEF SendMessage
<1>2. ~split
  BY Zenon DEF SendMessage
<1>3. /\ sent \in Seq(Lengths) /\ n \in Nat /\ len \in Nat /\ c \in Nat /\ Len(sent') = msg /\ msg \in Nat /\ n < msg
      /\ \A j \in 1..n : sent'[j] = sent[j]
      /\ sent'[msg] = len
  BY <1>0, <1>1, FragmentsAssumption DEF TypeOK
<1>4. AllRegular /\ Regular(len)
  BY <1>0, <1>3 DEF AllRegular
<1>5. WireInOrder /\ BufferFollows /\ DeliveredWhole
  BY <1>2, <1>4 DEF InOrder
<1>6. /\ FragmentCount(len) = m /\ m \in Nat /\ 1 <= m
      /\ \A i \in 1..m : /\ packets[i].seq = m + 1 - i
                         /\ packets[i].data = Run(msg, 256 * (i - 1),
                                                  IF i = m THEN len ELSE 256 * i)
  <2>1. msg \in Nat
    BY <1>0, <1>3
  <2> QED
    BY <1>0, <1>a, <1>3, <1>4, <2>1, RegularFragments
<1>7. /\ frames \in Seq(FrameSet) /\ Len(frames) = m
      /\ \A i \in 1..m : frames[i].packet = packets[i]
  <2>1. msg \in Nat
    BY <1>0, <1>3
  <2> QED
    <3>1. frames \in Seq(FrameSet) /\ Len(frames) = FragmentCount(len)
      BY <1>a, <1>b, <1>3, <2>1, FramesType, SMTT(40)
    <3>2. ASSUME NEW i \in 1..FragmentCount(len)
          PROVE  frames[i].packet = packets[i]
      <4>1. len \in Nat /\ c \in Nat
        BY <1>3
      <4> QED
        BY <1>a, <1>b, <2>1, <4>1, FramesType
    <3> QED
      BY <1>6, <3>1, <3>2
<1>8. /\ w \in Nat /\ Len(wire') = w + m
      /\ \A k \in 1..w : wire'[k] = wire[k]
      /\ \A i \in 1..m : wire'[w + i] = frames[i]
  <2>1. wire \in Seq(FrameSet)
    BY DEF TypeOK
  <2> QED
    <3>1. w \in Nat /\ Len(wire') = w + m
      <4>1. wire' = wire \o frames /\ frames \in Seq(FrameSet) /\ Len(frames) = m
        BY <1>1, <1>7
      <4>2. Len(wire') = Len(wire) + Len(frames) /\ Len(wire) \in Nat
        <5>1. Len(wire \o frames) = Len(wire) + Len(frames)
          BY <2>1, <4>1, ConcatFacts
        <5>2. Len(wire) \in Nat
          BY <2>1
        <5> QED
          BY <4>1, <5>1, <5>2
      <4> QED
        BY <1>0, <4>1, <4>2
    <3>2. ASSUME NEW k \in 1..w PROVE wire'[k] = wire[k]
      BY <1>0, <1>1, <1>7, <2>1
    <3>3. ASSUME NEW i \in 1..m PROVE wire'[w + i] = frames[i]
      BY <1>0, <1>1, <1>7, <2>1
    <3> QED
      BY <3>1, <3>2, <3>3
<1>9. m \in Nat /\ m >= 1 /\ w \in Nat /\ Len(wire') = w + m
  BY <1>6, <1>8
<1>10. \A k \in 1..w : Msg(k)' = Msg(k) /\ Number(k)' = Number(k)
  BY <1>8 DEF Msg, Number
<1>11. \A i \in 1..m : Msg(w + i)' = msg /\ Number(w + i)' = m + 1 - i
  <2> TAKE i \in 1..m
  <2>1. wire'[w + i].packet = packets[i]
    BY <1>7, <1>8
  <2>2. Run(msg, 256 * (i - 1), IF i = m THEN len ELSE 256 * i).msg = msg
    BY DEF Run
  <2> QED
    BY <1>6, <2>1, <2>2 DEF Msg, Number
<1>12. \A k \in 1..w : Msg(k) \in 1..n
  BY <1>0, <1>5 DEF WireInOrder
<1>13. ASSUME NEW k \in 1..Len(wire')
       PROVE  k \in 1..w \/ \E i \in 1..m : k = w + i
  <2>1. CASE k > w
    <3>1. k - w \in 1..m /\ k = w + (k - w)
      BY <1>6, <1>8, <2>1
    <3> QED
      BY <3>1
  <2> QED
    BY <1>8, <2>1
<1>14. \A k \in 1..Len(wire') :
           /\ Msg(k)' \in 1..Len(sent')
           /\ IsPacket(wire'[k].packet, Msg(k)', sent'[Msg(k)'], Number(k)')
  <2> TAKE k \in 1..Len(wire')
  <2>1. CASE k \in 1..w
    <3>1. Msg(k) \in 1..n /\ IsPacket(wire[k].packet, Msg(k), sent[Msg(k)], Number(k))
      BY <1>0, <1>5, <2>1 DEF WireInOrder
    <3> QED
      BY <1>3, <1>8, <1>10, <2>1, <3>1
  <2>2. ASSUME NEW i \in 1..m, k = w + i
        PROVE  /\ Msg(k)' \in 1..Len(sent')
               /\ IsPacket(wire'[k].packet, Msg(k)', sent'[Msg(k)'], Number(k)')
    <3>1. /\ Msg(k)' = msg /\ Number(k)' = m + 1 - i /\ wire'[k].packet = packets[i]
      BY <1>7, <1>8, <1>11, <2>2
    <3>2. m + 1 - i \in 1..m /\ m - (m + 1 - i) = i - 1 /\ m - (m + 1 - i) + 1 = i
          /\ (m + 1 - i = 1 <=> i = m)
      BY <1>6
    <3>3. IsPacket(packets[i], msg, len, m + 1 - i)
      <4>1. /\ packets[i].seq = m + 1 - i
            /\ packets[i].data = Run(msg, 256 * (i - 1), IF i = m THEN len ELSE 256 * i)
        BY <1>6, <2>2
      <4>2. (IF m + 1 - i = 1 THEN len ELSE 256 * (m - (m + 1 - i) + 1))
              = (IF i = m THEN len ELSE 256 * i)
        BY <3>2
      <4> QED
        BY <1>0, <3>2, <4>1, <4>2 DEF IsPacket
    <3> QED
      BY <1>3, <3>1, <3>3
  <2> QED
    BY <1>13, <2>1, <2>2
<1>15. \A k \in 1..(Len(wire') - 1) :
           IF Number(k)' = 1
           THEN Msg(k + 1)' = Msg(k)' + 1 /\ Number(k + 1)' = First(k + 1)'
           ELSE Msg(k + 1)' = Msg(k)' /\ Number(k + 1)' = Number(k)' - 1
  <2> TAKE k \in 1..(Len(wire') - 1)
  <2>1. CASE k + 1 \in 1..w
    <3>1. k \in 1..(w - 1) /\ k \in 1..w
      BY <1>6, <1>8, <2>1
    <3> QED
      BY <1>0, <1>3, <1>5, <1>10, <1>12, <2>1, <3>1 DEF WireInOrder, First
  <2>2. CASE k = w
    <3>1. w # 0 /\ Number(w) = 1 /\ Msg(w) = n
      BY <1>0, <1>5, <1>8, <2>2 DEF WireInOrder
    <3>2. Msg(k)' = n /\ Number(k)' = 1
      BY <1>8, <1>10, <2>2, <3>1
    <3>3. Msg(k + 1)' = msg /\ Number(k + 1)' = m
      BY <1>6, <1>11, <2>2
    <3> QED
      BY <1>0, <1>3, <3>2, <3>3 DEF First
  <2>3. CASE k > w
    <3> DEFINE i == k - w
    <3>1. i \in 1..m /\ i + 1 \in 1..m /\ k = w + i /\ k + 1 = w + (i + 1)
      BY <1>9, <2>3
    <3>2. Msg(k)' = msg /\ Number(k)' = m + 1 - i
          /\ Msg(k + 1)' = msg /\ Number(k + 1)' = m + 1 - (i + 1)
      BY <1>11, <3>1
    <3> QED
      BY <1>6, <3>1, <3>2
  <2> QED
    BY <1>8, <2>1, <2>2, <2>3
<1>16. wire' # <<>> /\ Number(Len(wire))' = 1 /\ Msg(Len(wire))' = Len(sent')
  <2>1. PICK k : k = Len(wire')
    OBVIOUS
  <2>2. k = w + m /\ m \in 1..m /\ k # 0
    BY <1>9, <2>1
  <2>3. Msg(k)' = msg /\ Number(k)' = m + 1 - m
    BY <1>11, <2>2
  <2>4. Number(Len(wire))' = Number(k)' /\ Msg(Len(wire))' = Msg(k)'
    BY <2>1 DEF Number, Msg
  <2>5. wire' # <<>>
    BY <2>1, <2>2
  <2> QED
    BY <1>3, <1>9, <2>3, <2>4, <2>5
<1>17. BufferFollows'
  <2>1. CASE wire = <<>>
    <3>1. Len(delivered) = n /\ temp = <<>> /\ w = 0
      BY <1>0, <1>5, <2>1 DEF BufferFollows
    <3>2. Msg(1)' = msg /\ Number(1)' = m
      BY <1>6, <1>11, <3>1
    <3> QED
      <4>1. First(1)' = m /\ Len(delivered') + 1 = msg
        BY <1>0, <1>1, <1>3, <3>1, <3>2 DEF First
      <4> QED
        BY <1>1, <1>16, <3>1, <3>2, <4>1 DEF BufferFollows
  <2>2. CASE wire # <<>>
    <3>1. 1 \in 1..w
      BY <1>0, <1>8, <2>2 DEF TypeOK
    <3>2. Msg(1)' = Msg(1) /\ Number(1)' = Number(1) /\ First(1)' = First(1)
      BY <1>3, <1>10, <1>12, <3>1 DEF First
    <3> QED
      BY <1>1, <1>5, <1>16, <2>2, <3>2 DEF BufferFollows
  <2> QED
    BY <2>1, <2>2
<1>18. DeliveredWhole'
  <2>1. Len(delivered) <= n /\ Len(delivered) \in Nat
    <3>1. Len(delivered) \in Nat
      BY DEF TypeOK
    <3>2. CASE wire = <<>>
      BY <1>0, <1>3, <1>5, <3>2 DEF BufferFollows
    <3>3. CASE wire # <<>>
      <4>1. 1 \in 1..w
        BY <1>0, <1>8, <3>3 DEF TypeOK
      <4> QED
        BY <1>3, <1>5, <1>12, <3>1, <3>3, <4>1 DEF BufferFollows
    <3> QED
      BY <3>1, <3>2, <3>3
  <2> QED
    BY <1>1, <1>3, <1>5, <2>1 DEF DeliveredWhole, Whole
<1> QED
  <2>1. WireInOrder'
    BY <1>14, <1>15, <1>16 DEF WireInOrder
  <2> QED
    BY <1>17, <1>18, <2>1

\* RecvPacket and the handler take the next packet of the message that is being put
\* together, and with the packet numbered 1 they have all of it.
LEMMA ReceiveInOrder ==
    ASSUME TypeOK, FramesUnread, InOrder, ReceiveFragment
    PROVE  InOrder'
<1> SUFFICES ASSUME AllRegular', ~split'
             PROVE  WireInOrder' /\ BufferFollows' /\ DeliveredWhole'
  BY DEF InOrder
<1>1. sent' = sent /\ ~split /\ wire # <<>>
  BY DEF ReceiveFragment
<1>2. AllRegular
  BY <1>1 DEF AllRegular
<1>3. WireInOrder /\ BufferFollows /\ DeliveredWhole
  BY <1>1, <1>2 DEF InOrder
<1>4. PICK p, j, s, c, len, w :
          /\ p = wire[1].packet /\ j = Msg(1) /\ s = Number(1) /\ c = First(1)
          /\ len = sent[j] /\ w = Len(wire)
  OBVIOUS
<1>5. /\ w \in Nat /\ 1 <= w
      /\ wire' = Tail(wire) /\ Len(wire') = w - 1
      /\ \A k \in 1..(w - 1) : wire'[k] = wire[k + 1]
      /\ IF s = 1 THEN delivered' = Append(delivered, Extend(temp, p.data)) /\ temp' = <<>>
                  ELSE delivered' = delivered /\ temp' = Extend(temp, p.data)
  <2>1. wire \in Seq(FrameSet) /\ Head(wire) = wire[1]
    BY <1>1 DEF TypeOK
  <2>2. /\ wire' = Tail(wire)
        /\ IF s = 1 THEN delivered' = Append(delivered, Extend(temp, p.data)) /\ temp' = <<>>
                    ELSE delivered' = delivered /\ temp' = Extend(temp, p.data)
    BY <1>1, <1>4, <2>1, ReceiveWhole DEF Number
  <2>3. Len(wire) \in Nat /\ 1 <= Len(wire)
    BY <1>1, <2>1
  <2>4. Len(Tail(wire)) = Len(wire) - 1
        /\ \A k \in 1..(Len(wire) - 1) : Tail(wire)[k] = wire[k + 1]
    BY <1>1, <2>1
  <2> QED
    BY <1>4, <2>2, <2>3, <2>4
<1>6. 1 \in 1..w /\ \A k \in 1..(w - 1) : k \in 1..w /\ k + 1 \in 1..w
  BY <1>5
<1>7. /\ j \in 1..Len(sent) /\ j \in Nat /\ s \in Nat /\ c \in Nat /\ 1 <= s /\ s <= c
      /\ p.data = Run(j, 256 * (c - s), IF s = 1 THEN len ELSE 256 * (c - s + 1))
  <2>1. j \in 1..Len(sent) /\ IsPacket(p, j, len, s)
    BY <1>3, <1>4, <1>6 DEF WireInOrder
  <2>2. c = FirstSequence(len)
    BY <1>4 DEF First
  <2>3. c \in Nat
    BY <1>2, <1>4, <2>1, <2>2, RegularCount
  <2> QED
    BY <2>1, <2>2, <2>3 DEF IsPacket
<1>8. len \in Nat /\ 256 * (c - 1) < len
  BY <1>2, <1>4, <1>7, RegularCount, ZenonT(40) DEF First
<1>9. /\ \A k \in 1..(w - 1) : /\ Msg(k)' = Msg(k + 1) /\ Number(k)' = Number(k + 1)
                               /\ First(k)' = First(k + 1)
  BY <1>1, <1>5 DEF Msg, Number, First
<1>10. Len(delivered) + 1 = j /\ Len(delivered) \in Nat
       /\ temp = IF s = c THEN <<>> ELSE <<Run(j, 0, 256 * (c - s))>>
  BY <1>1, <1>3, <1>4 DEF BufferFollows, TypeOK
<1>11. Extend(temp, p.data) = <<Run(j, 0, IF s = 1 THEN len ELSE 256 * (c - s + 1))>>
  <2> DEFINE y == IF s = 1 THEN len ELSE 256 * (c - s + 1)
             x == 256 * (c - s)
  <2>1. x \in Nat /\ y \in Nat /\ x # y /\ (s = c => x = 0)
    BY <1>7, <1>8
  <2> HIDE DEF x, y
  <2>2. p.data = Run(j, x, y)
    BY <1>7 DEF x, y
  <2>3. /\ Extend(<<>>, Run(j, x, y)) = <<Run(j, x, y)>>
        /\ Extend(<<Run(j, 0, x)>>, Run(j, x, y)) = <<Run(j, 0, y)>>
    BY <1>7, <2>1, ExtendFacts
  <2>4. Extend(temp, p.data) = <<Run(j, 0, y)>>
    <3>1. CASE s = c
      BY <1>10, <2>1, <2>2, <2>3, <3>1
    <3>2. CASE s # c
      <4>1. temp = <<Run(j, 0, x)>>
        BY <1>10, <3>2 DEF x
      <4> QED
        BY <2>2, <2>3, <4>1
    <3> QED
      BY <3>1, <3>2
  <2> QED
    BY <2>4 DEF y
<1>12. WireInOrder'
  <2>1. \A k \in 1..Len(wire') :
            /\ Msg(k)' \in 1..Len(sent')
            /\ IsPacket(wire'[k].packet, Msg(k)', sent'[Msg(k)'], Number(k)')
    <3> TAKE k \in 1..Len(wire')
    <3>1. k \in 1..(w - 1) /\ k + 1 \in 1..Len(wire)
      BY <1>4, <1>5, <1>6
    <3>2. /\ Msg(k + 1) \in 1..Len(sent)
          /\ IsPacket(wire[k + 1].packet, Msg(k + 1), sent[Msg(k + 1)], Number(k + 1))
      BY <1>3, <3>1 DEF WireInOrder
    <3> QED
      BY <1>1, <1>5, <1>9, <3>1, <3>2
  <2>2. \A k \in 1..(Len(wire') - 1) :
            IF Number(k)' = 1 THEN Msg(k + 1)' = Msg(k)' + 1 /\ Number(k + 1)' = First(k + 1)'
            ELSE Msg(k + 1)' = Msg(k)' /\ Number(k + 1)' = Number(k)' - 1
    <3> TAKE k \in 1..(Len(wire') - 1)
    <3>1. k \in 1..(w - 1) /\ k + 1 \in 1..(w - 1) /\ k + 1 \in 1..(Len(wire) - 1)
      BY <1>4, <1>5
    <3>2. IF Number(k + 1) = 1
          THEN Msg((k + 1) + 1) = Msg(k + 1) + 1 /\ Number((k + 1) + 1) = First((k + 1) + 1)
          ELSE Msg((k + 1) + 1) = Msg(k + 1) /\ Number((k + 1) + 1) = Number(k + 1) - 1
      BY <1>3, <3>1 DEF WireInOrder
    <3>3. /\ Msg(k)' = Msg(k + 1) /\ Number(k)' = Number(k + 1)
          /\ Msg(k + 1)' = Msg((k + 1) + 1) /\ Number(k + 1)' = Number((k + 1) + 1)
          /\ First(k + 1)' = First((k + 1) + 1)
      BY <1>9, <3>1
    <3> QED
      BY <3>2, <3>3
  <2>3. wire' # <<>> => Number(Len(wire))' = 1 /\ Msg(Len(wire))' = Len(sent')
    <3> SUFFICES ASSUME wire' # <<>>
                 PROVE  Number(Len(wire))' = 1 /\ Msg(Len(wire))' = Len(sent')
      OBVIOUS
    <3>1. w - 1 \in 1..(w - 1)
      <4>1. wire' \in Seq(FrameSet)
        BY <1>5, <1>1 DEF TypeOK
      <4>2. Len(wire') # 0 /\ Len(wire') \in Nat
        BY <4>1
      <4> QED
        BY <1>5, <4>2
    <3>2. Msg(w - 1)' = Msg(w) /\ Number(w - 1)' = Number(w)
      <4>1. (w - 1) + 1 = w
        BY <1>5
      <4> QED
        BY <1>9, <3>1, <4>1
    <3>3. Number(w) = 1 /\ Msg(w) = Len(sent)
      BY <1>1, <1>3, <1>4 DEF WireInOrder
    <3>4. PICK v : v = w - 1
      OBVIOUS
    <3>5. Number(Len(wire))' = Number(v)' /\ Msg(Len(wire))' = Msg(v)'
      BY <1>5, <3>4 DEF Number, Msg
    <3> QED
      BY <1>1, <3>2, <3>3, <3>4, <3>5
  <2> QED
    BY <2>1, <2>2, <2>3 DEF WireInOrder
<1>13. s # 1 => w # 1
  BY <1>1, <1>3, <1>4 DEF WireInOrder
<1>14. w # 1 => /\ 1 \in 1..(w - 1) /\ wire' # <<>>
                /\ Msg(1)' = Msg(1 + 1) /\ Number(1)' = Number(1 + 1)
                /\ First(1)' = First(1 + 1)
                /\ IF s = 1 THEN Msg(1 + 1) = j + 1 /\ Number(1 + 1) = First(1 + 1)
                   ELSE Msg(1 + 1) = j /\ Number(1 + 1) = s - 1
  <2> SUFFICES ASSUME w # 1
               PROVE  /\ 1 \in 1..(w - 1) /\ wire' # <<>>
                      /\ Msg(1)' = Msg(1 + 1) /\ Number(1)' = Number(1 + 1)
                      /\ First(1)' = First(1 + 1)
                      /\ IF s = 1 THEN Msg(1 + 1) = j + 1 /\ Number(1 + 1) = First(1 + 1)
                         ELSE Msg(1 + 1) = j /\ Number(1 + 1) = s - 1
    OBVIOUS
  <2>1. 1 \in 1..(w - 1)
    BY <1>5
  <2>2. wire' # <<>>
    <3>1. Len(wire') # 0
      BY <1>5, <2>1
    <3> QED
      BY <3>1
  <2>3. IF s = 1 THEN Msg(1 + 1) = j + 1 /\ Number(1 + 1) = First(1 + 1)
        ELSE Msg(1 + 1) = j /\ Number(1 + 1) = s - 1
    BY <1>3, <1>4, <2>1 DEF WireInOrder
  <2> QED
    BY <1>9, <2>1, <2>2, <2>3
<1>15. CASE s = 1
  <2>1. /\ delivered' = Append(delivered, <<Run(j, 0, len)>>) /\ temp' = <<>>
    BY <1>5, <1>11, <1>15
  <2>2. /\ Len(delivered') = j /\ delivered'[j] = <<Run(j, 0, len)>>
        /\ \A k \in 1..Len(delivered) : delivered'[k] = delivered[k]
    <3>1. delivered \in Seq(Seq(RunSet))
      BY DEF TypeOK
    <3> QED
      BY <1>10, <2>1, <3>1
  <2>3. DeliveredWhole'
    <3>1. \A k \in 1..Len(delivered') : k \in 1..Len(delivered) \/ k = j
      BY <1>10, <2>2
    <3> QED
      BY <1>1, <1>3, <1>4, <2>2, <3>1 DEF DeliveredWhole, Whole
  <2>4. CASE w = 1
    <3>1. j = Len(sent)
      BY <1>1, <1>3, <1>4, <2>4 DEF WireInOrder
    <3>2. wire' = <<>>
      <4>1. wire' \in Seq(FrameSet) /\ Len(wire') = 0
        BY <1>1, <1>5, <2>4 DEF TypeOK
      <4> QED
        BY <4>1
    <3> QED
      BY <1>1, <1>12, <2>1, <2>2, <2>3, <3>1, <3>2 DEF BufferFollows
  <2>5. CASE w # 1
    <3>1. wire' # <<>> /\ Msg(1)' = j + 1 /\ Number(1)' = First(1)'
      BY <1>14, <1>15, <2>5
    <3> QED
      BY <1>12, <2>1, <2>2, <2>3, <3>1 DEF BufferFollows
  <2> QED
    BY <2>4, <2>5
<1>16. CASE s # 1
  <2>1. delivered' = delivered /\ temp' = <<Run(j, 0, 256 * (c - s + 1))>>
    BY <1>5, <1>11, <1>16
  <2>2. wire' # <<>> /\ Msg(1)' = j /\ Number(1)' = s - 1
    BY <1>13, <1>14, <1>16
  <2>3. First(1)' = c
    BY <1>1, <1>4, <2>2 DEF First
  <2>4. s - 1 # c /\ c - (s - 1) = c - s + 1
    BY <1>7
  <2>5. BufferFollows'
    BY <1>10, <2>1, <2>2, <2>3, <2>4 DEF BufferFollows
  <2>6. DeliveredWhole'
    BY <1>1, <1>3, <2>1 DEF DeliveredWhole, Whole
  <2> QED
    BY <1>12, <2>5, <2>6
<1> QED
  BY <1>15, <1>16

\* The invariant of messages of regular lengths is inductive.
THEOREM RegularInvariant == Spec => []InOrder
<1>1. Init => InOrder
  BY DEF Init, InOrder, WireInOrder, BufferFollows, DeliveredWhole
<1>2. TypeOK /\ FramesUnread /\ InOrder /\ [Next]_vars => InOrder'
  <2> SUFFICES ASSUME TypeOK, FramesUnread, InOrder, [Next]_vars PROVE InOrder'
    OBVIOUS
  <2>1. ASSUME NEW len \in Lengths, NEW c \in Cuts, SendMessage(len, c)
        PROVE  InOrder'
    BY <2>1, SendInOrder
  <2>2. CASE ReceiveFragment
    BY <2>2, ReceiveInOrder
  <2>3. CASE UNCHANGED vars
    BY <2>3 DEF vars, InOrder, AllRegular, WireInOrder, BufferFollows, DeliveredWhole, Msg,
                Number, First, Whole
  <2> QED
    BY <2>1, <2>2, <2>3 DEF Next, Stop
<1>3. TypeOK /\ FramesUnread /\ [Next]_vars => FramesUnread'
  BY UnreadStep
<1> QED
  BY <1>1, <1>2, <1>3, UnreadInit, TypesHold, PTL DEF Spec

\* However many messages of regular lengths are sent, and however the connection delays
\* their packets, the handlers take each of them whole and in order.
THEOREM MessagesAreWhole == Spec => []Reassembled
<1>1. InOrder => Reassembled
  BY DEF InOrder, DeliveredWhole, Reassembled
<1> QED
  BY <1>1, RegularInvariant, PTL

\* Nothing of one regular message is left in the static buffer for the next one.
THEOREM BufferIsEmptied == Spec => []BufferEmptied
<1>1. InOrder => BufferEmptied
  BY DEF InOrder, BufferFollows, BufferEmptied
<1> QED
  BY <1>1, RegularInvariant, PTL

\* A message whose length is a multiple of PCKT_MAXDATA has no packet numbered 1, however
\* long it is as long as the numbers fit: RecvPacket's side never takes it for complete, and
\* the next message is appended to it.  It is why BufferEmptied is about regular lengths.
THEOREM MultiplesHaveNoLast ==
    ASSUME NEW msg \in Nat, NEW len \in Nat, len % MaxData = 0, len < 255 * MaxData,
           NEW i \in 1..FragmentCount(len)
    PROVE  AddBuffer(msg, len)[i].seq # 1
<1>1. PICK c : c = FirstSequence(len)
  OBVIOUS
<1>2. /\ len \div 256 \in Nat /\ len = 256 * (len \div 256) /\ len < 65280
  BY Division
<1>3. c = (len \div 256) + 1 /\ c \in Nat /\ c <= 255 /\ FragmentCount(len) = c - 1
  BY <1>1, <1>2 DEF FragmentCount, FirstSequence
<1>4. c - (i - 1) \in Nat /\ 2 <= c - (i - 1) /\ c - (i - 1) <= 255
  BY <1>3
<1>5. AddBuffer(msg, len)[i]
        = NewFragment(msg, c - (i - 1), 256 * (i - 1), len - 256 * (i - 1))
  BY <1>1, <1>3 DEF AddBuffer
<1>6. (c - (i - 1)) % 256 = c - (i - 1)
  BY <1>4
<1> QED
  BY <1>4, <1>5, <1>6 DEF NewFragment
================================================================================
