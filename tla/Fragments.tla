------------------------------- MODULE Fragments -------------------------------
(***************************************************************************)
(* Long data travels in several packets numbered downwards.  AddBuffer cuts*)
(* it on the sending side and SendPacket writes each packet with one        *)
(* SSL_write; RecvPacket takes a header and then the data it announces from *)
(* the connection, and the handlers of Session::ProcessInfo and of the chat *)
(* packets append each packet's data to a static buffer and take the whole  *)
(* when a packet numbered 1 arrives.                                        *)
(*                                                                         *)
(* Data is abstract: byte k of message j is known by its place, so the     *)
(* buffer is a sequence of runs of consecutive bytes.  PCKT_MAXDATA, the    *)
(* 8-bit fields and the size of the header keep the values of the code.     *)
(***************************************************************************)
EXTENDS Naturals, Sequences

CONSTANTS
    Lengths,      \* the lengths of the data that may be sent
    Cuts,         \* where the connection may end a record inside a packet; 0 for nowhere
    MaxMessages   \* bound: messages sent in a behaviour

ASSUME FragmentsAssumption == Lengths \subseteq Nat /\ Cuts \subseteq Nat /\ MaxMessages \in Nat

MaxData == 256
HeaderSize == 4

\* A run of the bytes from + 1 .. to of message msg.
Run(msg, from, to) == [msg |-> msg, from |-> from, to |-> to]

\* Faulty variant of SetLength: the length is stored as it is.
SetLengthUnbiased(len) == (IF len > MaxData THEN MaxData ELSE len) % 256

\* pkt_len holds the length minus one, capped, so that 256 fits in eight bits.
SetLength(len) ==
    LET capped == IF len > MaxData THEN MaxData ELSE len
    IN  IF capped > 1 THEN capped - 1 ELSE 0

\* Packet::GetLength: a packet numbered 0 has no data, whatever pkt_len holds.
GetLength(seq, pktLen) == IF seq = 0 THEN 0 ELSE pktLen + 1

\* The packet AddBuffer builds for the rest of a message: the sequence number is cut to eight
\* bits first; SetData then copies GetLength () bytes, or none and sets the length to 0.
NewFragment(msg, seq, from, rest) ==
    LET seq8 == seq % 256
        length == SetLength(rest)
    IN  [seq |-> seq8,
         pktLen |-> IF GetLength(seq8, length) >= 1 THEN length ELSE SetLength(0),
         data |-> Run(msg, from, from + GetLength(seq8, length))]

\* How many packets AddBuffer makes: one for each full PCKT_MAXDATA and one for a rest.
FragmentCount(len) == (len \div MaxData) + (IF len % MaxData > 0 THEN 1 ELSE 0)

\* Faulty variant of FirstSequence: the count of the full packets.
FirstSequenceShort(len) == len \div MaxData

\* The first number s of AddBuffer, decremented at each packet.
FirstSequence(len) == (len \div MaxData) + 1

AddBuffer(msg, len) ==
    [i \in 1..FragmentCount(len) |->
        NewFragment(msg, FirstSequence(len) - (i - 1), MaxData * (i - 1),
                    len - MaxData * (i - 1))]
--------------------------------------------------------------------------------
\* What SendPacket hands to SSL_write: the header and GetLength () bytes.
FrameSize(packet) == HeaderSize + GetLength(packet.seq, packet.pktLen)

\* A packet on the connection: how much of it was read, and where a record ends inside it.
Frame(packet, cut) ==
    [packet |-> packet, read |-> 0,
     cut |-> IF cut < FrameSize(packet) THEN cut ELSE 0]

\* The packets of a message, written one after the other.
Frames(packets, cut) == [i \in 1..Len(packets) |-> Frame(packets[i], cut)]

VARIABLES
    sent,       \* the lengths of the messages sent so far
    wire,       \* the packets written and not yet read
    temp,       \* the receiver's buffer, as runs of bytes
    delivered,  \* what the receiver took as whole messages
    garbled,    \* a read took something else for a header
    \* history
    split       \* a record ended inside a header or inside the data of a packet

vars == <<sent, wire, temp, delivered, garbled, split>>

Init ==
    /\ sent = <<>>
    /\ wire = <<>>
    /\ temp = <<>>
    /\ delivered = <<>>
    /\ garbled = FALSE /\ split = FALSE

SendMessage(len, cut) ==
    /\ Len(sent) < MaxMessages
    /\ sent' = Append(sent, len)
    /\ wire' = wire \o Frames(AddBuffer(Len(sent) + 1, len), cut)
    /\ split' = (split \/ cut \notin {0, HeaderSize})
    /\ UNCHANGED <<temp, delivered, garbled>>

\* The buffer with a run appended: a run that goes on where the last one ends extends it.
Extend(runs, r) ==
    LET last == runs[Len(runs)]
    IN  IF r.from = r.to THEN runs
        ELSE IF runs # <<>> /\ last.msg = r.msg /\ last.to = r.from
             THEN [runs EXCEPT ![Len(runs)] = Run(r.msg, last.from, r.to)]
             ELSE Append(runs, r)

\* What SSL_read returns for n bytes: at most the rest of the first record.
Read(frames, n) ==
    LET f == Head(frames)
        recordEnd == IF f.read < f.cut THEN f.cut ELSE FrameSize(f.packet)
        end == IF f.read + n < recordEnd THEN f.read + n ELSE recordEnd
    IN  [got |-> end - f.read,
         rest |-> IF end = FrameSize(f.packet) THEN Tail(frames)
                  ELSE <<[f EXCEPT !.read = end]>> \o Tail(frames)]

\* Faulty variant of DataToRead: as many bytes as pkt_len says.
DataToReadShort(packet) == IF packet.seq >= 1 THEN packet.pktLen ELSE 0

\* How many bytes RecvPacket asks for after a header.
DataToRead(packet) == IF packet.seq >= 1 THEN packet.pktLen + 1 ELSE 0

\* RecvPacket, which takes a read that returned anything for a whole one, and the handler of
\* the packet.
ReceiveFragment ==
    LET packet == Head(wire).packet
        header == Read(wire, HeaderSize)
        data == IF DataToRead(packet) = 0 THEN [got |-> 0, rest |-> header.rest]
                ELSE Read(header.rest, DataToRead(packet))
        whole == Extend(temp, Run(packet.data.msg, packet.data.from, packet.data.from + data.got))
    IN  /\ wire # <<>> /\ ~garbled
        /\ IF Head(wire).read # 0 \/ header.got < HeaderSize
           THEN garbled' = TRUE /\ UNCHANGED <<wire, temp, delivered>>
           ELSE /\ wire' = data.rest
                /\ IF packet.seq = 1
                   THEN delivered' = Append(delivered, whole) /\ temp' = <<>>
                   ELSE delivered' = delivered /\ temp' = whole
                /\ UNCHANGED garbled
        /\ UNCHANGED <<sent, split>>

Stop ==
    /\ (Len(sent) = MaxMessages /\ wire = <<>>) \/ garbled
    /\ UNCHANGED vars

Next == (\E len \in Lengths, cut \in Cuts : SendMessage(len, cut)) \/ ReceiveFragment \/ Stop

Spec == Init /\ [][Next]_vars
--------------------------------------------------------------------------------
(* Properties.                                                              *)

Whole(j) == <<Run(j, 0, sent[j])>>

\* The lengths whose last packet is numbered 1 and whose first number fits in eight bits.
Regular(len) == len % MaxData # 0 /\ len < 255 * MaxData

AllRegular == \A j \in 1..Len(sent) : Regular(sent[j])

\* Messages of regular lengths sent after one another are taken whole, each on its own and
\* in order: what AddBuffer cuts, the receiving handlers put together again, as long as no
\* record ends inside a header or inside data.
Reassembled == AllRegular /\ ~split => \A k \in 1..Len(delivered) : delivered[k] = Whole(k)

\* Once everything has arrived, nothing of regular messages is left in the buffer, where
\* the next message would be appended to it.
BufferEmptied ==
    AllRegular /\ ~split => (wire = <<>> => temp = <<>> /\ Len(delivered) = Len(sent))

\* Whatever the lengths, the empty packets and the numbers that wrapped to 0, each read
\* starts where the last packet ended: no data is taken for a header unless a record ended
\* inside a header or inside data, as TLS may but does not for packets of this size.
HeadersFound == garbled => split

\* A message is complete when its last packet has arrived, whatever its length.  No run checks
\* it, for it does not hold: a length that is a multiple of 256 has no packet numbered 1.
AlwaysCompleted == wire = <<>> => temp = <<>>
================================================================================
