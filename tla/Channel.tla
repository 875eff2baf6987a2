------------------------------- MODULE Channel -------------------------------
(***************************************************************************)
(* The chat channel: Channel::ProcessMessage puts together the packets of  *)
(* lists, topics, messages and private messages in four static buffers and *)
(* shows the whole; Channel::OnSend shows what the user types at once and  *)
(* queues it for the server.                                               *)
(*                                                                         *)
(* A text is the sequence of its packets, numbered downwards to 1, and its *)
(* header is in the first one.  The server is external: it sends the       *)
(* packets of a text in a row, and may or may not send a message back to   *)
(* the user who typed it.                                                  *)
(***************************************************************************)
EXTENDS Naturals, Sequences, SequencesExt, Selections

CONSTANTS
    Me,            \* the user of this program
    Others,        \* the other users the server knows
    Spoken,        \* the commands of the texts in a behaviour
    MaxSessions,   \* bound: sessions in a behaviour
    MaxItems,      \* bound: texts, user lists, joins and leaves in a behaviour
    MaxParts       \* bound: packets of a text

Users == Others \cup {Me}
ChannelCommands == {"ChatMessage", "ChatAction", "ChatNotice"}
PrivateCommands == {"ChatPrivMessage", "ChatPrivAction", "ChatPrivNotice"}

ASSUME ChannelAssumption ==
    /\ Me \notin Others /\ IsFiniteSet(Others)
    /\ Spoken \subseteq ChannelCommands \cup PrivateCommands \cup {"ChatTopic"}
    /\ MaxSessions \in Nat /\ MaxItems \in Nat /\ MaxParts \in Nat \ {0}

\* A text as its sender means it, and packet number seq of it.
Text(id, com, from, size) == [id |-> id, com |-> com, from |-> from, size |-> size]
Part(text, seq) == [com |-> text.com, text |-> text, seq |-> seq]
Whole(text) == [j \in 1..text.size |-> Part(text, text.size + 1 - j)]

\* The packets of a Session::ChatUserList; the last one names the users after n.
ListPart(names, seq) == [com |-> "ChatUserList", names |-> names, seq |-> seq]
UserListPackets(names, n) ==
    IF n = 0
    THEN <<ListPart(names, 1)>>
    ELSE <<ListPart(SubSeq(names, 1, n), 2), ListPart(SubSeq(names, n + 1, Len(names)), 1)>>

VARIABLES
    online,       \* the packets of a session that has logged in may arrive
    net,          \* Net # NULL
    admin,        \* admin_mode
    granted,      \* the server has made the user an administrator in this session
    newuserlist, newtopic, newmessage, newprivate,   \* ProcessMessage's static buffers
    rows,         \* the names of UserList
    topic,        \* the text of the topic last set
    heard,        \* what the user saw of the channel, oldest first
    whispered,    \* what the user saw of private messages, oldest first
    outbox,       \* the texts queued for the server and not yet read by it
    coming,       \* the packets the server is sending
    members,      \* the users in the channel, as the server knows it
    cut,          \* the buffers that begin with what was left there when a session ended
    listed,       \* the last whole user list of this session was not put behind such a rest
    arrived,      \* the texts whose last packet was handled, none put behind such a rest
    muddled,      \* what is shown of the texts that were: places in heard and whispered, topic
    typed,        \* the channel texts the user typed
    echoed,       \* a message of the user's own came back
    items,        \* how many texts, user lists, joins and leaves there were
    sessions      \* how many sessions there were

buffers == <<newuserlist, newtopic, newmessage, newprivate>>
shown == <<rows, topic, heard, whispered>>
server == <<outbox, coming, members>>
seen == <<cut, listed, arrived, muddled, typed, echoed>>
bounds == <<items, sessions>>
vars == <<online, net, admin, granted, buffers, shown, server, seen, bounds>>

Init ==
    /\ online = FALSE /\ net = FALSE /\ admin = FALSE /\ granted = FALSE
    /\ newuserlist = <<>> /\ newtopic = <<>> /\ newmessage = <<>> /\ newprivate = <<>>
    /\ rows = <<>> /\ topic = <<>> /\ heard = <<>> /\ whispered = <<>>
    /\ outbox = <<>> /\ coming = <<>> /\ members = {}
    /\ cut = {} /\ listed = FALSE /\ arrived = <<>> /\ typed = <<>> /\ echoed = FALSE
    /\ muddled = [heard |-> {}, whispered |-> {}, topic |-> FALSE]
    /\ items = 0 /\ sessions = 0
--------------------------------------------------------------------------------
(* The session, as MainWindow tells the channel.                            *)

\* Auth::Successful: SetNetwork.  What the last session showed stays.
SetNetwork ==
    /\ ~online
    /\ sessions < MaxSessions
    /\ sessions' = sessions + 1
    /\ online' = TRUE /\ net' = TRUE /\ granted' = FALSE
    /\ listed' = FALSE
    /\ \E present \in SUBSET Others : members' = present \cup {Me}
    /\ outbox' = <<>> /\ coming' = <<>>
    /\ UNCHANGED <<admin, buffers, shown, cut, arrived, muddled, typed, echoed, items>>

\* Session::Authorized of index 0.
SetAdminMode ==
    /\ online /\ ~granted
    /\ admin' = TRUE /\ granted' = TRUE
    /\ UNCHANGED <<online, net, buffers, shown, server, seen, bounds>>

Buffers == {"list", "topic", "message", "private"}

Left == [list |-> newuserlist, topic |-> newtopic, message |-> newmessage,
         private |-> newprivate]

\* No buffer is emptied when a session ends.
EndSession ==
    /\ online
    /\ online' = FALSE /\ granted' = FALSE
    /\ coming' = <<>>
    /\ cut' = {b \in Buffers : Left[b] # <<>>}
    /\ UNCHANGED <<buffers, shown, outbox, members, listed, arrived, muddled, typed, echoed, bounds>>

\* MainWindow::Disconnect resets the channel; OnSocketFailRead leaves it as it is.
Disconnect == EndSession /\ net' = FALSE /\ admin' = FALSE
OnSocketFailRead == EndSession /\ UNCHANGED <<net, admin>>
--------------------------------------------------------------------------------
(* The server.                                                              *)

CanSend == online /\ coming = <<>>

NewItem ==
    /\ items < MaxItems
    /\ items' = items + 1

\* A text of another user.
ServerSendsText(com, from, size) ==
    /\ CanSend /\ NewItem
    /\ coming' = Whole(Text(items', com, from, size))
    /\ UNCHANGED <<online, net, admin, granted, buffers, shown, outbox, members, seen, sessions>>

\* The server reads what the user queued.  A message or a topic may come back.
ServerReadsText ==
    /\ CanSend /\ outbox # <<>>
    /\ outbox' = Tail(outbox)
    /\ \/ coming' = coming
       \/ /\ Head(outbox).com \in ChannelCommands \cup {"ChatTopic"}
          /\ coming' = Whole(Head(outbox))
    /\ UNCHANGED <<online, net, admin, granted, buffers, shown, members, seen, bounds>>

ServerSendsUserList(n) ==
    /\ CanSend /\ NewItem
    /\ n < Cardinality(members)
    /\ coming' = UserListPackets(SetToSeq(members), n)
    /\ UNCHANGED <<online, net, admin, granted, buffers, shown, outbox, members, seen, sessions>>

UserJoins(u) ==
    /\ CanSend /\ NewItem /\ u \notin members
    /\ members' = members \cup {u}
    /\ coming' = <<[com |-> "ChatJoin", user |-> u]>>
    /\ UNCHANGED <<online, net, admin, granted, buffers, shown, outbox, seen, sessions>>

UserLeaves(u) ==
    /\ CanSend /\ NewItem /\ u \in members /\ u # Me
    /\ members' = members \ {u}
    /\ coming' = <<[com |-> "ChatLeave", user |-> u]>>
    /\ UNCHANGED <<online, net, admin, granted, buffers, shown, outbox, seen, sessions>>
--------------------------------------------------------------------------------
(* ProcessMessage, by the command of the packet.                            *)

\* The packet Channel::ProcessMessage is called with.
Receive(com) ==
    /\ online /\ coming # <<>>
    /\ Head(coming).com \in com
    /\ coming' = Tail(coming)
    /\ UNCHANGED <<online, net, admin, granted, outbox, members, typed, bounds>>

\* Faulty variant of SetUserList: the rows of the old list stay.
SetUserListKept(names) == rows' = rows \o names

SetUserList(names) == rows' = names

ChatUserList ==
    /\ Receive({"ChatUserList"})
    /\ LET p == Head(coming)
       IN  IF p.seq = 1
           THEN /\ SetUserList(newuserlist \o p.names) /\ newuserlist' = <<>>
                /\ listed' = ("list" \notin cut) /\ cut' = cut \ {"list"}
           ELSE newuserlist' = newuserlist \o p.names /\ UNCHANGED <<rows, listed, cut>>
    /\ UNCHANGED <<newtopic, newmessage, newprivate, topic, heard, whispered, arrived, muddled,
                   echoed>>

ChatJoin ==
    /\ Receive({"ChatJoin"})
    /\ rows' = Append(rows, Head(coming).user)
    /\ UNCHANGED <<buffers, topic, heard, whispered, cut, listed, arrived, muddled, echoed>>

\* The first row with that name is deleted, if there is one.
ChatLeave ==
    /\ Receive({"ChatLeave"})
    /\ rows' = RemoveFirst(rows, Head(coming).user)
    /\ UNCHANGED <<buffers, topic, heard, whispered, cut, listed, arrived, muddled, echoed>>

\* The last packet of a text, put together in buffer b, arrives.
Arrive(p, b) ==
    IF p.seq = 1
    THEN /\ cut' = cut \ {b}
         /\ arrived' = IF b \in cut THEN arrived ELSE Append(arrived, p.text)
    ELSE UNCHANGED <<cut, arrived>>

\* A line is shown in a place, and muddled if a rest was left in its buffer.
Muddle(isShown, b, place, lines) ==
    muddled' = IF isShown /\ b \in cut
               THEN [muddled EXCEPT ![place] = @ \cup {Len(lines) + 1}]
               ELSE muddled

\* The topic set by it is muddled then, until the next one.
MuddleTopic(p) ==
    muddled' = IF p.seq = 1 THEN [muddled EXCEPT !.topic = "topic" \in cut] ELSE muddled

\* Faulty variant of ChatTopic: the buffer is not emptied.
ChatTopicKept ==
    /\ Receive({"ChatTopic"})
    /\ LET p == Head(coming)
           whole == Append(newtopic, p)
       IN  /\ newtopic' = whole
           /\ topic' = IF p.seq = 1 THEN whole ELSE topic
           /\ Arrive(p, "topic") /\ MuddleTopic(p)
    /\ UNCHANGED <<newuserlist, newmessage, newprivate, rows, heard, whispered, listed, echoed>>

ChatTopic ==
    /\ Receive({"ChatTopic"})
    /\ LET p == Head(coming)
           whole == Append(newtopic, p)
       IN  /\ newtopic' = IF p.seq = 1 THEN <<>> ELSE whole
           /\ topic' = IF p.seq = 1 THEN whole ELSE topic
           /\ Arrive(p, "topic") /\ MuddleTopic(p)
    /\ UNCHANGED <<newuserlist, newmessage, newprivate, rows, heard, whispered, listed, echoed>>

\* What is shown of a text: the sender its header names, under the command of the packet
\* that completed it, and all that was put together.
Line(whole) ==
    [com |-> whole[Len(whole)].com, from |-> whole[1].text.from, body |-> whole]

\* Faulty variant of ChatMessage: one's own messages are shown as any other.
ChatMessageOwnToo ==
    /\ Receive(ChannelCommands)
    /\ LET p == Head(coming)
           whole == Append(newmessage, p)
       IN  /\ newmessage' = IF p.seq = 1 THEN <<>> ELSE whole
           /\ heard' = IF p.seq = 1 THEN Append(heard, Line(whole)) ELSE heard
           /\ Arrive(p, "message") /\ Muddle(p.seq = 1, "message", "heard", heard)
    /\ UNCHANGED <<newuserlist, newtopic, newprivate, rows, topic, whispered, listed, echoed>>

\* Faulty variant of ChatMessage: the buffer is never emptied.
ChatMessageKept ==
    /\ Receive(ChannelCommands)
    /\ LET p == Head(coming)
           whole == Append(newmessage, p)
           own == p.seq = 1 /\ whole[1].text.from = Me
       IN  /\ newmessage' = whole
           /\ heard' = IF p.seq = 1 /\ ~own THEN Append(heard, Line(whole)) ELSE heard
           /\ echoed' = (echoed \/ own)
           /\ Arrive(p, "message") /\ Muddle(p.seq = 1 /\ ~own, "message", "heard", heard)
    /\ UNCHANGED <<newuserlist, newtopic, newprivate, rows, topic, whispered, listed>>

\* Session::ChatMessage, ChatAction and ChatNotice.  A message of one's own is not shown
\* again, and the buffer is left as it is.
ChatMessage ==
    /\ Receive(ChannelCommands)
    /\ LET p == Head(coming)
           whole == Append(newmessage, p)
           own == p.seq = 1 /\ whole[1].text.from = Me
       IN  /\ newmessage' = IF p.seq = 1 /\ ~own THEN <<>> ELSE whole
           /\ heard' = IF p.seq = 1 /\ ~own THEN Append(heard, Line(whole)) ELSE heard
           /\ echoed' = (echoed \/ own)
           /\ Arrive(p, "message") /\ Muddle(p.seq = 1 /\ ~own, "message", "heard", heard)
    /\ UNCHANGED <<newuserlist, newtopic, newprivate, rows, topic, whispered, listed>>

\* Faulty variant of ChatPrivMessage: private messages share the channel's buffer.
ChatPrivMessageShared ==
    /\ Receive(PrivateCommands)
    /\ LET p == Head(coming)
           whole == Append(newmessage, p)
       IN  /\ newmessage' = IF p.seq = 1 THEN <<>> ELSE whole
           /\ whispered' = IF p.seq = 1 THEN Append(whispered, Line(whole)) ELSE whispered
           /\ Arrive(p, "private") /\ Muddle(p.seq = 1, "private", "whispered", whispered)
    /\ UNCHANGED <<newuserlist, newtopic, newprivate, rows, topic, heard, listed, echoed>>

\* Session::ChatPrivMessage, ChatPrivAction and ChatPrivNotice.
ChatPrivMessage ==
    /\ Receive(PrivateCommands)
    /\ LET p == Head(coming)
           whole == Append(newprivate, p)
       IN  /\ newprivate' = IF p.seq = 1 THEN <<>> ELSE whole
           /\ whispered' = IF p.seq = 1 THEN Append(whispered, Line(whole)) ELSE whispered
           /\ Arrive(p, "private") /\ Muddle(p.seq = 1, "private", "whispered", whispered)
    /\ UNCHANGED <<newuserlist, newtopic, newmessage, rows, topic, heard, listed, echoed>>

ProcessMessage ==
    ChatUserList \/ ChatJoin \/ ChatLeave \/ ChatTopic \/ ChatMessage \/ ChatPrivMessage
--------------------------------------------------------------------------------
(* The user.  Net->Send () fails once the session is over, and the text is  *)
(* lost.                                                                    *)

NewText(com, size) == Text(items + 1, com, Me, size)

AddBufferOut(text) ==
    /\ net /\ NewItem
    /\ outbox' = IF online THEN Append(outbox, text) ELSE outbox
    /\ UNCHANGED <<online, net, admin, granted, buffers, rows, topic, coming, members, cut, listed,
                   arrived, muddled, echoed, sessions>>

\* OnSend with a message, a /me or a /notice.
OnSendMessage(com, size) ==
    LET text == NewText(com, size)
    IN  /\ AddBufferOut(text)
        /\ heard' = Append(heard, Line(Whole(text)))
        /\ typed' = Append(typed, text)
        /\ UNCHANGED whispered

\* OnSend with a /to.
OnSendPrivate(size) ==
    LET text == NewText("ChatPrivMessage", size)
    IN  /\ AddBufferOut(text)
        /\ whispered' = Append(whispered, Line(Whole(text)))
        /\ UNCHANGED <<heard, typed>>

\* OnSend with a /topic, and OnTopic, which only an administrator can use.
SendTopic(size) ==
    /\ AddBufferOut(NewText("ChatTopic", size))
    /\ UNCHANGED <<heard, whispered, typed>>

OnSendTopic(size) == SendTopic(size)
OnTopic(size) == admin /\ SendTopic(size)

\* The bound on sessions is reached.
Stop == ~online /\ sessions = MaxSessions /\ UNCHANGED vars

Next ==
    \/ Stop
    \/ SetNetwork \/ SetAdminMode \/ Disconnect \/ OnSocketFailRead
    \/ ServerReadsText \/ ProcessMessage
    \/ \E n \in 0..(IF MaxParts = 1 THEN 0 ELSE Cardinality(Others)) : ServerSendsUserList(n)
    \/ \E u \in Others : UserJoins(u) \/ UserLeaves(u)
    \/ \E size \in 1..MaxParts :
            \/ \E com \in Spoken, u \in Others : ServerSendsText(com, u, size)
            \/ \E com \in Spoken \cap ChannelCommands : OnSendMessage(com, size)
            \/ OnSendPrivate(size) \/ OnSendTopic(size) \/ OnTopic(size)

Spec == Init /\ [][Next]_vars
--------------------------------------------------------------------------------
(* Properties.                                                              *)

TextsOf(s, coms) == Selected(s, {i \in DOMAIN s : s[i].com \in coms /\ s[i].from # Me})
TopicsOf(s) == Selected(s, {i \in DOMAIN s : s[i].com = "ChatTopic"})
LinesOf(lines, but) == Selected(lines, {i \in DOMAIN lines : lines[i].from # Me /\ i \notin but})
OwnLinesOf(lines) == Selected(lines, {i \in DOMAIN lines : lines[i].from = Me})
Lines(s) == [i \in 1..Len(s) |-> Line(Whole(s[i]))]

\* What the other users say in the channel is shown whole, once, in order and under their
\* names and commands, as long as none of the user's own messages came back.  After a
\* session that ended in the middle of a message, one line is excused: the first one, which
\* is put behind that rest.
OthersHeard ==
    ~echoed => LinesOf(heard, muddled.heard) = Lines(TextsOf(arrived, ChannelCommands))

\* Private messages are shown so too, whatever happens in the channel.
WhispersHeard ==
    LinesOf(whispered, muddled.whispered) = Lines(TextsOf(arrived, PrivateCommands))

\* What the user says is shown once, when it is typed, whether it comes back or not.
OwnOnce == OwnLinesOf(heard) = Lines(typed)

\* The topic is the last one the server sent, but for one put behind the rest of another
\* that a session ended in.
TopicIsLast ==
    LET topics == TopicsOf(arrived)
    IN  ~muddled.topic => topic = IF topics = <<>> THEN <<>> ELSE Whole(topics[Len(topics)])

\* Once a list was received that is not put behind the rest of another session's, it shows
\* each user of the channel once, whoever joins and leaves.
ListIsUsers ==
    online /\ coming = <<>> /\ listed
        => ToSet(rows) = members /\ Len(rows) = Cardinality(members)

\* What the other users say in the channel is shown, whatever the user says.  No run checks
\* it, for it does not hold: after a message of the user's own the buffer is not emptied.
AllHeard == LinesOf(heard, muddled.heard) = Lines(TextsOf(arrived, ChannelCommands))

\* The topic can be edited in a session only by an administrator.  No run checks it, for it
\* does not hold: a failed read leaves admin_mode as it was.
EditorIsAdmin == online /\ admin => granted
================================================================================
