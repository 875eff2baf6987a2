-------------------------------- MODULE Console --------------------------------
(***************************************************************************)
(* The console of a process.  What the user types is shown at once and sent *)
(* to the process, whose terminal echoes it among its output.  Add deletes  *)
(* the echo: the last input, which it remembers with its line end, is       *)
(* removed from the first text that contains it.  The line end of a text is *)
(* held back until the next one.                                            *)
(*                                                                         *)
(* A text is a short sequence of characters; "\n", "\r" and a control       *)
(* character are told apart from letters because Add treats them so.        *)
(***************************************************************************)
EXTENDS Naturals, Sequences, SequencesExt, Selections

CONSTANTS
    Inputs,       \* what the user may type: texts without line ends
    Outputs,      \* what the process may print, as the server cuts it into packets
    MaxTyped,     \* bound: inputs in a behaviour
    MaxPrinted,   \* bound: texts printed
    MaxOnTheWay   \* bound: packets sent and not yet received

ASSUME ConsoleAssumption ==
    /\ MaxTyped \in Nat /\ MaxPrinted \in Nat /\ MaxOnTheWay \in Nat
    /\ \A input \in Inputs : input # <<>> /\ ~Contains(input, "\n")
    /\ Inputs \subseteq Seq(STRING) /\ Outputs \subseteq Seq(STRING)

VARIABLES
    lastInput,        \* the text whose echo is to be removed
    lastHadNewline,   \* a line end is held back
    output,           \* the text control, as one text
    commands,         \* the entries of the input's combo box
    sessionOpen,      \* the worker of Net runs
    unechoed,         \* inputs the process has not echoed yet
    onTheWay,         \* packets of ConsoleOutput: text, and what part of an echo it is
    \* history
    inputs,           \* how many inputs there were
    typed,            \* the inputs, one after the other
    printed,          \* how many texts the process printed
    transcript,       \* the inputs and the output, with only the line end of each echo
    received,         \* every text received
    unclear           \* an echo was cut, the last input was found elsewhere, or a text had
                      \* nothing but carriage returns after its line end

console == <<lastInput, lastHadNewline, output>>
process == <<unechoed, onTheWay, printed>>
vars == <<console, commands, sessionOpen, process, inputs, typed, transcript, received, unclear>>

Init ==
    /\ lastInput = <<>> /\ lastHadNewline = FALSE /\ output = <<>>
    /\ commands = <<>> /\ sessionOpen = TRUE
    /\ unechoed = <<>> /\ onTheWay = <<>> /\ printed = 0
    /\ inputs = 0 /\ typed = <<>> /\ transcript = <<>> /\ received = <<>>
    /\ unclear = FALSE
--------------------------------------------------------------------------------
(* Console::Add.                                                            *)

WithoutCR(text) == Selected(text, {i \in DOMAIN text : text[i] # "\r"})

Starred(text) == [i \in 1..Len(text) |-> IF text[i] = "^G" THEN "*" ELSE text[i]]

\* wxString::Replace with FALSE: only the first occurrence.
Occurs(part, text) == part # <<>> /\ \E i \in 0..(Len(text) - Len(part)) :
                          SubSeq(text, i + 1, i + Len(part)) = part

WithoutFirst(part, text) ==
    LET start == CHOOSE i \in 0..(Len(text) - Len(part)) :
                     /\ SubSeq(text, i + 1, i + Len(part)) = part
                     /\ \A j \in 0..(i - 1) : SubSeq(text, j + 1, j + Len(part)) # part
    IN  SubSeq(text, 1, start) \o SubSeq(text, start + Len(part) + 1, Len(text))

EndsLine(text) == text # <<>> /\ text[Len(text)] = "\n"

WithoutLineEnd(text) == IF EndsLine(text) THEN Front(text) ELSE text

\* What text.Last () == '\n' may yield: nothing is before the first character of an empty text.
HasLineEnd(text) == IF text = <<>> THEN BOOLEAN ELSE {EndsLine(text)}

LineEnd(held) == IF held THEN <<"\n">> ELSE <<>>

\* AppendText, after the line end held back; an empty text leaves it there.
Shown(text) == IF text = <<>> THEN output ELSE output \o LineEnd(lastHadNewline) \o text

\* Faulty variant of Add: the last input is remembered after its echo was removed.
AddNotForgotten(text, memorize) ==
    LET plain == WithoutCR(text)
        found == ~memorize /\ Occurs(lastInput, plain)
        rest == IF found THEN WithoutFirst(lastInput, plain) ELSE plain
    IN  /\ output' = Shown(Starred(WithoutLineEnd(rest)))
        /\ lastInput' = IF memorize THEN plain ELSE lastInput
        /\ lastHadNewline' \in HasLineEnd(text)

\* Faulty variant of Add: the line end is looked for after the echo was removed.
AddLineEndLate(text, memorize) ==
    LET plain == WithoutCR(text)
        found == ~memorize /\ Occurs(lastInput, plain)
        rest == IF found THEN WithoutFirst(lastInput, plain) ELSE plain
    IN  /\ output' = Shown(Starred(WithoutLineEnd(rest)))
        /\ lastInput' = IF memorize THEN plain ELSE IF found THEN <<>> ELSE lastInput
        /\ lastHadNewline' = EndsLine(rest)

Add(text, memorize) ==
    LET plain == WithoutCR(text)
        found == ~memorize /\ Occurs(lastInput, plain)
        rest == IF found THEN WithoutFirst(lastInput, plain) ELSE plain
    IN  /\ output' = Shown(Starred(WithoutLineEnd(rest)))
        /\ lastInput' = IF memorize THEN plain ELSE IF found THEN <<>> ELSE lastInput
        /\ lastHadNewline' \in HasLineEnd(text)
--------------------------------------------------------------------------------
(* The user, the process and the session.                                   *)

\* AddInputCommand: an entry of the combo box for each different input.
AddInputCommand(input) ==
    commands' = IF Contains(commands, input) THEN commands ELSE Append(commands, input)

\* OnSend.  After a failed read Net is still the last Network, which sends nothing: the
\* input is shown, and no process will echo it.
OnSend(input) ==
    /\ inputs < MaxTyped
    /\ AddInputCommand(input)
    /\ Add(Append(input, "\n"), TRUE)
    /\ unechoed' = IF sessionOpen THEN Append(unechoed, input) ELSE unechoed
    /\ inputs' = inputs + 1
    /\ typed' = typed \o input
    /\ transcript' = transcript \o Starred(WithoutCR(Append(input, "\n")))
    /\ unclear' = (unclear \/ lastInput # <<>>)
    /\ UNCHANGED <<sessionOpen, onTheWay, printed, received>>

Packet(text, of) == [text |-> text, of |-> of]

\* The terminal of the process echoes a line, with "\r\n", in one packet or in two.
ProcessEchoes ==
    /\ sessionOpen /\ unechoed # <<>> /\ Len(onTheWay) < MaxOnTheWay
    /\ unechoed' = Tail(unechoed)
    /\ LET echo == Head(unechoed) \o <<"\r", "\n">>
       IN  \/ onTheWay' = Append(onTheWay, Packet(echo, "echo"))
           \/ \E i \in 1..(Len(echo) - 1) :
                  onTheWay' = onTheWay \o <<Packet(SubSeq(echo, 1, i), "part"),
                                            Packet(SubSeq(echo, i + 1, Len(echo)), "part")>>
    /\ UNCHANGED <<console, commands, sessionOpen, printed, inputs, typed, transcript, received,
                   unclear>>

ProcessPrints(text) ==
    /\ sessionOpen /\ printed < MaxPrinted /\ Len(onTheWay) < MaxOnTheWay
    /\ onTheWay' = Append(onTheWay, Packet(text, "output"))
    /\ printed' = printed + 1
    /\ UNCHANGED <<console, commands, sessionOpen, unechoed, inputs, typed, transcript, received,
                   unclear>>

\* ProtoSession on ConsoleOutput and ConsoleLogs: each packet by itself.
ConsoleOutput ==
    /\ onTheWay # <<>>
    /\ onTheWay' = Tail(onTheWay)
    /\ LET packet == Head(onTheWay)
           plain == WithoutCR(packet.text)
       IN  /\ Add(packet.text, FALSE)
           /\ received' = received \o packet.text
           /\ transcript' = transcript \o (IF packet.of = "echo" THEN <<"\n">>
                                            ELSE Starred(plain))
           /\ unclear' = ( \/ unclear
                           \/ plain = <<>> \/ EndsLine(plain) # EndsLine(packet.text)
                           \/ packet.of = "part"
                           \/ Occurs(lastInput, plain) # (packet.of = "echo") )
    /\ UNCHANGED <<commands, sessionOpen, unechoed, printed, inputs, typed>>

\* The session ends with a failed read; the page of the console stays.
SessionEnds ==
    /\ sessionOpen
    /\ sessionOpen' = FALSE
    /\ onTheWay' = <<>> /\ unechoed' = <<>>
    /\ UNCHANGED <<console, commands, printed, inputs, typed, transcript, received, unclear>>

Stop ==
    /\ inputs = MaxTyped /\ onTheWay = <<>> /\ ~sessionOpen
    /\ UNCHANGED vars

Next ==
    \/ \E input \in Inputs : OnSend(input)
    \/ ProcessEchoes
    \/ \E text \in Outputs : ProcessPrints(text)
    \/ ConsoleOutput
    \/ SessionEnds
    \/ Stop

Spec == Init /\ [][Next]_vars
--------------------------------------------------------------------------------
(* Properties.                                                              *)

Letters(text) == Selected(text, {i \in DOMAIN text : text[i] \notin {"\n", "\r"}})

\* A text with each run of line ends taken for one, and none at its start.
Squeezed(text) ==
    Selected(text, {i \in DOMAIN text : text[i] # "\n" \/ (i > 1 /\ text[i - 1] # "\n")})

\* While each echo comes whole, before the next input and before any output that holds the
\* same text, the console shows what a terminal without echo would: the inputs and the
\* output in the order they came, on the same lines, and of an echo no more than its line end.
TranscriptShown ==
    ~unclear => Squeezed(output \o LineEnd(lastHadNewline)) = Squeezed(transcript)

\* However the echoes are cut and whatever else holds the same text, what is missing from
\* the console are the inputs, each at most once: its letters are those typed and received,
\* but for at most the letters typed.
MissingAtMostTyped ==
    LET shown == Len(Letters(output))
        typing == Len(Letters(typed))
    IN  /\ shown <= Len(Letters(received)) + typing
        /\ Len(Letters(received)) <= shown
================================================================================
