-------------------------------- MODULE Session --------------------------------
(***************************************************************************)
(* What the handlers of the window rely on: of each session its connection *)
(* or its failure is reported, then every packet that was received, once   *)
(* and in order, then at most one failure.  A packet that ends the session *)
(* is its last, a session the user leaves reports no failure, and nothing  *)
(* of a session is handled in the next one.                                *)
(***************************************************************************)
EXTENDS Naturals, Sequences

CONSTANTS
    Packets,     \* what the server may send
    Terminals    \* the packets that end a session

VARIABLES
    phase,     \* "over", "opening" until the connection is reported, or "online"
    leaving,   \* the user has told the server that he leaves
    told,      \* the user is being told of a failure
    coming     \* the packets received and not handled yet

Init == phase = "over" /\ ~leaving /\ ~told /\ coming = <<>>

Open ==
    /\ phase = "over" /\ ~told
    /\ phase' = "opening" /\ UNCHANGED <<leaving, told, coming>>

ReportConnection ==
    /\ phase = "opening"
    /\ phase' = "online" /\ UNCHANGED <<leaving, told, coming>>

\* The connection could not be made, or it broke: what came before was handled.
ReportFailure ==
    /\ phase # "over" /\ coming = <<>> /\ ~leaving
    /\ phase' = "over" /\ told' = TRUE /\ UNCHANGED <<leaving, coming>>

Acknowledge ==
    /\ told
    /\ told' = FALSE /\ UNCHANGED <<phase, leaving, coming>>

Arrive(p) ==
    /\ phase # "over"
    /\ \A i \in 1..Len(coming) : coming[i] \notin Terminals
    /\ coming' = Append(coming, p) /\ UNCHANGED <<phase, leaving, told>>

Handle ==
    /\ phase = "online" /\ coming # <<>> /\ Head(coming) \notin Terminals
    /\ coming' = Tail(coming) /\ UNCHANGED <<phase, leaving, told>>

\* The packet ends the session: none came after it.
HandleTerminal ==
    /\ phase = "online" /\ Len(coming) = 1 /\ Head(coming) \in Terminals
    /\ phase' = "over" /\ leaving' = FALSE /\ coming' = <<>> /\ UNCHANGED told

Leave ==
    /\ phase # "over"
    /\ leaving' = TRUE /\ UNCHANGED <<phase, told, coming>>

\* The rest of a session the user has left is never handled.
Left ==
    /\ leaving
    /\ phase' = "over" /\ leaving' = FALSE /\ coming' = <<>> /\ UNCHANGED told

Next ==
    \/ Open \/ ReportConnection \/ ReportFailure \/ Acknowledge
    \/ \E p \in Packets : Arrive(p)
    \/ Handle \/ HandleTerminal
    \/ Leave \/ Left

Spec == Init /\ [][Next]_<<phase, leaving, told, coming>>
================================================================================
