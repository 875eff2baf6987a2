------------------------------ MODULE LoginDialog ------------------------------
(***************************************************************************)
(* What the login dialog makes of the server the user typed: GetServer and  *)
(* GetPort cut it at its last colon, or, when it has both brackets of an    *)
(* IPv6 address, take what is inside of them and what follows a colon after.*)
(*                                                                         *)
(* A text is a sequence of pieces: ":", "[" and "]" are pieces, and so is   *)
(* whatever stands between them.                                            *)
(***************************************************************************)
EXTENDS Integers, Sequences, SequencesExt

DefaultPort == <<"47777">>

\* wxString::Find, from the start or from the end; -1 when there is none.
FindFirst(text, c) == SelectInSeq(text, LAMBDA x : x = c) - 1
FindLast(text, c) == SelectLastInSeq(text, LAMBDA x : x = c) - 1

\* wxString::Mid, which counts from 0.
Mid(text, from, count) == SubSeq(text, from + 1, from + count)
MidToEnd(text, from) == SubSeq(text, from + 1, Len(text))

HasBrackets(all) == FindFirst(all, "[") # -1 /\ FindFirst(all, "]") # -1

GetServer(all) ==
    LET colon == FindLast(all, ":")
    IN  IF HasBrackets(all) THEN Mid(all, 1, FindLast(all, "]") - 1)
        ELSE IF colon = -1 THEN all ELSE Mid(all, 0, colon)

\* Faulty variant of GetPort: the brackets are not looked at.
GetPortAnyColon(all) ==
    LET colon == FindLast(all, ":")
    IN  IF colon = -1 THEN DefaultPort ELSE MidToEnd(all, colon + 1)

GetPort(all) ==
    LET colon == FindLast(all, ":")
    IN  IF HasBrackets(all) /\ colon < FindFirst(all, "]") THEN DefaultPort
        ELSE IF colon = -1 THEN DefaultPort ELSE MidToEnd(all, colon + 1)
--------------------------------------------------------------------------------
\* What a user means, and how it is written: a host, in brackets if it has colons, and a port
\* if it is not the default one.
Address(host, port) == [host |-> host, port |-> port]

Written(address) ==
    (IF Contains(address.host, ":") THEN <<"[">> \o address.host \o <<"]">> ELSE address.host)
        \o (IF address.port = DefaultPort THEN <<>> ELSE <<":">> \o address.port)
================================================================================
