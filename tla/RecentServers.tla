----------------------------- MODULE RecentServers -----------------------------
(***************************************************************************)
(* What the history of the login dialog promises: the last servers used,   *)
(* each once, the latest first, at most Capacity of them.                  *)
(***************************************************************************)
EXTENDS Naturals, Sequences

CONSTANTS Servers, Capacity

VARIABLE recent

Init == recent = <<>>

\* A server of the list moves to the front.
Again(server) ==
    \E k \in DOMAIN recent :
        /\ recent[k] = server
        /\ recent' = <<server>> \o SubSeq(recent, 1, k - 1) \o SubSeq(recent, k + 1, Len(recent))

\* A new one comes in front; the oldest one falls off a full list.
First(server) ==
    /\ \A k \in DOMAIN recent : recent[k] # server
    /\ recent' = <<server>> \o SubSeq(recent, 1, IF Len(recent) = Capacity THEN Capacity - 1
                                                                            ELSE Len(recent))

Next == \E server \in Servers : Again(server) \/ First(server)

Spec == Init /\ [][Next]_recent
================================================================================
