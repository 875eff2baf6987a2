---------------------------- MODULE MCMainWindow ----------------------------
(***************************************************************************)
(* MainWindow for TLC: the server sends one packet of each class the       *)
(* control tells apart, for one process.                                   *)
(***************************************************************************)
EXTENDS MainWindow

\* An answered packet, the two that create a process and its row, a notice and an error
\* that ends the session.
SomePackets ==
    { NewPacket(1, "Authorized"), NewPacket(1, "ProcessInfo"), NewPacket(1, "MaintenanceOn"),
      NewPacket(ErrorIndex, "Generic"), NewPacket(ErrorIndex, "ServerQuit") }

\* The handshake, the two that create a process and its row, and the server's goodbye.
FewPackets ==
    { NewPacket(SyncIndex, "Hello"), NewPacket(1, "Authorized"), NewPacket(1, "ProcessInfo"),
      SessionDisconnect }
================================================================================
