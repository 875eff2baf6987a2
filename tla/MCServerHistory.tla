---------------------------- MODULE MCServerHistory ----------------------------
(* Six addresses for five keys: names and IPv6 addresses, with a port and without. *)
EXTENDS ServerHistory

SomeAddresses ==
    { Address(<<"alpha">>, DefaultPort), Address(<<"alpha">>, <<"2000">>),
      Address(<<"beta">>, DefaultPort),
      Address(<<"fe80", ":", ":", "1">>, DefaultPort),
      Address(<<"fe80", ":", ":", "1">>, <<"2000">>),
      Address(<<":", ":", "1">>, <<"3000">>) }
================================================================================
