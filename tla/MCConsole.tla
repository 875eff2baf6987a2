------------------------------- MODULE MCConsole -------------------------------
(* An instance of Console: inputs that end alike, and outputs that hold an input, that are
   a part of one, that are a line end or nothing. *)
EXTENDS Console

SomeInputs == {<<"a">>, <<"b", "a">>}

SomeOutputs ==
    { <<>>, <<"\n">>, <<"\r">>, <<"b">>, <<"b", "\n", "\r">>, <<"a", "\r", "\n">>,
      <<"c", "^G", "\n", "b">> }
================================================================================
