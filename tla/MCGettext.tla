-------------------------------- MODULE MCGettext ------------------------------
(***************************************************************************)
(* An instance of Gettext: languages with a codeset, a modifier and an      *)
(* alias, and catalogs under several of the names they may have.            *)
(***************************************************************************)
EXTENDS Gettext

SomeLowercase == ("UTF" :> "utf") @@ ("utf" :> "utf") @@ ("German" :> "german")
                 @@ ("german" :> "german")

de == <<"de">>
fr == <<"fr">>
deDE == <<"de", "_", "DE">>
deUTF == <<"de", "_", "DE", ".", "UTF", "-", "8">>
deNormalized == <<"de", "_", "DE", ".", "utf", "8">>
deEuro == <<"de", "_", "DE", "@", "euro">>

SomeEnvironments ==
    { [language |-> <<>>, locale |-> deUTF],
      [language |-> <<fr>>, locale |-> <<"C">>],
      [language |-> <<<<"German">>, deEuro, <<"C">>, fr>>, locale |-> deDE] }

\* The alias after the first one is skipped.
SomeAliasFiles ==
    << <<<<Hash, Hash>>>>,
       <<<<>>, <<<<"french">>, fr>>, <<<<"swedish">>, <<"sv">>>>, <<<<"german">>, deUTF>>>> >>

Of(dirname, name, charset, messages) ==
    (<<dirname, name, "sags">> :> [charset |-> charset, messages |-> messages])

SomeLayouts ==
    { Of("share", de, "latin1", {"a", "b"}) @@ Of("share", deDE, "utf8", {"a"})
          @@ Of("own", deEuro, "utf8", {"b"}) @@ Of("own", fr, "utf8", {"a", "b"}),
      Of("share", deNormalized, "utf8", {"a"}) @@ Of("share", deUTF, "ascii", {"b"})
          @@ Of("own", <<"de", "_", "DE", "+", "euro">>, "ascii", {"b"})
          @@ Of("own", de, "latin1", {"a"})
          @@ (<<"share", de, "messages">> :> [charset |-> "latin1", messages |-> {"a"}]) }

SomeConversions == ({"latin1", "utf8", "ascii"} \X {"latin1", "utf8"}) \ {<<"ascii", "latin1">>}

SomeFailures == {<<"b", "latin1">>}
================================================================================
