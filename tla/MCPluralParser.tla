----------------------------- MODULE MCPluralParser ----------------------------
(* An instance of PluralParser: short texts of many characters, and longer ones of few, in
   which conditionals nest and operators of different levels follow each other. *)
EXTENDS PluralParser

SomeTexts ==
    { <<{"n", "2", "!", "=", "<", "+", "*", "?", ":", "(", ")", "|", "&", ";", " "}, 4>>,
      <<{"n", "?", ":"}, 10>>,
      <<{"n", "?", ":", "(", ")"}, 7>>,
      <<{"n", "+", "*", "?", ":"}, 8>>,
      <<{"n", "!", "=", "<", "+"}, 8>>,
      <<{"n", "&", "|", "=", "?", ":"}, 8>> }
================================================================================
