---------------------------- MODULE PluralExpression ---------------------------
(***************************************************************************)
(* The plural expressions of message catalogs: the scanner, the tables of   *)
(* the parser and what one step of it does, the nodes it allocates, and the *)
(* evaluation.  A text is a sequence of characters; its end is the null     *)
(* character.  A node is <<operation, argument, ...>> or <<"num", n>>.      *)
(***************************************************************************)
EXTENDS Naturals, Integers, Sequences, SequencesExt

CONSTANTS
    UnsignedLong,   \* one more than the largest unsigned long int
    YYMAXDEPTH      \* the largest size of the parser's stack

ASSUME PluralExpressionAssumption ==
    UnsignedLong \in Nat \ {0} /\ YYMAXDEPTH \in Nat \ {0}

\* The null pointer instead of a node.
NULLEXP == <<"NULL">>
--------------------------------------------------------------------------------
(* The scanner.                                                             *)

Digit == ("0" :> 0) @@ ("1" :> 1) @@ ("2" :> 2) @@ ("3" :> 3) @@ ("4" :> 4)
         @@ ("5" :> 5) @@ ("6" :> 6) @@ ("7" :> 7) @@ ("8" :> 8) @@ ("9" :> 9)

IsDigit(c) == c \in DOMAIN Digit

\* What the loop over the digits computes, which wraps around.
Value(digits) ==
    FoldLeft(LAMBDA n, c : (n * 10 + Digit[c]) % UnsignedLong, 0, digits)

\* The operators of one character, with the operation they stand for.
Single == { <<"<", "CMPOP2", "less_than">>, <<">", "CMPOP2", "greater_than">>,
            <<"*", "MULOP2", "mult">>, <<"/", "MULOP2", "divide">>,
            <<"%", "MULOP2", "module">>, <<"+", "ADDOP2", "plus">>,
            <<"-", "ADDOP2", "minus">> }

\* Those of two characters, and what the first alone is.
Double == { <<"=", "=", "EQUOP2", "equal", "error">>,
            <<"!", "=", "EQUOP2", "not_equal", "!">>,
            <<"<", "=", "CMPOP2", "less_or_equal", "CMPOP2">>,
            <<">", "=", "CMPOP2", "greater_or_equal", "CMPOP2">>,
            <<"&", "&", "&", "none", "error">>,
            <<"|", "|", "|", "none", "error">> }

Symbols == {"n", "?", ":", "(", ")"}

\* The characters after which the scanner returns the end again and again.
Ends == {";", "\n"}

Scanned(kind, value, rest) == [kind |-> kind, value |-> value, rest |-> rest]

SingleOf(c) == IF \E s \in Single : s[1] = c THEN (CHOOSE s \in Single : s[1] = c)[3] ELSE "none"

yylex(text) ==
    LET blanks == SelectInSeq(text, LAMBDA c : c \notin {" ", "\t"})
        exp == IF blanks = 0 THEN <<>> ELSE SubSeq(text, blanks, Len(text))
        c == exp[1]
        rest == Tail(exp)
        other == SelectInSeq(exp, LAMBDA d : ~IsDigit(d))
        digits == IF other = 0 THEN exp ELSE SubSeq(exp, 1, other - 1)
        double == CHOOSE d \in Double : d[1] = c
    IN  CASE exp = <<>> -> Scanned("EOF", "none", exp)
          [] exp # <<>> /\ c \in Ends -> Scanned("EOF", "none", exp)
          [] exp # <<>> /\ IsDigit(c) ->
                 Scanned("NUMBER", Value(digits), SubSeq(exp, Len(digits) + 1, Len(exp)))
          [] exp # <<>> /\ c \in Symbols -> Scanned(c, "none", rest)
          [] exp # <<>> /\ (\E d \in Double : d[1] = c) ->
                 IF rest # <<>> /\ rest[1] = double[2]
                 THEN Scanned(double[3], double[4], Tail(rest))
                 ELSE Scanned(double[5], SingleOf(c), rest)
          [] exp # <<>> /\ (\E s \in Single : s[1] = c) /\ ~(\E d \in Double : d[1] = c) ->
                 Scanned((CHOOSE s \in Single : s[1] = c)[2], SingleOf(c), rest)
          [] OTHER -> Scanned("error", "none", rest)
--------------------------------------------------------------------------------
(* The tables.  States count from 0; so do the places of the packed tables. *)

YYFLAG == -32768
YYFINAL == 27
YYLAST == 53

\* The number of a token, by its kind.
yytranslate ==
    LET kinds == <<"EOF", "error", "undefined", "?", "|", "&", "EQUOP2", "CMPOP2", "ADDOP2",
                   "MULOP2", "!", "NUMBER", ":", "n", "(", ")">>
    IN  [kind \in ToSet(kinds) |-> (CHOOSE i \in 1..Len(kinds) : kinds[i] = kind) - 1]

At(table, i) == table[i + 1]

\* The symbol a rule derives, less YYNTBASE, and the symbols on its right.
yyr1 == <<0, 0, 1, 1, 1, 1, 1, 1, 1, 1, 1, 1, 1>>
yyr2 == <<0, 1, 5, 3, 3, 3, 3, 3, 3, 2, 1, 1, 3>>

yydefact == <<0, 0, 11, 10, 0, 1, 9, 0, 0, 0, 0, 0, 0, 0, 0, 12, 0, 3, 4, 5,
              6, 7, 8, 0, 2, 0, 0, 0>>

yydefgoto == <<25, 5>>

yypact == <<-9, -9, YYFLAG, YYFLAG, -9, 34, YYFLAG, 11, -9, -9,
            -9, -9, -9, -9, -9, YYFLAG, 24, 39, 43, 16,
            26, -3, YYFLAG, -9, 34, 21, 53, YYFLAG>>

yypgoto == <<YYFLAG, -1>>

\* Faulty variant of yytable: after a sum and with a product ahead, the sum is reduced.
yytableLeft ==
    <<6, 1, 2, 7, 3, 4, -7, 16, 17, 18,
      19, 20, 21, 22, 8, 9, 10, 11, 12, 13,
      14, 26, 24, 12, 13, 14, 15, 8, 9, 10,
      11, 12, 13, 14, 13, 14, 23, 8, 9, 10,
      11, 12, 13, 14, 10, 11, 12, 13, 14, 11,
      12, 13, 14, 27>>

yytable ==
    <<6, 1, 2, 7, 3, 4, 14, 16, 17, 18,
      19, 20, 21, 22, 8, 9, 10, 11, 12, 13,
      14, 26, 24, 12, 13, 14, 15, 8, 9, 10,
      11, 12, 13, 14, 13, 14, 23, 8, 9, 10,
      11, 12, 13, 14, 10, 11, 12, 13, 14, 11,
      12, 13, 14, 27>>

yycheck ==
    <<1, 10, 11, 4, 13, 14, 9, 8, 9, 10,
      11, 12, 13, 14, 3, 4, 5, 6, 7, 8,
      9, 0, 23, 7, 8, 9, 15, 3, 4, 5,
      6, 7, 8, 9, 8, 9, 12, 3, 4, 5,
      6, 7, 8, 9, 5, 6, 7, 8, 9, 6,
      7, 8, 9, 0>>
--------------------------------------------------------------------------------
(* The nodes.  A parser is a record; memory is how many nodes may be        *)
(* allocated at once, and allocated how many are.                           *)

RECURSIVE Size(_)
Size(exp) ==
    IF exp = NULLEXP THEN 0
    ELSE IF exp[1] \in {"num", "var"} THEN 1
    ELSE 1 + FoldLeft(LAMBDA n, arg : n + Size(arg), 0, Tail(exp))

\* FREE_EXPRESSION of each argument: the null pointer is none.
Freed(parser, args) ==
    [parser EXCEPT !.allocated = @ - FoldLeft(LAMBDA n, arg : n + Size(arg), 0, args)]

\* Faulty variant of new_exp: after a failed allocation the arguments are lost.
new_exp_lost(parser, operation, args) ==
    IF NULLEXP \notin ToSet(args) /\ parser.allocated < parser.memory
    THEN [parser EXCEPT !.allocated = @ + 1, !.yyval = <<operation>> \o args]
    ELSE [parser EXCEPT !.yyval = NULLEXP]

\* A new node, unless an argument is the null pointer or there is no memory; then the
\* arguments are freed.
new_exp(parser, operation, args) ==
    IF NULLEXP \notin ToSet(args) /\ parser.allocated < parser.memory
    THEN [parser EXCEPT !.allocated = @ + 1, !.yyval = <<operation>> \o args]
    ELSE [Freed(parser, args) EXCEPT !.yyval = NULLEXP]

new_exp_num(parser, n) ==
    IF parser.allocated < parser.memory
    THEN [parser EXCEPT !.allocated = @ + 1, !.yyval = <<"num", n>>]
    ELSE [parser EXCEPT !.yyval = NULLEXP]
--------------------------------------------------------------------------------
(* The parser.                                                              *)

EMPTY == [kind |-> "EMPTY", value |-> "none"]

Parser(memory) ==
    [ states |-> <<0>>, values |-> <<>>, yychar |-> EMPTY, yyval |-> NULLEXP,
      doing |-> "backup", memory |-> memory, allocated |-> 0, res |-> NULLEXP ]

\* yyacceptlab, yyabortlab and yyoverflowlab.
Return(parser, how) == [parser EXCEPT !.doing = how]

Returned == {"accepted", "aborted", "overflow"}

State(parser) == Last(parser.states)

\* The value of the i-th symbol on the right of a rule, counted from the last one, 0.
Symbol(parser, i) == parser.values[Len(parser.values) - i]

\* The entry of the packed table for a state and a token; YYFLAG means the default.
Packed(state, number) ==
    LET place == At(yypact, state) + number
    IN  IF place < 0 \/ place > YYLAST \/ At(yycheck, place) # number THEN YYFLAG
        ELSE At(yytable, place)

\* The state is known to reduce without a token.
NeedsToken(parser) ==
    parser.doing = "backup" /\ At(yypact, State(parser)) # YYFLAG /\ parser.yychar.kind = "EMPTY"

\* yynewstate.  The stack grows up to YYMAXDEPTH.
Push(parser, state, value) ==
    LET pushed == [parser EXCEPT !.states = Append(@, state), !.values = Append(@, value)]
    IN  IF Len(pushed.states) >= YYMAXDEPTH THEN Return(pushed, "overflow") ELSE pushed

\* The semantic actions.
Action(parser, rule) ==
    LET Exp(i) == Symbol(parser, i)
    IN  CASE rule = 1 -> [parser EXCEPT !.res = Exp(0), !.yyval = Exp(0)]
          [] rule = 2 -> new_exp(parser, "qmop", <<Exp(4), Exp(2), Exp(0)>>)
          [] rule = 3 -> new_exp(parser, "lor", <<Exp(2), Exp(0)>>)
          [] rule = 4 -> new_exp(parser, "land", <<Exp(2), Exp(0)>>)
          [] rule \in 5..8 -> new_exp(parser, Exp(1), <<Exp(2), Exp(0)>>)
          [] rule = 9 -> new_exp(parser, "lnot", <<Exp(0)>>)
          [] rule = 10 -> new_exp(parser, "var", <<>>)
          [] rule = 11 -> new_exp_num(parser, Exp(0))
          [] rule = 12 -> [parser EXCEPT !.yyval = Exp(1)]

\* The state after the symbol that a rule derives.
Goto(state, rule) ==
    LET symbol == At(yyr1, rule)
        place == At(yypgoto, symbol) + state
    IN  IF place >= 0 /\ place <= YYLAST /\ At(yycheck, place) = state
        THEN At(yytable, place)
        ELSE At(yydefgoto, symbol)

\* n symbols less on the stack.
Popped(parser, n) ==
    [parser EXCEPT !.states = SubSeq(@, 1, Len(@) - n), !.values = SubSeq(@, 1, Len(@) - n)]

\* The symbol of a rule takes the place of those on its right.
Derive(popped, rule) == Push(popped, Goto(State(popped), rule), popped.yyval)

\* yyreduce.  The first rule aborts on the null pointer.
Reduce(parser, rule) ==
    IF rule = 1 /\ Symbol(parser, 0) = NULLEXP THEN Return(parser, "aborted")
    ELSE Derive(Popped(Action(parser, rule), At(yyr2, rule)), rule)

\* yydefault.
Default(parser) ==
    LET rule == At(yydefact, State(parser))
    IN  IF rule = 0 THEN [parser EXCEPT !.doing = "errhandle"] ELSE Reduce(parser, rule)

\* yybackup, with the token if the state needs one.
Backup(parser) ==
    LET entry == Packed(State(parser), yytranslate[parser.yychar.kind])
        shifted == [parser EXCEPT !.yychar = IF @.kind = "EOF" THEN @ ELSE EMPTY]
    IN  IF At(yypact, State(parser)) = YYFLAG THEN Default(parser)
        ELSE CASE entry = YYFLAG -> Default(parser)
               [] entry = 0 -> [parser EXCEPT !.doing = "errhandle"]
               [] entry = YYFINAL -> Return(parser, "accepted")
               [] entry < 0 /\ entry # YYFLAG -> Reduce(parser, -entry)
               [] entry > 0 /\ entry # YYFINAL -> Push(shifted, entry, parser.yychar.value)

\* Faulty variant of ErrorHandle: the state that was popped is tried again.
ErrorHandleAgain(parser) ==
    IF Packed(State(parser), yytranslate["error"]) \in {YYFLAG, 0}
    THEN IF Len(parser.states) = 1 THEN Return(parser, "aborted") ELSE parser
    ELSE Push([parser EXCEPT !.doing = "backup"],
              Packed(State(parser), yytranslate["error"]), "none")

\* yyerrhandle and yyerrpop: states are popped until one shifts the error token.
ErrorHandle(parser) ==
    IF Packed(State(parser), yytranslate["error"]) \in {YYFLAG, 0}
    THEN IF Len(parser.states) = 1 THEN Return(parser, "aborted")
         ELSE [parser EXCEPT !.states = Front(@), !.values = Front(@)]
    ELSE Push([parser EXCEPT !.doing = "backup"],
              Packed(State(parser), yytranslate["error"]), "none")

Step(parser) == IF parser.doing = "backup" THEN Backup(parser) ELSE ErrorHandle(parser)
--------------------------------------------------------------------------------
(* The evaluation.  A division by zero ends the program: Fault.             *)

Fault == -1

Truth(b) == IF b THEN 1 ELSE 0

Binary(operation, l, r) ==
    CASE operation = "mult" -> (l * r) % UnsignedLong
      [] operation = "divide" -> IF r = 0 THEN Fault ELSE l \div r
      [] operation = "module" -> IF r = 0 THEN Fault ELSE l % r
      [] operation = "plus" -> (l + r) % UnsignedLong
      [] operation = "minus" -> (l - r) % UnsignedLong
      [] operation = "less_than" -> Truth(l < r)
      [] operation = "greater_than" -> Truth(l > r)
      [] operation = "less_or_equal" -> Truth(l <= r)
      [] operation = "greater_or_equal" -> Truth(l >= r)
      [] operation = "equal" -> Truth(l = r)
      [] operation = "not_equal" -> Truth(l # r)

RECURSIVE plural_eval(_, _)
plural_eval(pexp, n) ==
    LET Arg(i) == plural_eval(pexp[i + 1], n)
    IN  CASE pexp[1] = "var" -> n
          [] pexp[1] = "num" -> pexp[2]
          [] pexp[1] \notin {"var", "num"} /\ Arg(1) = Fault -> Fault
          [] pexp[1] = "lnot" /\ Arg(1) # Fault -> Truth(Arg(1) = 0)
          [] pexp[1] = "lor" /\ Arg(1) # Fault ->
                 IF Arg(1) # 0 THEN 1 ELSE IF Arg(2) = Fault THEN Fault ELSE Truth(Arg(2) # 0)
          [] pexp[1] = "land" /\ Arg(1) # Fault ->
                 IF Arg(1) = 0 THEN 0 ELSE IF Arg(2) = Fault THEN Fault ELSE Truth(Arg(2) # 0)
          [] pexp[1] = "qmop" /\ Arg(1) # Fault -> IF Arg(1) # 0 THEN Arg(2) ELSE Arg(3)
          [] OTHER -> IF Arg(2) = Fault THEN Fault ELSE Binary(pexp[1], Arg(1), Arg(2))
================================================================================
