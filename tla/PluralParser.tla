------------------------------ MODULE PluralParser -----------------------------
(***************************************************************************)
(* The parser of plural expressions at work on any text.  What it has not   *)
(* read of the text is chosen as it is read.                                *)
(***************************************************************************)
EXTENDS PluralExpression, FiniteSets, FiniteSetsExt

CONSTANTS
    Texts,         \* bounds: alphabets, each with the largest length of its texts
    Memories       \* how many nodes may be allocated at once

ASSUME PluralParserAssumption ==
    Memories \subseteq Nat /\ \A bound \in Texts : bound[2] \in Nat

VARIABLES
    parser,   \* the parser
    text,     \* the text as far as it is known
    cp,       \* how much of it the scanner has consumed
    closed,   \* the text ends there
    bound     \* the alphabet and the largest length of this text

vars == <<parser, text, cp, closed, bound>>

Init ==
    /\ \E memory \in Memories : parser = Parser(memory)
    /\ text = <<>> /\ cp = 0 /\ closed = FALSE
    /\ bound \in Texts

Unread == SubSeq(text, cp + 1, Len(text))

\* The scanner stops before the end of the known text, so what follows does not matter to it.
Known == closed \/ (Unread # <<>> /\ yylex(Unread).rest # <<>>)

\* The text goes on with a character, or it ends.
Write ==
    /\ NeedsToken(parser) /\ ~Known
    /\ \/ /\ Len(text) < bound[2]
          /\ \E c \in bound[1] : text' = Append(text, c)
          /\ UNCHANGED closed
       \/ closed' = TRUE /\ UNCHANGED text
    /\ UNCHANGED <<parser, cp, bound>>

\* yybackup where it calls yylex.
ReadToken ==
    /\ NeedsToken(parser) /\ Known
    /\ LET scanned == yylex(Unread)
       IN  /\ parser' = [parser EXCEPT !.yychar = [kind |-> scanned.kind,
                                                   value |-> scanned.value]]
           /\ cp' = Len(text) - Len(scanned.rest)
    /\ UNCHANGED <<text, closed, bound>>

Parse ==
    /\ parser.doing \notin Returned /\ ~NeedsToken(parser)
    /\ parser' = Step(parser)
    /\ UNCHANGED <<text, cp, closed, bound>>

Stop == parser.doing \in Returned /\ UNCHANGED vars

Next == Write \/ ReadToken \/ Parse \/ Stop

\* The loops of the parser go on; a text is finite.
Spec == Init /\ [][Next]_vars /\ WF_vars(Write \/ ReadToken \/ Parse)
--------------------------------------------------------------------------------
(* What the grammar says, from the precedence table of plural.y and the     *)
(* tokens of C.                                                             *)

\* The spelled tokens: text, kind and value.
Spelled ==
    { <<<<"=", "=">>, "EQUOP2", "equal">>, <<<<"!", "=">>, "EQUOP2", "not_equal">>,
      <<<<"<">>, "CMPOP2", "less_than">>, <<<<">">>, "CMPOP2", "greater_than">>,
      <<<<"<", "=">>, "CMPOP2", "less_or_equal">>,
      <<<<">", "=">>, "CMPOP2", "greater_or_equal">>,
      <<<<"+">>, "ADDOP2", "plus">>, <<<<"-">>, "ADDOP2", "minus">>,
      <<<<"*">>, "MULOP2", "mult">>, <<<<"/">>, "MULOP2", "divide">>,
      <<<<"%">>, "MULOP2", "module">>, <<<<"&", "&">>, "&", "land">>,
      <<<<"|", "|">>, "|", "lor">>, <<<<"!">>, "!", "lnot">>, <<<<"?">>, "?", "qmop">>,
      <<<<":">>, ":", "none">>, <<<<"n">>, "n", "var">>, <<<<"(">>, "(", "none">>,
      <<<<")">>, ")", "none">> }

\* The tokens of a text, each the longest that fits, up to its end.
RECURSIVE TokensOf(_)
TokensOf(t) ==
    LET fitting == {s \in Spelled : IsPrefix(s[1], t)}
        longest == CHOOSE s \in fitting : \A u \in fitting : Len(u[1]) <= Len(s[1])
        number == Max({i \in 0..Len(t) : \A j \in 1..i : IsDigit(t[j])})
    IN  CASE t = <<>> -> <<>>
          [] t # <<>> /\ t[1] \in Ends -> <<>>
          [] t # <<>> /\ t[1] \in {" ", "\t"} -> TokensOf(Tail(t))
          [] t # <<>> /\ number > 0 ->
                 <<<<"NUMBER", Value(SubSeq(t, 1, number))>>>>
                     \o TokensOf(SubSeq(t, number + 1, Len(t)))
          [] t # <<>> /\ fitting # {} ->
                 <<<<longest[2], longest[3]>>>>
                     \o TokensOf(SubSeq(t, Len(longest[1]) + 1, Len(t)))
          [] OTHER -> <<<<"error", "none">>>>

\* The binary operators, those that bind least first; all are grouped from the left.
Levels == <<"|", "&", "EQUOP2", "CMPOP2", "ADDOP2", "MULOP2">>

\* The places of tokens of a kind outside of parentheses.
Depth(tokens, i) ==
    Cardinality({j \in 1..(i - 1) : tokens[j][1] = "("})
    - Cardinality({j \in 1..(i - 1) : tokens[j][1] = ")"})

Outside(tokens, kind) == {i \in 1..Len(tokens) : tokens[i][1] = kind /\ Depth(tokens, i) = 0}

NotAnExpression == <<"NOT">>

Joined(operation, args) ==
    IF NotAnExpression \in ToSet(args) THEN NotAnExpression ELSE <<operation>> \o args

\* The tree of a sequence of tokens: split at the first "?" outside of parentheses and its
\* ":", else at the last operator of the level that binds least, else a "!" or an operand.
RECURSIVE TreeOf(_)
TreeOf(tokens) ==
    LET size == Len(tokens)
        Piece(i, j) == TreeOf(SubSeq(tokens, i, j))
        questions == Outside(tokens, "?")
        first == Min(questions)
        \* the ":" that closes the first "?": as many "?" as ":" are between them
        closing == {i \in Outside(tokens, ":") :
                       /\ i > first
                       /\ Cardinality({j \in questions : j < i})
                          = Cardinality({j \in Outside(tokens, ":") : j <= i})}
        levels == {l \in 1..Len(Levels) : Outside(tokens, Levels[l]) # {}}
        place == Max(Outside(tokens, Levels[Min(levels)]))
    IN  CASE size = 0 -> NotAnExpression
          [] size > 0 /\ questions # {} ->
                 IF closing = {} THEN NotAnExpression
                 ELSE Joined("qmop", <<Piece(1, first - 1), Piece(first + 1, Min(closing) - 1),
                                       Piece(Min(closing) + 1, size)>>)
          [] size > 0 /\ questions = {} /\ levels # {} ->
                 Joined(tokens[place][2], <<Piece(1, place - 1), Piece(place + 1, size)>>)
          [] size > 0 /\ questions = {} /\ levels = {} ->
                 IF tokens[1][1] = "!" THEN Joined("lnot", <<Piece(2, size)>>)
                 ELSE IF tokens[1][1] = "(" /\ tokens[size][1] = ")"
                      THEN Piece(2, size - 1)
                 ELSE IF size = 1 /\ tokens[1][1] = "n" THEN <<"var">>
                 ELSE IF size = 1 /\ tokens[1][1] = "NUMBER" THEN <<"num", tokens[1][2]>>
                 ELSE NotAnExpression
--------------------------------------------------------------------------------
(* Properties.                                                              *)

\* With memory and a deep enough stack, the tables accept exactly the texts of the grammar, up
\* to the end, and the tree is the one of the precedences and groupings of C: the conflicts
\* the grammar leaves to the parser generator are resolved that way.
ParsesLikeC ==
    parser.doing \in {"accepted", "aborted"} =>
        LET known == IF closed \/ parser.doing = "accepted" THEN TokensOf(text)
                     ELSE TokensOf(SubSeq(text, 1, cp))
            tree == TreeOf(known)
        IN  \/ parser.doing = "accepted" /\ parser.res = tree
            \/ parser.doing = "aborted" /\ (Size(tree) > parser.memory \/ tree = NotAnExpression)

\* When memory runs out within an expression, the parser gives up and every node it had
\* allocated is freed; when it does not, the nodes are those of the tree and no others.
NodesAreFreed ==
    parser.doing \in {"accepted", "aborted"} /\ parser.yychar.kind = "EOF" =>
        \/ parser.allocated = Size(parser.res)
        \/ TreeOf(TokensOf(text)) = NotAnExpression

\* Whatever the text, the parser returns.
Returns == <>(parser.doing \in Returned)
================================================================================
