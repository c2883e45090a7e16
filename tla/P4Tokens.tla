------------------------------ MODULE P4Tokens ------------------------------
(***************************************************************************)
(* What the lexer of lexer.cpp is expected to make of a text, defined on   *)
(* the places of the text and not on a stream.                             *)
(***************************************************************************)
EXTENDS P4Lexer

CONSTANT Literals  \* numeric literals: width (or NoWidth), signed, base and digits

\* The text of every token that is not a name, a number or a string.
Lexemes ==
    [ T_NE |-> <<"!", "=">>, T_NOT |-> <<"!">>, T_MOD |-> <<"%">>, T_MASK |-> <<"&", "&", "&">>,
      T_AND |-> <<"&", "&">>, T_BIT_AND |-> <<"&">>, T_L_PAREN |-> <<"(">>,
      T_R_PAREN |-> <<")">>, T_MUL |-> <<"*">>, T_PP |-> <<"+", "+">>, T_PLUS |-> <<"+">>,
      T_COMMA |-> <<",">>, T_MINUS |-> <<"-">>, T_RANGE |-> <<".", ".">>, T_DOT |-> <<".">>,
      T_DIV |-> <<"/">>, T_COLON |-> <<":">>, T_SEMICOLON |-> <<";">>, T_SHL |-> <<"<", "<">>,
      T_LE |-> <<"<", "=">>, T_L_ANGLE |-> <<"<">>, T_EQ |-> <<"=", "=">>, T_ASSIGN |-> <<"=">>,
      T_GE |-> <<">", "=">>, T_R_ANGLE |-> <<">">>, T_QUESTION |-> <<"?">>,
      T_L_BRACKET |-> <<"[">>, T_R_BRACKET |-> <<"]">>, T_BIT_XOR |-> <<"^">>,
      T_L_BRACE |-> <<"{">>, T_R_BRACE |-> <<"}">>, T_PLUS_SAT |-> <<"|", "+", "|">>,
      T_MINUS_SAT |-> <<"|", "-", "|">>, T_OR |-> <<"|", "|">>, T_BIT_OR |-> <<"|">>,
      T_COMPLEMENT |-> <<"~">> ]

\* The end of the block comment that begins at i; 0 when there is none.
BlockEnd(chars, i) ==
    LET ends == { k \in i + 2 .. Len(chars) - 1 : Stands(chars, k, <<"*", "/">>) }
    IN  IF ends = {} THEN 0 ELSE (CHOOSE k \in ends : \A l \in ends : k <= l) + 1

LineEndAfter(chars, i) ==
    CHOOSE k \in i .. Len(chars) + 1 :
        /\ k = Len(chars) + 1 \/ chars[k] = "\n"
        /\ \A l \in i .. k - 1 : chars[l] # "\n"

\* The end of the longest run of these characters from i on.
RunEnd(chars, i, run) ==
    CHOOSE k \in i .. Len(chars) :
        /\ \A l \in i .. k : chars[l] \in run
        /\ k = Len(chars) \/ chars[k + 1] \notin run

\* The text from a place on up to an end: space, or a token.
Gap(end)         == [end |-> end, tokens |-> <<>>]
Lone(token, end) == [end |-> end, tokens |-> <<token>>]

Piece(chars, i) ==
    CASE chars[i] \in Space -> Gap(i)
      [] Stands(chars, i, <<"/", "*">>) -> Gap(BlockEnd(chars, i))
      [] Stands(chars, i, <<"/", "/">>) -> Gap(LineEndAfter(chars, i) - 1)
      [] chars[i] \in Decimal ->
           LET end == RunEnd(chars, i, NumberChar)
           IN  Lone(read_number(SubSeq(chars, i, end), 0, 32).token, end)
      [] chars[i] \in NameChar \ Decimal ->
           LET end == RunEnd(chars, i, NameChar)
               name == SubSeq(chars, i, end)
           IN  Lone(IF name = <<"_">> THEN "T_DONTCARE"
                    ELSE IF name \in Keywords THEN "T_KEYWORD" ELSE "T_IDENTIFIER", end)
      [] OTHER ->
           LET here == { t \in DOMAIN Lexemes : Stands(chars, i, Lexemes[t]) }
               longest == CHOOSE t \in here : \A u \in here : Len(Lexemes[u]) <= Len(Lexemes[t])
           IN  IF here = {} THEN Lone("T_UNKNOWN", i)
               ELSE Lone(longest, i + Len(Lexemes[longest]) - 1)

AddPiece(chars, front) ==
    IF front.end = Len(chars) THEN front
    ELSE LET piece == Piece(chars, front.end + 1)
         IN  [end |-> piece.end, tokens |-> front.tokens \o piece.tokens]

\* The first n pieces of a text.
Pieces(chars) ==
    LET front[n \in 0 .. Len(chars)] ==
          IF n = 0 THEN Gap(0) ELSE AddPiece(chars, front[n - 1])
    IN  front

TokensOf(chars) == Pieces(chars)[Len(chars)].tokens

\* Texts of which the lexer says that it does not know them.
HalfSaturating(chars) ==
    \E i \in DOMAIN chars : \E sign \in {"+", "-"} :
        Stands(chars, i, <<"|", sign>>) /\ ~Stands(chars, i, <<"|", sign, "|">>)

Plain(chars) ==
    /\ Range(chars) \cap {"\"", "#", "@"} = {}
    /\ ~Unterminated(chars) /\ ~EmptyLineComment(chars) /\ ~HalfSaturating(chars)

-----------------------------------------------------------------------------
(***************************************************************************)
(* A text without strings, locations and pragmas is split into the longest *)
(* tokens that stand at each place, with comments for space, whichever of  *)
(* the reading functions left last behind.                                 *)
(***************************************************************************)
LongestTokens ==
    tokens # <<>> /\ Last(tokens).token = "T_END" /\ Plain(input) =>
        [n \in DOMAIN tokens |-> tokens[n].token] = Append(TokensOf(input), "T_END")

-----------------------------------------------------------------------------
NoWidth == 0

BaseMark(base) == CASE base = 16 -> <<"0", "x">> [] base = 2 -> <<"0", "b">>
                    [] base = 8 -> <<"0", "o">> [] base = 10 -> <<>>

DecimalDigit(n) == CHOOSE c \in Decimal : ValueOf(c) = n

DecimalText(n) ==
    IF n < 10 THEN <<DecimalDigit(n)>> ELSE <<DecimalDigit(n \div 10), DecimalDigit(n % 10)>>

LiteralText(l) ==
    (IF l.width = NoWidth THEN <<>> ELSE DecimalText(l.width) \o <<IF l.signed THEN "s" ELSE "w">>)
    \o (BaseMark(l.base) \o l.digits)

Denoted(digits, base) ==
    LET upto[n \in 0 .. Len(digits)] ==
          IF n = 0 THEN 0 ELSE upto[n - 1] * base + ValueOf(digits[n])
    IN  upto[Len(digits)]

\* No literal is so wide that read_number shifts out of an int, or so long that
\* std::stoi throws; a sign comes with a width.
Readable(l) ==
    /\ l.width \in 0 .. MaxWidth /\ l.signed \in BOOLEAN /\ l.base \in {2, 8, 10, 16}
    /\ l.digits \in Seq(DigitsOf(l.base)) /\ l.digits # <<>>
    /\ Denoted(l.digits, l.base) <= MaxInt
    /\ l.signed => l.width # NoWidth

ASSUME LiteralsAssumption == \A l \in Literals : Readable(l)

LiteralTexts == { LiteralText(l) : l \in Literals }

(***************************************************************************)
(* The value of a literal is what its digits say, cut to its width, and in *)
(* two's complement when it is signed; a signed literal has at least two   *)
(* bits, and what is said of the width is kept.                            *)
(***************************************************************************)
LiteralValue ==
    Len(tokens) = 1 /\ input \in LiteralTexts =>
        \A l \in { l \in Literals : LiteralText(l) = input } :
            LET n == Denoted(l.digits, l.base)
                bits == TwoTo[l.width]
            IN  IF l.signed /\ l.width < 2 THEN tokens[1].token = "T_UNKNOWN"
                ELSE /\ tokens[1].token = "T_NUMBER"
                     /\ width = IF l.width = NoWidth THEN 32 ELSE l.width
                     /\ l.width = NoWidth => value = n
                     /\ l.width # NoWidth =>
                          /\ \E k \in 0 .. n \div bits + 1 : n = value + k * bits
                          /\ value \in IF l.signed THEN -(bits \div 2) .. bits \div 2 - 1
                                       ELSE 0 .. bits - 1

=============================================================================
