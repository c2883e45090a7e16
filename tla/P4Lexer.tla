------------------------------ MODULE P4Lexer -------------------------------
(***************************************************************************)
(* The hand-written lexer of lexer.cpp, which turns preprocessed P4 into   *)
(* tokens.  It always holds one character, last, that it has taken off the *)
(* stream and not yet used.  Some of its parts use advance, which counts   *)
(* rows and columns, and some take characters off the stream directly.     *)
(* A step is a pass of one of its loops, or what stands between two loops. *)
(***************************************************************************)
EXTENDS P4Number, FiniteSets

CONSTANTS
    Inputs,    \* the texts of the stream
    Keywords,  \* the identifiers that are tokens of their own
    Alnum      \* the letters, and the digits, that identifiers are made of

EOF == "eof"
NUL == "nul"

\* isspace of the C locale; TLA+ has no escape for the vertical tab.
Space == {" ", "\t", "\n", "\r", "\f", "vertical tab"}

NameChar == Alnum \cup {"_"}

\* A text holds no NUL and no byte that is equal to EOF.
Character == STRING \ {EOF, NUL}

ASSUME InputsAssumption == \A text \in Inputs : text \in Seq(Character)
ASSUME AlnumAssumption == Alnum \cap (Space \cup {EOF, "/"}) = {}

VARIABLES
    input,   \* the text of the stream
    lexer,   \* the stream and the members of the Lexer that follow it
    text,    \* the text of the last name or string
    value,   \* the value of the last number
    width,   \* the width of the last number that had one
    pc,      \* where the call of next() is
    prev,    \* the first character of what read_other reads
    numstr,  \* the text of a number
    tokens   \* what next() has returned so far, and last after it

literals == <<text, value, width>>
locals == <<prev, numstr>>
vars == <<input, lexer, literals, pc, locals, tokens>>

\* rest is what is left in the stream, fail its failbit.
NewLexer(chars) == [rest |-> chars, fail |-> FALSE, last |-> " ", row |-> 1, col |-> 0]

-----------------------------------------------------------------------------
\* is.get()
Get(l) ==
    IF l.fail \/ l.rest = <<>> THEN [l EXCEPT !.last = EOF, !.fail = TRUE]
    ELSE [l EXCEPT !.last = Head(l.rest), !.rest = Tail(l.rest)]

\* is.get(sb): up to the end of the line; the stream fails if that is nothing.
GetLine(l) ==
    LET n == CHOOSE k \in 0 .. Len(l.rest) :
               /\ \A m \in 1 .. k : l.rest[m] # "\n"
               /\ k = Len(l.rest) \/ l.rest[k + 1] = "\n"
    IN  IF l.fail \/ n = 0 THEN [l EXCEPT !.fail = TRUE]
        ELSE [l EXCEPT !.rest = SubSeq(@, n + 1, Len(@))]

\* Mutant: a new line does not reset the column, and is not counted.
advanceInRow(l) == IF l.last = EOF THEN l ELSE [Get(l) EXCEPT !.col = @ + 1]

advance(l) ==
    IF l.last = EOF THEN l
    ELSE LET g == Get(l)
         IN  IF g.last = "\n" THEN [g EXCEPT !.row = @ + 1, !.col = 0]
             ELSE [g EXCEPT !.col = @ + 1]

-----------------------------------------------------------------------------
LexerInit ==
    /\ input \in Inputs
    /\ lexer = NewLexer(input)
    /\ text = <<>> /\ value = 0 /\ width = 32
    /\ pc = "idle" /\ prev = " " /\ numstr = <<>>
    /\ tokens = <<>>

Return(l, token) ==
    /\ lexer' = l /\ pc' = "idle"
    /\ tokens' = Append(tokens, [token |-> token, last |-> l.last])

GoOn(l, where) == lexer' = l /\ pc' = where /\ UNCHANGED tokens

\* The parser asks for tokens up to the end, or std::stoi throws.
Ended == tokens # <<>> /\ Last(tokens).token \in {"T_END", "exception"}

Call ==
    /\ pc = "idle" /\ ~Ended
    /\ GoOn(lexer, "space")
    /\ UNCHANGED <<input, literals, locals>>

SkipSpace ==
    /\ pc = "space" /\ lexer.last \in Space
    /\ GoOn(advance(lexer), "space")
    /\ UNCHANGED <<input, literals, locals>>

EndOfInput ==
    /\ pc = "space" /\ lexer.last = EOF
    /\ Return(lexer, "T_END")
    /\ UNCHANGED <<input, literals, locals>>

-----------------------------------------------------------------------------
BeginName ==
    /\ pc = "space" /\ lexer.last \in NameChar \ Decimal
    /\ text' = <<lexer.last>>
    /\ GoOn(lexer, "name")
    /\ UNCHANGED <<input, value, width, locals>>

NameToken(name) ==
    IF name = <<"_">> THEN "T_DONTCARE" ELSE IF name \in Keywords THEN "T_KEYWORD" ELSE "T_IDENTIFIER"

\* read_identifier: the columns are counted, a new line behind the name is not.
ReadName ==
    /\ pc = "name"
    /\ LET l == [Get(lexer) EXCEPT !.col = @ + 1]
       IN  IF l.last \in NameChar
           THEN text' = Append(text, l.last) /\ GoOn(l, "name")
           ELSE UNCHANGED text /\ Return(l, NameToken(text))
    /\ UNCHANGED <<input, value, width, locals>>

BeginNumber ==
    /\ pc = "space" /\ lexer.last \in Decimal
    /\ numstr' = <<>>
    /\ GoOn(lexer, "number")
    /\ UNCHANGED <<input, literals, prev>>

ReadNumber ==
    /\ pc = "number"
    /\ numstr' = Append(numstr, lexer.last)
    /\ LET l == advance(lexer)
           number == read_number(numstr', value, width)
       IN  IF l.last \in NumberChar
           THEN GoOn(l, "number") /\ UNCHANGED <<value, width>>
           ELSE /\ Return(l, number.token)
                /\ width' = number.width
                /\ IF number.token = "exception" THEN UNCHANGED value
                   ELSE value' = number.value
    /\ UNCHANGED <<input, text, prev>>

-----------------------------------------------------------------------------
BeginOther ==
    /\ pc = "space" /\ lexer.last \notin Space \cup NameChar \cup Decimal \cup {EOF}
    /\ prev' = lexer.last
    /\ GoOn(advance(lexer), "other")
    /\ UNCHANGED <<input, literals, numstr>>

BeginString ==
    /\ pc = "other" /\ prev = "\""
    /\ text' = <<>>
    /\ GoOn(lexer, "string")
    /\ UNCHANGED <<input, value, width, locals>>

\* Mutant: the loop does not leave a string that is not closed.
ReadStringToQuote ==
    /\ pc = "string"
    /\ LET escape == lexer.last = "\\"
           l == IF escape THEN Get(lexer) ELSE lexer
       IN  IF ~escape /\ l.last = "\"" THEN UNCHANGED text /\ Return(l, "T_STRING_LITERAL")
           ELSE IF l.last = EOF THEN UNCHANGED text /\ GoOn(l, "string")
           ELSE /\ text' = text \o (IF escape THEN <<"\\", l.last>> ELSE <<l.last>>)
                /\ GoOn(Get(l), "string")
    /\ UNCHANGED <<input, value, width, locals>>

\* read_string: the closing quote is left in last.
ReadString ==
    /\ pc = "string"
    /\ LET escape == lexer.last = "\\"
           l == IF escape THEN Get(lexer) ELSE lexer
       IN  IF ~escape /\ l.last = "\"" THEN UNCHANGED text /\ Return(l, "T_STRING_LITERAL")
           ELSE IF l.last = EOF THEN UNCHANGED text /\ Return(l, "T_UNKNOWN")
           ELSE /\ text' = text \o (IF escape THEN <<"\\", l.last>> ELSE <<l.last>>)
                /\ GoOn(Get(l), "string")
    /\ UNCHANGED <<input, value, width, locals>>

ReadLocation ==
    /\ pc = "other" /\ prev = "#"
    /\ LET l == advance(GetLine(lexer))
       IN  IF l.last = EOF THEN Return(l, "T_END") ELSE GoOn(l, "space")
    /\ UNCHANGED <<input, literals, locals>>

LineComment ==
    /\ pc = "other" /\ prev = "/" /\ lexer.last = "/"
    /\ GoOn(advance(GetLine(lexer)), "space")
    /\ UNCHANGED <<input, literals, locals>>

BeginBlock ==
    /\ pc = "other" /\ prev = "/" /\ lexer.last = "*"
    /\ GoOn(lexer, "block")
    /\ UNCHANGED <<input, literals, locals>>

\* The outer loop of a block comment: at the end of the input it goes on for
\* ever, as only a NUL ends it.
BlockComment ==
    /\ pc = "block"
    /\ LET l == advance(lexer) IN GoOn(l, IF l.last = "*" THEN "stars" ELSE "block")
    /\ UNCHANGED <<input, literals, locals>>

\* Mutant: only one star is skipped before a '/'.
StarsOne ==
    /\ pc = "stars"
    /\ LET l == advance(lexer)
       IN  IF l.last = "/" THEN GoOn(advance([l EXCEPT !.last = NUL]), "space")
           ELSE GoOn(l, "block")
    /\ UNCHANGED <<input, literals, locals>>

\* The inner loop: a '/' behind the stars becomes a NUL and ends the outer one;
\* another character is not looked at again, which is all right, as it is no star.
Stars ==
    /\ pc = "stars"
    /\ LET l == advance(lexer)
       IN  IF l.last = "*" THEN GoOn(l, "stars")
           ELSE IF l.last = "/" THEN GoOn(advance([l EXCEPT !.last = NUL]), "space")
           ELSE GoOn(l, "block")
    /\ UNCHANGED <<input, literals, locals>>

-----------------------------------------------------------------------------
\* The operators of two and three characters, after their first one.
Token(l, token)  == [lexer |-> l, token |-> token]
Two(l, token)    == Token(advance(l), token)
One(l, token)    == Token(l, token)

\* Mutant: the second character is seen, but not taken.
DoubledUnread(l, second, token, single) == IF l.last = second THEN One(l, token) ELSE One(l, single)

Doubled(l, second, token, single) == IF l.last = second THEN Two(l, token) ELSE One(l, single)

Singles == [ c \in {"%", "(", ")", "*", ",", "-", ":", ";", "?", "[", "]", "^", "{", "}", "~"} |->
    CASE c = "%" -> "T_MOD"     [] c = "(" -> "T_L_PAREN"   [] c = ")" -> "T_R_PAREN"
      [] c = "*" -> "T_MUL"     [] c = "," -> "T_COMMA"     [] c = "-" -> "T_MINUS"
      [] c = ":" -> "T_COLON"   [] c = ";" -> "T_SEMICOLON" [] c = "?" -> "T_QUESTION"
      [] c = "[" -> "T_L_BRACKET" [] c = "]" -> "T_R_BRACKET" [] c = "^" -> "T_BIT_XOR"
      [] c = "{" -> "T_L_BRACE" [] c = "}" -> "T_R_BRACE"   [] c = "~" -> "T_COMPLEMENT" ]

Operator(l, first) ==
    CASE first = "!" -> Doubled(l, "=", "T_NE", "T_NOT")
      [] first = "&" -> IF l.last # "&" THEN One(l, "T_BIT_AND")
                        ELSE Doubled(advance(l), "&", "T_MASK", "T_AND")
      [] first = "+" -> Doubled(l, "+", "T_PP", "T_PLUS")
      [] first = "." -> Doubled(l, ".", "T_RANGE", "T_DOT")
      [] first = "/" -> One(l, "T_DIV")
      [] first = "<" -> IF l.last = "<" THEN Two(l, "T_SHL") ELSE Doubled(l, "=", "T_LE", "T_L_ANGLE")
      [] first = "=" -> Doubled(l, "=", "T_EQ", "T_ASSIGN")
      [] first = ">" -> Doubled(l, "=", "T_GE", "T_R_ANGLE")
      [] first = "@" -> IF l.last = "p" THEN One(l, "T_END_PRAGMA") ELSE One(l, "T_AT")
      [] first = "|" ->
           CASE l.last = "+" -> Doubled(advance(l), "|", "T_PLUS_SAT", "T_UNKNOWN")
             [] l.last = "-" -> Doubled(advance(l), "|", "T_MINUS_SAT", "T_UNKNOWN")
             [] OTHER -> Doubled(l, "|", "T_OR", "T_BIT_OR")
      [] first \in DOMAIN Singles -> One(l, Singles[first])
      [] OTHER -> One(l, "T_UNKNOWN")

ReadOperator ==
    /\ pc = "other" /\ prev \notin {"\"", "#"}
    /\ prev = "/" => lexer.last \notin {"/", "*"}
    /\ LET read == Operator(lexer, prev) IN Return(read.lexer, read.token)
    /\ UNCHANGED <<input, literals, locals>>

LexerNext ==
    \/ Call \/ SkipSpace \/ EndOfInput
    \/ BeginName \/ ReadName \/ BeginNumber \/ ReadNumber
    \/ BeginOther \/ ReadOperator \/ BeginString \/ ReadString
    \/ ReadLocation \/ LineComment \/ BeginBlock \/ BlockComment \/ Stars

\* A call that was begun goes on; whether there is another one is up to the parser.
LexerSpec == LexerInit /\ [][LexerNext]_vars /\ WF_vars(pc # "idle" /\ LexerNext)

-----------------------------------------------------------------------------
Stands(chars, i, part) == i + Len(part) - 1 <= Len(chars) /\ SubSeq(chars, i, i + Len(part) - 1) = part

\* A text with a block comment that is not closed, wherever it begins.
Unterminated(chars) ==
    \E i \in DOMAIN chars :
        /\ Stands(chars, i, <<"/", "*">>)
        /\ \A k \in i + 2 .. Len(chars) - 1 : ~Stands(chars, k, <<"*", "/">>)

\* A text with a line comment that is empty.
EmptyLineComment(chars) ==
    \E i \in DOMAIN chars :
        Stands(chars, i, <<"/", "/">>) /\ (i + 1 = Len(chars) \/ chars[i + 2] = "\n")

Names == {"T_IDENTIFIER", "T_KEYWORD", "T_DONTCARE"}

NewLinesIn(chars) == Cardinality({ i \in DOMAIN chars : chars[i] = "\n" })

Consumed == SubSeq(input, 1, Len(input) - Len(lexer.rest))

(***************************************************************************)
(* A call of next() returns, unless a block comment is not closed.         *)
(***************************************************************************)
CallsReturn == pc # "idle" ~> pc = "idle" \/ Unterminated(input)

(***************************************************************************)
(* The row is one more than the new lines taken off the stream, but for    *)
(* the new lines that stand directly behind a name: read_identifier does   *)
(* not count them.  (Nor does read_string those in a string.)              *)
(***************************************************************************)
RowsCounted ==
    "\"" \notin Range(input) =>
        lexer.row = 1 + NewLinesIn(Consumed)
                    - Cardinality({ n \in DOMAIN tokens : /\ tokens[n].token \in Names
                                                          /\ tokens[n].last = "\n" })

(***************************************************************************)
(* What the lexer takes for the end of the input is the end, but for a     *)
(* line comment or a location that is empty: is.get(sb) makes the stream   *)
(* fail when there is nothing to get.  And it is in a block comment there, *)
(* where it stays for ever, only if one is not closed.                     *)
(***************************************************************************)
EndAtEnd ==
    lexer.last = EOF =>
        /\ lexer.rest # <<>> => EmptyLineComment(input) \/ "#" \in Range(input)
        /\ pc \in {"block", "stars"} => Unterminated(input)

=============================================================================
