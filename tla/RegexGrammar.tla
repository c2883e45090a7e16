---------------------------- MODULE RegexGrammar ----------------------------
(***************************************************************************)
(* lexer_grammar of lexer.h: how the text of a regular expression becomes  *)
(* a syntax tree.  The grammar is a parser that tries its alternatives in  *)
(* order; its actions push trees onto node_stack and combine the ones on   *)
(* top, as soon as they are reached, and nothing takes them back when the  *)
(* parser turns to another alternative.                                    *)
(*                                                                         *)
(* A text is a sequence of characters, and [:alpha:] and the other class   *)
(* expressions count as one, which is found only between the brackets of a *)
(* class.  Left out are escapes that name a character by a number.         *)
(***************************************************************************)
EXTENDS RegexTree, SequencesExt

CONSTANTS
    CharSet,  \* the characters of the texts that are lexed, in ascending order
    Regexes,  \* the regular expressions: texts, with what is meant by them
    ClassExprs,   \* the class expressions
    Members(_)    \* the characters that one of them stands for

ASSUME CharSetAssumption == \A m, n \in DOMAIN CharSet : CharSet[m] = CharSet[n] => m = n

VARIABLES
    regex,      \* the expression that is registered
    outcome,    \* what became of it
    tree,       \* the tree that parse returned, if it did
    node_stack  \* shared by all calls of parse

vars == <<regex, outcome, tree, node_stack>>

NoTree == <<>>

AllChars == { CharSet[n] : n \in DOMAIN CharSet }
Code(c) == CHOOSE n \in DOMAIN CharSet : CharSet[n] = c

NewLine == "\n"
Tab == "\t"
Digits == {"0", "1", "2"}
DigitValue(c) == IF c = "0" THEN 0 ELSE IF c = "1" THEN 1 ELSE 2

CharAt(p, i) == IF i <= Len(p) THEN p[i] ELSE "end"

-----------------------------------------------------------------------------
(***************************************************************************)
(* A parser goes from a place in the text and a stack to another place and *)
(* another stack; broken says that an action threw or that an assertion    *)
(* failed.                                                                 *)
(***************************************************************************)
Hit(at, stack)        == [hit |-> TRUE, at |-> at, stack |-> stack, broken |-> "no"]
Miss(stack)           == [hit |-> FALSE, at |-> 0, stack |-> stack, broken |-> "no"]
Broken(how, stack)    == [hit |-> FALSE, at |-> 0, stack |-> stack, broken |-> how]
Push(at, stack, node) == Hit(at, Append(stack, node))

Then(r, Rest(_, _)) == IF r.hit THEN Rest(r.at, r.stack) ELSE r
Else(r, Other(_))   == IF r.hit \/ r.broken # "no" THEN r ELSE Other(r.stack)

\* The actions that combine the top of the stack.
make_star(s)     == Append(Front(s), Star(Last(s)))

\* Mutant: the operand is copied, but not taken off the stack.
make_plus_pushed(s) == Append(s, Plus(Last(s)))

make_plus(s)     == Append(Front(s), Plus(Last(s)))
make_optional(s) == Append(Front(s), Optional(Last(s)))
make_or(s)       == Append(Front(Front(s)), Or(Last(Front(s)), Last(s)))
make_concat(s)   == Append(Front(Front(s)), Cat(Last(Front(s)), Last(s)))

RECURSIVE repeat_node(_, _)
repeat_node(n, num) == IF num <= 1 THEN n ELSE Cat(repeat_node(n, num - 1), n)

\* Mutant: as many optional repetitions as the upper bound says.
make_rep3_upper(s, low, high) ==
    Append(Front(s), Cat(repeat_node(Last(s), low), repeat_node(Optional(Last(s)), high)))

make_rep1(s, count) == Append(Front(s), repeat_node(Last(s), count))
make_rep2(s, count) == Append(Front(s), Cat(repeat_node(Last(s), count), Star(Last(s))))
make_rep3(s, low, high) ==
    Append(Front(s), Cat(repeat_node(Last(s), low), repeat_node(Optional(Last(s)), high - low)))

\* uint_p: the end of a number, and its value.
RECURSIVE NumberEnd(_, _), NumberValue(_, _)
NumberEnd(p, i) == IF CharAt(p, i) \in Digits THEN NumberEnd(p, i + 1) ELSE i
NumberValue(p, i) == IF CharAt(p, i - 1) \in Digits
                     THEN NumberValue(p, i - 1) * 10 + DigitValue(p[i - 1]) ELSE 0

\* '{' uint_p '}', '{' uint_p ',' '}' and '{' uint_p ',' uint_p '}'.
Repetition(p, i, s) ==
    LET a == NumberEnd(p, i + 1)
        b == NumberEnd(p, a + 1)
        low == NumberValue(p, a)
        high == NumberValue(p, b)
    IN  CASE CharAt(p, i) # "{" \/ a = i + 1 -> Miss(s)
          [] CharAt(p, a) = "}" ->
               IF low = 0 THEN Broken("thrown", s) ELSE Hit(a + 1, make_rep1(s, low))
          [] CharAt(p, a) = "," /\ CharAt(p, a + 1) = "}" ->
               IF low = 0 THEN Broken("thrown", s) ELSE Hit(a + 2, make_rep2(s, low))
          [] CharAt(p, a) = "," /\ b > a + 1 /\ CharAt(p, b) = "}" ->
               IF low = 0 \/ high <= low THEN Broken("thrown", s)
               ELSE Hit(b + 1, make_rep3(s, low, high))
          [] OTHER -> Miss(s)

-----------------------------------------------------------------------------
\* The end of the character at i, which may be escaped, among all but the excluded
\* ones; i when there is none.
LiteralEnd(p, i, excluded) ==
    IF i > Len(p) THEN i
    ELSE IF p[i] = "\\" THEN (IF i < Len(p) /\ p[i + 1] # NewLine THEN i + 2 ELSE i)
    ELSE IF p[i] \in excluded THEN i ELSE i + 1

RECURSIVE LiteralsEnd(_, _, _)
LiteralsEnd(p, i, excluded) ==
    LET next == LiteralEnd(p, i, excluded)
    IN  IF next = i THEN i ELSE LiteralsEnd(p, next, excluded)

\* escape_char_parser: the character at i, and how long its text is.
LetterEscape(c) == IF c = "n" THEN NewLine ELSE IF c = "t" THEN Tab ELSE c
LiteralAt(p, i) == IF p[i] = "\\" THEN LetterEscape(p[i + 1]) ELSE p[i]
LiteralLength(p, i) == IF p[i] = "\\" THEN 2 ELSE 1

\* make_string: a concatenation of the characters up to the quote.
RECURSIVE StringNode(_, _, _)
StringNode(p, i, node) ==
    IF p[i] = "\"" THEN node
    ELSE StringNode(p, i + LiteralLength(p, i), Cat(node, Ccl({LiteralAt(p, i)})))

string(p, i, s) ==
    LET end == LiteralsEnd(p, i + 1, {"\""})
    IN  IF CharAt(p, i) = "\"" /\ end > i + 1 /\ CharAt(p, end) = "\""
        THEN Push(end + 1, s, StringNode(p, i + 1 + LiteralLength(p, i + 1),
                                         Ccl({LiteralAt(p, i + 1)})))
        ELSE Miss(s)

ClassRange(c1, c2) == { c \in AllChars : Code(c1) <= Code(c) /\ Code(c) <= Code(c2) }

\* make_ccl: the characters of the class whose text is p[i .. last], with the
\* closing bracket at last.  A '[' is taken for the begin of a class expression,
\* and everything up to the next ']' is skipped; a '-' for the sign of a range,
\* whatever comes behind it.
EndsBracket(c) == c \in {"]"} \cup ClassExprs

RECURSIVE ClassChars(_, _, _, _)
ClassChars(p, i, last, chars) ==
    IF i > last \/ p[i] = "]" THEN [broken |-> FALSE, chars |-> chars]
    ELSE IF p[i] = "["
    THEN ClassChars(p, 1 + CHOOSE k \in i .. last :
                            EndsBracket(p[k]) /\ \A l \in i .. k - 1 : ~EndsBracket(p[l]), last, chars)
    ELSE IF p[i] \in ClassExprs THEN ClassChars(p, i + 1, last, chars \cup Members(p[i]))
    ELSE LET c1 == LiteralAt(p, i)
             next == i + LiteralLength(p, i)
         IN  IF p[next] # "-" THEN ClassChars(p, next, last, chars \cup {c1})
             ELSE LET c2 == LiteralAt(p, next + 1)
                  IN  IF Code(c1) >= Code(c2) THEN [broken |-> TRUE, chars |-> chars]
                      ELSE ClassChars(p, next + 1 + LiteralLength(p, next + 1), last,
                                      chars \cup ClassRange(c1, c2))

\* '[' !ch_p('^') ccl ']'
fullccl(p, i, s) ==
    LET negated == CharAt(p, i + 1) = "^"
        begin == IF negated THEN i + 2 ELSE i + 1
        end == LiteralsEnd(p, begin, {NewLine, "]"})
        class == ClassChars(p, begin, end, {})
    IN  IF CharAt(p, i) # "[" \/ CharAt(p, end) # "]" THEN Miss(s)
        ELSE IF class.broken THEN Broken("aborted", s)
        ELSE Push(end + 1, s, Ccl(IF negated THEN AllChars \ class.chars ELSE class.chars))

\* make_any_char
any_char(p, i, s) == IF CharAt(p, i) = "." THEN Push(i + 1, s, Ccl(AllChars \ {NewLine})) ELSE Miss(s)

\* make_char
char(p, i, s) ==
    LET end == LiteralEnd(p, i, {"/", "|", "*", "+", "?", ".", "(", ")", "{", "}"})
    IN  IF end > i THEN Push(end, s, Ccl({LiteralAt(p, i)})) ELSE Miss(s)

-----------------------------------------------------------------------------
RECURSIVE singleton2(_, _, _), singleton(_, _, _), series(_, _, _), re(_, _, _)
RECURSIVE MoreSingletons(_, _, _), MoreSeries(_, _, _)

singleton2(p, i, s) ==
    CASE CharAt(p, i) = "*" -> singleton2(p, i + 1, make_star(s))
      [] CharAt(p, i) = "+" -> singleton2(p, i + 1, make_plus(s))
      [] CharAt(p, i) = "?" -> singleton2(p, i + 1, make_optional(s))
      [] OTHER -> Else(Then(Repetition(p, i, s), LAMBDA at, st : singleton2(p, at, st)),
                       LAMBDA st : Hit(i, st))

group(p, i, s) ==
    IF CharAt(p, i) # "(" THEN Miss(s)
    ELSE Then(re(p, i + 1, s),
              LAMBDA at, st : IF CharAt(p, at) = ")" THEN Hit(at + 1, st) ELSE Miss(st))

singleton(p, i, s) ==
    Then(Else(Else(Else(Else(any_char(p, i, s), LAMBDA st : fullccl(p, i, st)),
                        LAMBDA st : string(p, i, st)),
                   LAMBDA st : group(p, i, st)),
              LAMBDA st : char(p, i, st)),
         LAMBDA at, st : singleton2(p, at, st))

\* *( singleton[make_concat] ): ends in front of what is no singleton.
MoreSingletons(p, i, s) ==
    Else(Then(singleton(p, i, s), LAMBDA at, st : MoreSingletons(p, at, make_concat(st))),
         LAMBDA st : Hit(i, st))

series(p, i, s) == Then(singleton(p, i, s), LAMBDA at, st : MoreSingletons(p, at, st))

\* *( ('|' >> series)[make_or] )
MoreSeries(p, i, s) ==
    Else(IF CharAt(p, i) # "|" THEN Miss(s)
         ELSE Then(series(p, i + 1, s), LAMBDA at, st : MoreSeries(p, at, make_or(st))),
         LAMBDA st : Hit(i, st))

re(p, i, s) == Then(series(p, i, s), LAMBDA at, st : MoreSeries(p, at, st))

\* re >> !('/' >> re) >> !ch_p('$'): nothing combines the two trees of re/re.
Regex(p, s) ==
    Then(Then(re(p, 1, s),
              LAMBDA at, st : IF CharAt(p, at) # "/" THEN Hit(at, st)
                              ELSE Else(re(p, at + 1, st), LAMBDA left : Hit(at, left))),
         LAMBDA at, st : Hit(IF CharAt(p, at) = "$" THEN at + 1 ELSE at, st))

-----------------------------------------------------------------------------
GrammarInit ==
    /\ regex \in Regexes
    /\ outcome = "registered"
    /\ tree = NoTree
    /\ node_stack = <<>>

\* parse: the whole text has to be consumed; then the stack is cleared, or its one
\* element returned (the eof_node is added by parse_regexes in RegexTree).
Parse ==
    /\ outcome = "registered"
    /\ LET r == Regex(regex.text, node_stack)
           complete == r.hit /\ r.at > Len(regex.text)
       IN  /\ outcome' = IF r.broken # "no" THEN r.broken
                         ELSE IF ~complete THEN "rejected"
                         ELSE IF Len(r.stack) # 1 THEN "aborted" ELSE "parsed"
           /\ tree' = IF outcome' = "parsed" THEN r.stack[1] ELSE NoTree
           /\ node_stack' = IF outcome' \in {"parsed", "rejected"} THEN <<>> ELSE r.stack
    /\ UNCHANGED regex

GrammarSpec == GrammarInit /\ [][Parse]_vars

=============================================================================
