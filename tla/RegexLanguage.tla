---------------------------- MODULE RegexLanguage ---------------------------
(***************************************************************************)
(* What regular expressions mean, without a parser: expressions as terms,  *)
(* the words they stand for, and the text that a person writes for them,   *)
(* with parentheses only where the precedence of the operators asks for    *)
(* them.  The grammar has to read the same expression out of the text.     *)
(***************************************************************************)
EXTENDS RegexGrammar

CONSTANTS
    WordChars,  \* the characters of the words that are looked at
    MaxWord     \* bound on the length of these words

\* The terms.
Lit(c)              == [op |-> "lit", char |-> c]
AnyChar                == [op |-> "any"]
Class(neg, ranges)  == [op |-> "class", negated |-> neg, ranges |-> ranges]
Quoted(text)        == [op |-> "quoted", text |-> text]
Alt(l, r)           == [op |-> "alt", left |-> l, right |-> r]
Seq2(l, r)          == [op |-> "seq", left |-> l, right |-> r]
Postfix(op, e)      == [op |-> op, of |-> e]
Repeat(e, low, high) == [op |-> "repeat", of |-> e, low |-> low, high |-> high]
NoTerm              == [op |-> "none"]

Unbounded == 0

Registered(term, text) == [text |-> text, means |-> term]

-----------------------------------------------------------------------------
Words == UNION { [1 .. n -> WordChars] : n \in 0 .. MaxWord }

Joined(A, B) == { w \in { a \o b : a \in A, b \in B } : Len(w) <= MaxWord }

\* At least low and at most high words of A in a row.
RECURSIVE Power(_, _, _)
Power(A, low, high) ==
    IF high = 0 THEN {<<>>}
    ELSE (IF low = 0 THEN {<<>>} ELSE {})
         \cup Joined(A, Power(A, IF low = 0 THEN 0 ELSE low - 1, high - 1))

\* The parts of a class: a range of characters, or a class expression.
Expr(name) == <<name>>

InPart(c, part) ==
    IF Len(part) = 1 THEN c \in Members(part[1])
    ELSE Code(part[1]) <= Code(c) /\ Code(c) <= Code(part[2])

RECURSIVE Meaning(_)
Meaning(e) ==
    CASE e.op = "lit"    -> { <<e.char>> } \cap Words
      [] e.op = "any"    -> { <<c>> : c \in WordChars \ {NewLine} }
      [] e.op = "class"  -> { <<c>> : c \in { d \in WordChars :
                                (\E r \in Range(e.ranges) : InPart(d, r)) # e.negated } }
      [] e.op = "quoted" -> { e.text } \cap Words
      [] e.op = "alt"    -> Meaning(e.left) \cup Meaning(e.right)
      [] e.op = "seq"    -> Joined(Meaning(e.left), Meaning(e.right))
      [] e.op = "star"   -> Power(Meaning(e.of), 0, MaxWord)
      [] e.op = "plus"   -> Joined(Meaning(e.of), Power(Meaning(e.of), 0, MaxWord))
      [] e.op = "optional" -> Power(Meaning(e.of), 0, 1)
      [] e.op = "repeat" -> Power(Meaning(e.of), e.low,
                                  IF e.high = Unbounded THEN e.low + MaxWord ELSE e.high)

-----------------------------------------------------------------------------
Escaped(c, special) ==
    CASE c = NewLine    -> <<"\\", "n">>
      [] c = Tab        -> <<"\\", "t">>
      [] c \in special  -> <<"\\", c>>
      [] OTHER          -> <<c>>

EscapedText(text, special) == FlattenSeq([n \in DOMAIN text |-> Escaped(text[n], special)])

ClassText(part) ==
    LET special == {"\\", "]", "[", "-", "^"}
    IN  IF Len(part) = 1 THEN part
        ELSE IF part[1] = part[2] THEN Escaped(part[1], special)
        ELSE Escaped(part[1], special) \o <<"-">> \o Escaped(part[2], special)

Precedence(e) ==
    CASE e.op = "alt" -> 0
      [] e.op = "seq" -> 1
      [] OTHER -> 2

Counts(low, high) ==
    LET digit == <<"1", "2">>
    IN  CASE high = low -> <<"{", digit[low], "}">>
          [] high = Unbounded -> <<"{", digit[low], ",", "}">>
          [] OTHER -> <<"{", digit[low], ",", digit[high], "}">>

RECURSIVE TextOf(_)
TextOf(e) ==
    LET Within(sub, least) == IF Precedence(sub) >= least THEN TextOf(sub)
                              ELSE <<"(">> \o TextOf(sub) \o <<")">>
    IN  CASE e.op = "lit"    -> Escaped(e.char, {"/", "|", "*", "+", "?", ".", "(", ")", "{",
                                                 "}", "[", "\"", "\\"})
          [] e.op = "any"    -> <<".">>
          [] e.op = "class"  -> (IF e.negated THEN <<"[", "^">> ELSE <<"[">>)
                                \o FlattenSeq([n \in DOMAIN e.ranges |-> ClassText(e.ranges[n])])
                                \o <<"]">>
          [] e.op = "quoted" -> <<"\"">> \o EscapedText(e.text, {"\"", "\\"}) \o <<"\"">>
          [] e.op = "alt"    -> TextOf(e.left) \o <<"|">> \o Within(e.right, 1)
          [] e.op = "seq"    -> Within(e.left, 1) \o Within(e.right, 2)
          [] e.op = "star"   -> Within(e.of, 2) \o <<"*">>
          [] e.op = "plus"   -> Within(e.of, 2) \o <<"+">>
          [] e.op = "optional" -> Within(e.of, 2) \o <<"?">>
          [] e.op = "repeat" -> Within(e.of, 2) \o Counts(e.low, e.high)

-----------------------------------------------------------------------------
Accepted == { w \in Words : Describes(tree, w) }

\* A '-' between two characters, the first of which may be escaped.
NotAscending(text, n) ==
    /\ 1 < n /\ n < Len(text) /\ text[n] = "-"
    /\ \E c \in {text[n - 1], LetterEscape(text[n - 1])} : Code(c) >= Code(LiteralAt(text, n + 1))

(***************************************************************************)
(* The text of an expression is parsed, and the tree stands for the words  *)
(* that are meant by it.                                                   *)
(***************************************************************************)
ParsedAsMeant ==
    regex.means # NoTerm =>
        /\ outcome \in {"registered", "parsed"}
        /\ outcome = "parsed" => Accepted = Meaning(regex.means)

(***************************************************************************)
(* The actions keep the stack balanced with the rules that call them, also *)
(* where a rule is given up half way: what is consumed to its end leaves   *)
(* one tree.  The assertion of parse can only fail where the text has a    *)
(* '/', as trailing context leaves a tree of its own, and that of make_ccl *)
(* where a '-' has no character behind it that is above the one before it, *)
(* as the closing bracket need not be.                                     *)
(***************************************************************************)
Balanced ==
    outcome = "aborted" =>
        "/" \in Range(regex.text) \/ \E n \in DOMAIN regex.text : NotAscending(regex.text, n)

=============================================================================
