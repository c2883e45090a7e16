--------------------------- MODULE MCRegexGrammar ---------------------------
(***************************************************************************)
(* Terms of two operators over a few atoms, and every text of up to four   *)
(* of the characters that mean something to the grammar, but for escapes   *)
(* by number.                                                              *)
(***************************************************************************)
EXTENDS RegexLanguage

MCCharSet == << "\t", "\n", "\"", "$", "(", ")", "*", "+", ",", "-", ".", "/", "1", "2", "?",
                "[", "\\", "]", "^", "a", "d", "n", "t", "{", "|", "}" >>

MCWordChars == {"a", "d", "*", "1", "\n", "\t"}

MCClassExprs == {"[:digit:]", "[:space:]"}

MCMembers(name) == IF name = "[:digit:]" THEN Digits \cap AllChars ELSE {NewLine, Tab}

Atoms == { Lit("a"), Lit("*"), AnyChar, Class(TRUE, << <<"a", "d">> >>),
           Class(FALSE, << <<"*", "*">>, <<"d", "d">> >>), Quoted(<<"a", "*">>),
           Lit(NewLine), Class(TRUE, << Expr("[:space:]"), <<"*", "*">> >>) }

OnePostfix(e) == { Postfix("star", e), Postfix("plus", e), Postfix("optional", e),
                   Repeat(e, 2, 2), Repeat(e, 1, Unbounded), Repeat(e, 1, 2) }

Combined(E, F) == { Alt(e, f) : e \in E, f \in F } \cup { Seq2(e, f) : e \in E, f \in F }

Terms1 == UNION { OnePostfix(e) : e \in Atoms } \cup Combined(Atoms, Atoms)

\* What the classes of the server's tokens look like.
Classes == { Class(neg, parts) : neg \in BOOLEAN,
               parts \in { << <<NewLine, NewLine>>, <<"\"", "\"">>, <<"\\", "\\">> >>,
                          << <<Tab, NewLine>>, Expr("[:digit:]") >>,
                          << Expr("[:space:]"), <<"a", "d">>, Expr("[:digit:]") >> } }

Terms2 == UNION { OnePostfix(e) : e \in Terms1 }
          \cup Combined(Terms1, {Lit("a"), AnyChar}) \cup Combined({Lit("a"), AnyChar}, Terms1)

AllTexts ==
    UNION { [1 .. n -> {"a", "\\", "[", "]", "\"", "(", ")", "|", "*", "-", "/", "{", "1", "}"}]
            : n \in 1 .. 3 }
    \cup [1 .. 4 -> {"a", "[", "]", "(", ")", "|", "-", "/", "{", "1", "}"}]

Texts == { text \in AllTexts : \A n \in 1 .. Len(text) - 1 :
                                  text[n] = "\\" => text[n + 1] # "1" }

MCRegexes == { Registered(e, TextOf(e)) : e \in Atoms \cup Classes \cup Terms1 \cup Terms2 }
             \cup { Registered(NoTerm, text) : text \in Texts }
=============================================================================
