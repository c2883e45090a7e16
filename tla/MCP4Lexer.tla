----------------------------- MODULE MCP4Lexer ------------------------------
(***************************************************************************)
(* Every short text over the characters that comments, operators, names    *)
(* and new lines are made of, and the literals of a few widths.            *)
(***************************************************************************)
EXTENDS P4Tokens

MCAlnum == Decimal \cup {"a", "f", "i", "n", "o", "r", "s", "u", "w", "x"}

MCKeywords == { <<"i", "f">>, <<"i", "n">>, <<"o", "u", "t">> }

TextsOver(chars, length) == UNION { [1 .. n -> chars] : n \in 0 .. length }

CommentTexts  == TextsOver({"a", "\n", "/", "*", " ", "#"}, 5)
OperatorTexts == TextsOver({"&", "|", "+", "-", "<", ">", "=", "!", ".", "/"}, 4)
NameTexts     == TextsOver({"i", "f", "_", "0", "x", "\n", "\"", "\\", "@"}, 4)

SpaceTexts    == TextsOver({"\t", "\r", "\n", "i", "1", "/"}, 4)

DigitTexts(chars, length) == TextsOver(chars, length) \ {<<>>}

MCLiterals ==
    { l \in [width : {NoWidth, 1, 2, 3, 8, 12}, signed : BOOLEAN, base : {2},
             digits : DigitTexts({"0", "1"}, 4)]
            \cup [width : {NoWidth, 1, 4, 10}, signed : BOOLEAN, base : {8, 10},
                  digits : DigitTexts({"0", "3", "7"}, 3)]
            \cup [width : {NoWidth, 2, 7, 16}, signed : BOOLEAN, base : {16},
                  digits : DigitTexts({"0", "8", "f"}, 3)]
      : l.signed => l.width # NoWidth }

MCInputs == CommentTexts \cup OperatorTexts \cup NameTexts \cup SpaceTexts \cup LiteralTexts
=============================================================================
