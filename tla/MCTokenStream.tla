--------------------------- MODULE MCTokenStream ----------------------------
(***************************************************************************)
(* Names that are valid or not, comments over two line ends, continued     *)
(* lines, and what ends the line of a directive: "\n", a carriage return,  *)
(* or a comment that takes the end of the line with it.                    *)
(***************************************************************************)
EXTENDS TokenStream

PieceOf(id, lines, lf, ends, valid) ==
    [id |-> id, lines |-> lines, lf |-> lf, ends |-> ends, valid |-> valid]

MCPieces ==
    { PieceOf("name", 0, FALSE, FALSE, valid) : valid \in BOOLEAN }
    \cup { PieceOf("comment", 2, TRUE, FALSE, TRUE), PieceOf("comment", 1, TRUE, TRUE, TRUE),
           PieceOf("contline", 1, TRUE, FALSE, TRUE) }
    \cup { PieceOf("newline", 1, lf, TRUE, TRUE) : lf \in BOOLEAN }
=============================================================================
