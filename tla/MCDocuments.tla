---------------------------- MODULE MCDocuments -----------------------------
(***************************************************************************)
(* One document, and one directory whose database may list it: texts of up *)
(* to MaxLength bytes, with line ends anywhere, and characters of one, of  *)
(* two and of four bytes.                                                  *)
(***************************************************************************)
EXTENDS Documents

MCAncestors == "main.p4" :> <<"root">>

TwoBytes == <<"lead", "next">>
FourBytes == <<"lead4", "next", "next", "next">>

MCTexts == {<<>>, <<"a", Newline, "b">>, TwoBytes \o <<Newline, "b">>, FourBytes \o <<"b">>}

MCInsertions == {<<>>, <<"b">>, <<Newline>>, TwoBytes}
=============================================================================
