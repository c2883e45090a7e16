---------------------------- MODULE TokenStream -----------------------------
(***************************************************************************)
(* The way of a text through slex_functor::get, the iterator over it and   *)
(* the loop of P4_file::compile: tokens with their line numbers, renumbered *)
(* by #line directives, characters that are not valid in a name or a       *)
(* literal, and the two tokens at the end.  boost::wave stands between the *)
(* loop and the iterator.  It takes at least one more token each time the  *)
(* loop asks for one, sets a position at the end of the line of a          *)
(* directive, and its own errors are caught like those of the functor.     *)
(***************************************************************************)
EXTENDS Integers, Sequences, SequencesExt

CONSTANTS
    Pieces,     \* what next_token can find at a place of a text
    MaxPieces,  \* bound on the pieces of a text
    Directed    \* the line numbers that #line directives give

(***************************************************************************)
(* A piece: the token it is, how many ends of lines it holds, whether one  *)
(* of them is a '\n', whether it ends its line, and whether the characters *)
(* that were read for it are valid.                                        *)
(***************************************************************************)
Piece == [id : {"name", "comment", "newline", "contline", "other"},
          lines : Nat, lf : BOOLEAN, ends : BOOLEAN, valid : BOOLEAN]

\* NEWLINEDEF is one end of a line, and nothing else is at the end of its line.
ASSUME PiecesAssumption ==
    Pieces \subseteq Piece /\ \A piece \in Pieces : piece.ends => piece.lines = 1
ASSUME TokenBoundsAssumption == MaxPieces \in Nat /\ Directed \subseteq Nat \ {0}

VARIABLES
    pieces,     \* the text
    next,       \* the place of first in it
    line,       \* first.get_position().get_line()
    at_eof,     \* the member of the functor
    token,      \* the token that the iterator stands on
    looping,    \* compile() has not left its loop
    returned,   \* history: the ids of the tokens returned, in order
    directives  \* history: the directives so far, each the place of the piece
                \* that ends it and the line number given

vars == <<pieces, next, line, at_eof, token, looping, returned, directives>>

\* p4lex_token(id, value, position), where of the value only its '\n' matters.
\* The token has no place in the code: it is there for the properties.
TokenAt(place) ==
    [ id    |-> pieces[place].id, line  |-> line, lf |-> pieces[place].lf,
      ends  |-> pieces[place].ends, place |-> place ]
EndToken(id) == [id |-> id, line |-> line, lf |-> FALSE, ends |-> FALSE, place |-> next]

StreamInit ==
    /\ pieces \in UNION { [1 .. n -> Pieces] : n \in 0 .. MaxPieces }
    /\ next = 1 /\ line = 1 /\ at_eof = FALSE
    /\ token = [id |-> "none", line |-> 1, lf |-> FALSE, ends |-> FALSE, place |-> 1]
    /\ looping = TRUE
    /\ returned = <<>> /\ directives = <<>>

Return(t) == token' = t /\ returned' = Append(returned, t.id)

-----------------------------------------------------------------------------
(***************************************************************************)
(* slex_functor::get: the position is that before the token, next_token    *)
(* moves first behind it.                                                  *)
(***************************************************************************)
Found == looping /\ ~at_eof /\ next <= Len(pieces)

Advance == next' = next + 1 /\ line' = line + pieces[next].lines

GetToken ==
    /\ Found /\ pieces[next].valid
    /\ Return(TokenAt(next))
    /\ Advance
    /\ UNCHANGED <<pieces, at_eof, looping, directives>>

\* Mutant: the characters are validated before first moves on.
GetInvalidInPlace ==
    /\ Found /\ ~pieces[next].valid
    /\ UNCHANGED vars

\* validate_identifier_name or validate_literal throws, compile() catches: the
\* iterator keeps its token, and first is behind the one that is not valid.
GetInvalid ==
    /\ Found /\ ~pieces[next].valid
    /\ Advance
    /\ UNCHANGED <<pieces, at_eof, token, looping, returned, directives>>

\* Mutant: T_EOF is returned, but at_eof is not set.
GetEofAgain ==
    /\ looping /\ ~at_eof /\ next > Len(pieces)
    /\ Return(EndToken("T_EOF"))
    /\ UNCHANGED <<pieces, next, line, at_eof, looping, directives>>

\* next_token finds nothing: "T_EOF is returned as a valid token".
GetEof ==
    /\ looping /\ ~at_eof /\ next > Len(pieces)
    /\ Return(EndToken("T_EOF"))
    /\ at_eof' = TRUE
    /\ UNCHANGED <<pieces, next, line, looping, directives>>

\* "the next call will return T_EOI, i.e. the actual end of input".
GetEoi ==
    /\ looping /\ at_eof /\ token.id # "T_EOI"
    /\ Return(EndToken("T_EOI"))
    /\ UNCHANGED <<pieces, next, line, at_eof, looping, directives>>

Get == GetToken \/ GetInvalid \/ GetEof \/ GetEoi

\* The iterator is equal to the one at the end: compile() leaves its loop.
LeaveLoop ==
    /\ looping /\ token.id = "T_EOI"
    /\ looping' = FALSE
    /\ UNCHANGED <<pieces, next, line, at_eof, token, returned, directives>>

-----------------------------------------------------------------------------
\* Mutant: the line number is that of the directive for what follows, too.
FutureLineSame(number) == number

\* "set the new position for future tokens as well": the value of the current
\* token has a new line in it or not.
FutureLine(number) == IF token.lf THEN number + 1 ELSE number

(***************************************************************************)
(* p4lex_iterator::set_position, which changes the token it stands on and  *)
(* then the functor.  wave calls it once, on the token that ends the line  *)
(* of a #line directive, before it takes another.                          *)
(***************************************************************************)
DirectiveDone == directives # <<>> /\ Last(directives).place = token.place

SetPosition(number) ==
    /\ looping /\ token.ends /\ next = token.place + 1 /\ ~DirectiveDone
    /\ token' = [token EXCEPT !.line = number]
    /\ line' = FutureLine(number)
    /\ directives' = Append(directives, [place |-> token.place, number |-> number])
    /\ UNCHANGED <<pieces, next, at_eof, looping, returned>>

StreamNext ==
    \/ Get \/ LeaveLoop
    \/ \E number \in Directed : SetPosition(number)

StreamSpec == StreamInit /\ [][StreamNext]_vars /\ WF_vars(Get \/ LeaveLoop)

-----------------------------------------------------------------------------
\* The tokens of the first n pieces of a text.
TokensOf(text) ==
    LET ids[n \in 0 .. Len(text)] ==
          IF n = 0 THEN <<>>
          ELSE IF text[n].valid THEN Append(ids[n - 1], text[n].id) ELSE ids[n - 1]
    IN  ids

(***************************************************************************)
(* Every piece that is valid is returned once and in order, then T_EOF     *)
(* once, then T_EOI: an exception neither repeats nor skips anything else. *)
(***************************************************************************)
TokensInOrder ==
    returned = TokensOf(pieces)[next - 1]
               \o (IF at_eof THEN <<"T_EOF">> ELSE <<>>)
               \o (IF token.id = "T_EOI" THEN <<"T_EOI">> ELSE <<>>)

\* The ends of lines in the first n pieces of a text.
LineEndsOf(text) ==
    LET count[n \in 0 .. Len(text)] == IF n = 0 THEN 0 ELSE count[n - 1] + text[n].lines
    IN  count

LinesBetween(from, to) == LineEndsOf(pieces)[to - 1] - LineEndsOf(pieces)[from - 1]

(***************************************************************************)
(* What a line is called: a #line directive names the line that its own    *)
(* end of line is on, and those that follow are counted from there.        *)
(***************************************************************************)
NumberAt(place) ==
    LET before == { n \in DOMAIN directives : directives[n].place <= place }
        last   == directives[Max(before)]
    IN  IF before = {} THEN 1 + LinesBetween(1, place)
        ELSE last.number + LinesBetween(last.place, place)

(***************************************************************************)
(* Tokens have the numbers of their lines, whatever the directives, the    *)
(* comments and continued lines, and the exceptions between them.  After a *)
(* directive whose line ends in a carriage return alone they do not: the   *)
(* iterator only looks for a new line.                                     *)
(***************************************************************************)
LinesAsDirected ==
    (\A n \in DOMAIN directives : pieces[directives[n].place].lf) =>
        /\ line = NumberAt(next)
        /\ token.id # "none" => token.line = NumberAt(token.place)

(***************************************************************************)
(* compile() returns, however many exceptions it catches: each of them     *)
(* leaves the functor behind the piece that caused it.                     *)
(***************************************************************************)
CompileReturns == <>~looping

=============================================================================
