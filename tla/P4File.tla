------------------------------- MODULE P4File -------------------------------
(***************************************************************************)
(* The text of a P4_file: how the server turns a position of the protocol  *)
(* into an index of its std::string and applies a content change, next to  *)
(* what the protocol means by a position and a change.  A text is the      *)
(* sequence of its bytes in UTF-8; the indices are those of the code, from *)
(* 0.  The protocol counts the UTF-16 units of a line, the code its bytes. *)
(***************************************************************************)
EXTENDS Integers, Sequences, FiniteSets

CONSTANTS
    Bytes,            \* the bytes of a line
    Newline,          \* the byte '\n'
    ContinuationBytes,\* those that are not the first of a character
    FourByteLeads     \* the first bytes of characters outside the basic plane

ASSUME NewlineAssumption == Newline \notin Bytes
ASSUME EncodingAssumption ==
    /\ ContinuationBytes \subseteq Bytes /\ FourByteLeads \subseteq Bytes
    /\ ContinuationBytes \cap FourByteLeads = {}

Text == Seq(Bytes \cup {Newline})

\* std::string::npos, an index that no string has.
npos == -1

Position == [line : Nat, character : Nat]

\* std::string::substr(from) and substr(0, count).
SubstrFrom(text, from) == SubSeq(text, from + 1, Len(text))
SubstrTo(text, count) == SubSeq(text, 1, count)

-----------------------------------------------------------------------------
(***************************************************************************)
(* get_position_index.                                                     *)
(***************************************************************************)

\* content.find_first_of('\n', index)
FindNewline(text, index) ==
    LET found == { i \in index .. Len(text) - 1 : text[i + 1] = Newline }
    IN  IF found = {} THEN npos ELSE CHOOSE i \in found : \A j \in found : i <= j

\* The loop over the lines before the position's.
LineStart(text, line) ==
    LET start[n \in 0 .. line] ==
          IF n = 0 THEN 0
          ELSE IF start[n - 1] = npos THEN npos
          ELSE LET next == FindNewline(text, start[n - 1])
               IN  IF next = npos THEN npos ELSE next + 1
    IN  start[line]

LineEnd(text, index) ==
    LET next == FindNewline(text, index) IN IF next = npos THEN Len(text) ELSE next

\* Mutant: only the end of the text bounds the character, not that of the line.
get_position_index_in_text(text, position) ==
    LET index == LineStart(text, position.line)
    IN  IF index # npos /\ index + position.character < Len(text)
        THEN index + position.character
        ELSE npos

get_position_index(text, position) ==
    LET index == LineStart(text, position.line)
    IN  IF index # npos /\ index + position.character < LineEnd(text, index)
        THEN index + position.character
        ELSE npos

-----------------------------------------------------------------------------
(***************************************************************************)
(* One Text_document_content_change_event: without a range it replaces the *)
(* text; with one it replaces the part between two indices, or is ignored. *)
(* A change is [range, rangeLength, text], where range is a sequence of no *)
(* or two positions and rangeLength a sequence of no or one number.        *)
(***************************************************************************)
Applicable(source, change) ==
    LET start == get_position_index(source, change.range[1])
        end   == get_position_index(source, change.range[2])
    IN  /\ start # npos /\ end # npos /\ start <= end
        /\ change.rangeLength # <<>> => change.rangeLength[1] = end - start

Splice(source, start, end, text) == SubstrTo(source, start) \o text \o SubstrFrom(source, end)

ApplyChange(source, change) ==
    IF change.range = <<>> THEN change.text
    ELSE IF Applicable(source, change)
         THEN Splice(source, get_position_index(source, change.range[1]),
                             get_position_index(source, change.range[2]), change.text)
         ELSE source

\* Mutant: every change is applied to the text as it was before the batch.
change_source_code_at_once(source, changes) ==
    IF changes = <<>> THEN source ELSE ApplyChange(source, changes[Len(changes)])

\* change_source_code: each change is applied to the result of the one before.
change_source_code(source, changes) ==
    LET after[n \in 0 .. Len(changes)] ==
          IF n = 0 THEN source ELSE ApplyChange(after[n - 1], changes[n])
    IN  after[Len(changes)]

-----------------------------------------------------------------------------
(***************************************************************************)
(* The protocol's meaning of a position, independent of the code: the line *)
(* of an index is the number of newlines before it, its character is the   *)
(* number of UTF-16 units since the last of them, two of them for a        *)
(* character outside the basic plane.                                      *)
(***************************************************************************)
NewlinesBefore(text, index) == { i \in 0 .. index - 1 : text[i + 1] = Newline }

StartOfLine(text, index) ==
    LET newlines == NewlinesBefore(text, index)
    IN  IF newlines = {} THEN 0 ELSE 1 + CHOOSE i \in newlines : \A j \in newlines : j <= i

\* The bytes of a line before an index that are of some set.
OfLineBefore(text, index, S) == { i \in StartOfLine(text, index) .. index - 1 : text[i + 1] \in S }

PositionOf(text, index) ==
    [ line      |-> Cardinality(NewlinesBefore(text, index)),
      character |-> index - StartOfLine(text, index)
                    - Cardinality(OfLineBefore(text, index, ContinuationBytes))
                    + Cardinality(OfLineBefore(text, index, FourByteLeads)) ]

\* The indices at which a client can cut a text: not within a character.
Boundaries(text) ==
    { i \in 0 .. Len(text) : i = Len(text) \/ text[i + 1] \notin ContinuationBytes }

\* At the end of its line, where a '\n' or nothing follows.
AtEndOfLine(text, index) == index = Len(text) \/ text[index + 1] = Newline

\* Bytes and units count the same up to an index of a line, or between two indices.
Wide == ContinuationBytes \cup FourByteLeads
NarrowBefore(text, index) == OfLineBefore(text, index, Wide) = {}
NarrowBetween(text, from, to) == \A i \in from .. to - 1 : text[i + 1] \notin Wide

\* No character outside the basic plane is cut off (the server may cut one).
Uncut(text) ==
    \A i \in DOMAIN text : text[i] \in FourByteLeads =>
        \A k \in 1 .. 3 : i + k <= Len(text) /\ text[i + k] \in ContinuationBytes

(***************************************************************************)
(* The index computed for the position of a character is the index of that *)
(* character, on every line and in every text, as long as the line has     *)
(* only ASCII before it.  Behind another character it is too small, but    *)
(* never on another line.  The end of a line has no index, if its line is  *)
(* ASCII, and no position outside the text has.                            *)
(***************************************************************************)
IndexExact(text) ==
    /\ \A i \in Boundaries(text) :
         LET index == get_position_index(text, PositionOf(text, i))
         IN  IF NarrowBefore(text, i)
             THEN index = IF AtEndOfLine(text, i) THEN npos ELSE i
             ELSE Uncut(text) => index \in StartOfLine(text, i) .. i - 1
    /\ \A line \in 0 .. Len(text) + 1, character \in 0 .. Len(text) + 1 :
         LET index == get_position_index(text, [line |-> line, character |-> character])
         IN  index # npos =>
               /\ index \in 0 .. Len(text) - 1
               /\ Cardinality(NewlinesBefore(text, index)) = line
               /\ index - StartOfLine(text, index) = character

(***************************************************************************)
(* A character beyond the end of a line stands for the end of the line.    *)
(***************************************************************************)
DefaultsToLineEnd(text) ==
    \A i \in Boundaries(text) :
        AtEndOfLine(text, i) =>
            get_position_index(text, [PositionOf(text, i) EXCEPT !.character = @ + 1]) = i

=============================================================================
