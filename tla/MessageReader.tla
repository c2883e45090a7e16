--------------------------- MODULE MessageReader ----------------------------
(***************************************************************************)
(* LSP_server::read_message and the loop that calls it: header lines up to *)
(* an empty one, then as many bytes as the last Content-Length said.  The  *)
(* input is all that the client writes before it closes, whole frames or   *)
(* cut off anywhere; a signal may interrupt a read.                        *)
(***************************************************************************)
EXTENDS Integers, Sequences, SequencesExt

CONSTANTS
    Frames,        \* what a client may write: header, end of line, body
    MaxFrames,     \* bound on the frames of an input
    Limit,         \* the largest content that is read: 1 << 30
    SignedMax,     \* the largest std::streamsize
    UnsignedMax,   \* the largest unsigned long long
    MaxInterrupts  \* bound on the reads that are interrupted

ASSUME LimitsAssumption ==
    /\ Limit \in Nat /\ SignedMax \in Nat /\ UnsignedMax \in Nat
    /\ 0 < Limit /\ Limit < SignedMax /\ SignedMax < UnsignedMax
ASSUME BoundsAssumption == MaxFrames \in Nat /\ MaxInterrupts \in Nat

(***************************************************************************)
(* The symbols of an input: the text of a header "Content-Length: n", any  *)
(* other text, a carriage return, a new line, a byte of a content.         *)
(***************************************************************************)
Symbol == { s \in [kind : {"length", "text", "cr", "nl", "byte"}, value : Nat] :
              s.kind # "length" => s.value = 0 }

HeaderSymbol == { s \in Symbol : s.kind \in {"length", "text"} }

ContentLength(n) == [kind |-> "length", value |-> n]
OtherText == [kind |-> "text", value |-> 0]
CR == [kind |-> "cr", value |-> 0]
NL == [kind |-> "nl", value |-> 0]
Byte == [kind |-> "byte", value |-> 0]

Frame == [header : Seq(HeaderSymbol), eol : {<<NL>>, <<CR, NL>>}, body : Seq(Symbol)]

ASSUME FramesAssumption == Frames \subseteq Frame

\* A frame as the client writes it.
FrameText(f) == FlattenSeq([ n \in DOMAIN f.header |-> <<f.header[n]>> \o f.eol ] \o <<f.eol, f.body>>)

Text(fs) == FlattenSeq([ n \in DOMAIN fs |-> FrameText(fs[n]) ])

VARIABLES
    frames,          \* the frames that the client writes
    ends,            \* where in their text each of them ends
    input,           \* their text, or a first part of it
    checked,         \* the library checks that back() is not called on an empty string
    rest,            \* what is still in the stream
    good,            \* _input_stream.good()
    errno,           \* "EINTR" from the first interrupted read on
    pc,              \* where the reader is
    content_length,  \* the local variable of read_message
    delivered,       \* the contents that were returned, and posted by run
    interrupts,      \* how many reads were interrupted
    disturbed        \* history: something was lost to an interruption

clientVars == <<frames, ends, input, checked>>
faultVars  == <<errno, interrupts, disturbed>>
vars       == <<clientVars, faultVars, rest, good, pc, content_length, delivered>>

\* A server that stops at the end of an input has read all of it.
ReaderInit ==
    /\ frames \in UNION { [1 .. n -> Frames] : n \in 0 .. MaxFrames }
    /\ ends = [ n \in DOMAIN frames |-> Len(Text(SubSeq(frames, 1, n))) ]
    /\ \E cut \in 0 .. Len(Text(frames)) : input = SubSeq(Text(frames), 1, cut)
    /\ checked \in BOOLEAN
    /\ rest = input /\ good = TRUE
    /\ errno = "none" /\ interrupts = 0 /\ disturbed = FALSE
    /\ pc = "call" /\ content_length = 0
    /\ delivered = <<>>

Drop(text, n) == SubSeq(text, n + 1, Len(text))

-----------------------------------------------------------------------------
\* Mutant: content_length is a member that keeps its value from call to call.
CallKeepsLength ==
    /\ pc = "call" /\ good
    /\ pc' = "header"
    /\ UNCHANGED <<clientVars, faultVars, rest, good, content_length, delivered>>

\* The loop of run().
Call ==
    /\ pc = "call" /\ good
    /\ pc' = "header" /\ content_length' = 0
    /\ UNCHANGED <<clientVars, faultVars, rest, good, delivered>>

LoopEnds ==
    /\ pc = "call" /\ ~good
    /\ pc' = "ended"
    /\ UNCHANGED <<clientVars, faultVars, rest, good, content_length, delivered>>

-----------------------------------------------------------------------------
\* What getline takes: the line, without its new line.
NewLines(text) == { n \in DOMAIN text : text[n] = NL }

Terminated == NewLines(rest) # {}

Line(text) ==
    IF NewLines(text) = {} THEN text
    ELSE SubSeq(text, 1, (CHOOSE n \in NewLines(text) : \A m \in NewLines(text) : n <= m) - 1)

\* line.pop_back() of a carriage return.
Trim(line) == IF line # <<>> /\ Last(line) = CR THEN Front(line) ELSE line

\* Mutant: every '\r' at the end is taken away, so that back() sees the empty rest.
BackAbortsInLoop(line) == checked /\ Trim(line) = <<>>

\* back() of an empty line is undefined: the library aborts, or finds no '\r'.
BackAborts(line) == checked /\ line = <<>>

IsLength(line) == Len(line) = 1 /\ line[1].kind = "length"

(***************************************************************************)
(* The tests of a line: a length, which std::stoull may find too large for *)
(* it and throw out of run(); another header; or the end of the header.    *)
(***************************************************************************)
TestLine(line) ==
    /\ pc' = IF line = <<>> THEN "size"
             ELSE IF IsLength(line) /\ line[1].value > UnsignedMax THEN "aborted"
             ELSE "header"
    /\ content_length' = IF IsLength(line) /\ line[1].value <= UnsignedMax
                         THEN line[1].value ELSE content_length

ReadLine ==
    /\ pc = "header" /\ good /\ Terminated
    /\ ~BackAborts(Line(rest))
    /\ TestLine(Trim(Line(rest)))
    /\ rest' = Drop(rest, Len(Line(rest)) + 1)
    /\ UNCHANGED <<clientVars, faultVars, good, delivered>>

\* Mutant: the stream is cleared whatever made the read fail.
ReadLastLineCleared ==
    /\ pc = "header" /\ good /\ ~Terminated
    /\ ~BackAborts(rest)
    /\ rest' = <<>>
    /\ UNCHANGED <<clientVars, faultVars, good, pc, content_length, delivered>>

\* The last line of the input ends without a new line, or is empty.
ReadLastLine ==
    /\ pc = "header" /\ good /\ ~Terminated
    /\ ~BackAborts(rest)
    /\ errno # "EINTR"
    /\ TestLine(Trim(rest))
    /\ rest' = <<>> /\ good' = FALSE
    /\ UNCHANGED <<clientVars, faultVars, delivered>>

\* errno still says EINTR at the end of the input: clear() and once more.
ReadLastLineAgain ==
    /\ pc = "header" /\ good /\ ~Terminated
    /\ ~BackAborts(rest)
    /\ errno = "EINTR"
    /\ rest' = <<>>
    /\ UNCHANGED <<clientVars, faultVars, good, pc, content_length, delivered>>

BackOfEmptyLine ==
    /\ pc = "header" /\ good
    /\ BackAborts(Line(rest))
    /\ pc' = "aborted"
    /\ UNCHANGED <<clientVars, faultVars, rest, good, content_length, delivered>>

HeaderEnds ==
    /\ pc = "header" /\ ~good
    /\ pc' = "size"
    /\ UNCHANGED <<clientVars, faultVars, rest, good, content_length, delivered>>

-----------------------------------------------------------------------------
\* Mutant: the stream is given up after a content that is too big.
TooBigFails ==
    /\ pc = "size" /\ content_length > Limit
    /\ good' = FALSE
    /\ pc' = "call"
    /\ UNCHANGED <<clientVars, faultVars, rest, content_length, delivered>>

(***************************************************************************)
(* _input_stream.ignore(content_length): the length becomes a streamsize,  *)
(* and ignoring a negative number of bytes does nothing.  Whether the end  *)
(* of the input is noticed when it is directly behind is up to the library. *)
(***************************************************************************)
TooBig ==
    /\ pc = "size" /\ content_length > Limit
    /\ IF ~good \/ content_length > SignedMax
       THEN UNCHANGED <<rest, good>>
       ELSE /\ rest' = Drop(rest, content_length)
            /\ good' \in { g \in BOOLEAN : /\ Len(rest) < content_length => ~g
                                           /\ Len(rest) > content_length => g }
    /\ pc' = "call"
    /\ UNCHANGED <<clientVars, faultVars, content_length, delivered>>

NoContent ==
    /\ pc = "size" /\ content_length = 0
    /\ pc' = "call"
    /\ UNCHANGED <<clientVars, faultVars, rest, good, content_length, delivered>>

ReadContent ==
    /\ pc = "size" /\ content_length \in 1 .. Limit
    /\ IF good /\ content_length <= Len(rest)
       THEN /\ delivered' = Append(delivered, SubSeq(rest, 1, content_length))
            /\ rest' = Drop(rest, content_length)
            /\ UNCHANGED good
       ELSE /\ rest' = <<>> /\ good' = FALSE
            /\ UNCHANGED delivered
    /\ pc' = "call"
    /\ UNCHANGED <<clientVars, faultVars, content_length>>

-----------------------------------------------------------------------------
\* What the tests make of a line.
Meaning(line) ==
    IF Trim(line) = <<>> THEN NL ELSE IF IsLength(Trim(line)) THEN Trim(line)[1] ELSE OtherText

(***************************************************************************)
(* A signal interrupts getline, behind n symbols of the line or within the *)
(* text that comes next: what it had is dropped, the stream is cleared,    *)
(* and the rest of the line is taken for a line.                           *)
(***************************************************************************)
InterruptLine ==
    /\ pc = "header" /\ good /\ interrupts < MaxInterrupts
    /\ \E n \in 0 .. Len(Line(rest)), torn \in BOOLEAN :
         LET remainder == IF torn THEN <<OtherText>> \o Drop(rest, n + 1) ELSE Drop(rest, n)
         IN  /\ torn => n < Len(Line(rest)) /\ rest[n + 1].kind \in {"length", "text"}
             /\ pc' = IF n = 0 /\ ~torn /\ checked THEN "aborted" ELSE "header"
             /\ rest' = remainder
             /\ disturbed' = (disturbed \/ Meaning(Line(remainder)) # Meaning(Line(rest)))
    /\ errno' = "EINTR" /\ interrupts' = interrupts + 1
    /\ UNCHANGED <<clientVars, good, content_length, delivered>>

\* A signal interrupts read or ignore: nullopt, and nobody clears the stream.
InterruptContent ==
    /\ pc = "size" /\ good /\ interrupts < MaxInterrupts
    /\ content_length \in 1 .. SignedMax
    /\ \E n \in 0 .. Len(rest) : n < content_length /\ rest' = Drop(rest, n)
    /\ good' = FALSE
    /\ pc' = "call"
    /\ errno' = "EINTR" /\ interrupts' = interrupts + 1 /\ disturbed' = TRUE
    /\ UNCHANGED <<clientVars, content_length, delivered>>

ReaderStep ==
    \/ Call \/ LoopEnds
    \/ ReadLine \/ ReadLastLine \/ ReadLastLineAgain \/ BackOfEmptyLine \/ HeaderEnds
    \/ TooBig \/ NoContent \/ ReadContent

ReaderNext == ReaderStep \/ InterruptLine \/ InterruptContent

ReaderSpec == ReaderInit /\ [][ReaderNext]_vars /\ WF_vars(ReaderStep)

-----------------------------------------------------------------------------
(***************************************************************************)
(* What a frame is worth, by what the client wrote and not by how it is    *)
(* read: its length is that of its last Content-Length header, or 0.       *)
(***************************************************************************)
Lengths(f) == { n \in DOMAIN f.header : f.header[n].kind = "length" }

LengthOf(f) ==
    IF Lengths(f) = {} THEN 0
    ELSE f.header[CHOOSE n \in Lengths(f) : \A m \in Lengths(f) : m <= n].value

Overflows(text) == \E n \in DOMAIN text : text[n].kind = "length" /\ text[n].value > UnsignedMax

\* A content that is read as header lines, which change nothing.
OwnLines(body) ==
    /\ body # <<>> => Last(body) = NL
    /\ \A n \in DOMAIN body : body[n].kind # "length"

KindOf(f) ==
    IF Overflows(f.header) THEN "misframed"
    ELSE CASE LengthOf(f) \in 1 .. Limit ->
                IF Len(f.body) = LengthOf(f) THEN "content" ELSE "misframed"
           [] LengthOf(f) \in Limit + 1 .. SignedMax ->
                IF Len(f.body) = LengthOf(f) THEN "skipped" ELSE "misframed"
           [] OTHER -> IF OwnLines(f.body) THEN "skipped" ELSE "misframed"

BeginOf(n) == IF n = 1 THEN 0 ELSE ends[n - 1]

Taken == Len(input) - Len(rest)

Written == { n \in DOMAIN frames : BeginOf(n) < Len(input) }

\* Frames that are behind the reader, the last one even if it was cut off.
Passed == { n \in Written : ends[n] <= Taken \/ rest = <<>> }

Framed ==
    /\ ~disturbed
    /\ \A n \in Written : KindOf(frames[n]) = "misframed" => Taken <= BeginOf(n)

\* A frame that was cut off has no content.
AbstractFrame(n) ==
    LET f == frames[n]
        kind == IF KindOf(f) = "content" /\ ends[n] > Len(input) THEN "skipped" ELSE KindOf(f)
    IN  [kind |-> kind, content |-> IF kind = "content" THEN <<f.body>> ELSE <<>>]

FramesLeft ==
    IF Framed
    THEN [ k \in 1 .. Cardinality(Written) - Cardinality(Passed) |->
             AbstractFrame(Cardinality(Passed) + k) ]
    ELSE <<>>

Promise == INSTANCE FrameReader WITH
    Contents    <- Seq(Symbol),
    left        <- FramesLeft,
    framed      <- Framed,
    interrupted <- disturbed,
    ended       <- pc = "ended"

(***************************************************************************)
(* Whatever the headers, the ends of lines, the contents and the place     *)
(* where the input is cut: read_message returns the contents of the frames *)
(* in order, each exactly once, passes over those that are too big or have *)
(* none, and run gives up only behind the last one.  Interruptions that    *)
(* lose nothing of a line change nothing.                                  *)
(***************************************************************************)
ReadsFrames == Promise!FrameSpec

(***************************************************************************)
(* The process dies in the reader only of a length beyond unsigned long    *)
(* long or, with a library that checks, of back() on an empty string: of   *)
(* an interruption, of a line that ends in a bare new line, and else not   *)
(* before the end of the input, which every client gets to.                *)
(***************************************************************************)
AbortsExplained ==
    pc = "aborted" =>
        \/ Overflows(input)
        \/ checked /\ (interrupts > 0 \/ rest = <<>> \/ ~Framed
                       \/ \E n \in DOMAIN frames : frames[n].eol = <<NL>> \/ NL \in Range(frames[n].body))

(***************************************************************************)
(* Frames in order or not, the reader stays until the input is at its end, *)
(* unless a signal interrupts it in a content.                             *)
(***************************************************************************)
StaysToTheEnd == pc = "ended" => rest = <<>> \/ disturbed

(***************************************************************************)
(* The reader notices the end of the input.  (After an interruption it     *)
(* does not: errno is never cleared, and the loop clears the stream again  *)
(* and again.)                                                             *)
(***************************************************************************)
ReaderStops == <>(pc \in {"ended", "aborted"} \/ errno = "EINTR")

=============================================================================
