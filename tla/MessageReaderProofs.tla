------------------------ MODULE MessageReaderProofs -------------------------
(***************************************************************************)
(* Proofs about MessageReader, for any frames, lengths and limits, and any *)
(* number of interruptions.                                                *)
(***************************************************************************)
EXTENDS MessageReader, SequenceLemmas

ReaderTypeOK ==
    /\ rest \in Seq(Symbol)
    /\ good \in BOOLEAN /\ checked \in BOOLEAN /\ disturbed \in BOOLEAN
    /\ errno \in {"none", "EINTR"} /\ interrupts \in 0 .. MaxInterrupts
    /\ pc \in {"call", "header", "size", "ended", "aborted"}
    /\ content_length \in 0 .. UnsignedMax
    /\ delivered \in Seq(Seq(Symbol))

(***************************************************************************)
(* Why the reader does not leave early: a read that fails has taken all    *)
(* there was, or a signal stopped it.                                      *)
(***************************************************************************)
FailsAtTheEnd == ~good => rest = <<>> \/ disturbed

ReaderInv ==
    /\ ReaderTypeOK
    /\ FailsAtTheEnd
    /\ pc = "ended" => ~good

-----------------------------------------------------------------------------
(***************************************************************************)
(* Where a reader that nothing has led astray is, in the text of a frame.  *)
(***************************************************************************)
\* Where the lines of a header and the content begin, in a frame and in the text.
Width(f) == 1 + Len(f.eol)

LineBegin(f, j) == j * Width(f)

LineAt(k, j) == BeginOf(k) + LineBegin(frames[k], j)

EmptyLineAt(k) == LineAt(k, Len(frames[k].header))

BodyAt(k) == EmptyLineAt(k) + Len(frames[k].eol)

\* The last length in the first j lines of a header, or none.
LastLength(f, j, length) ==
    \/ length = 0 /\ \A n \in 1 .. j : f.header[n].kind # "length"
    \/ \E n \in 1 .. j :
         /\ f.header[n].kind = "length" /\ f.header[n].value = length
         /\ \A m \in n + 1 .. j : f.header[m].kind # "length"

(***************************************************************************)
(* What the client wrote is where the frames say, as far as it is there.   *)
(***************************************************************************)
Header(k) == frames[k].header

EndOfLine(k) == frames[k].eol

Body(k) == frames[k].body

HasFrameAt(k) ==
    /\ BeginOf(k) \in Nat /\ ends[k] = BodyAt(k) + Len(Body(k))
    /\ \A i \in 0 .. Len(Header(k)) - 1 :
         /\ LineAt(k, i) + 1 <= Len(input) => input[LineAt(k, i) + 1] = Header(k)[i + 1]
         /\ \A x \in 1 .. Len(EndOfLine(k)) :
              LineAt(k, i) + 1 + x <= Len(input) => input[LineAt(k, i) + 1 + x] = EndOfLine(k)[x]
    /\ \A x \in 1 .. Len(EndOfLine(k)) :
         EmptyLineAt(k) + x <= Len(input) => input[EmptyLineAt(k) + x] = EndOfLine(k)[x]
    /\ \A x \in 1 .. Len(Body(k)) :
         BodyAt(k) + x <= Len(input) => input[BodyAt(k) + x] = Body(k)[x]

Layout ==
    /\ Len(frames) \in Nat /\ frames \in [1 .. Len(frames) -> Frame]
    /\ ends \in [1 .. Len(frames) -> Nat] /\ input \in Seq(Symbol)
    /\ Len(input) <= BeginOf(Len(frames) + 1)
    /\ \A k \in 1 .. Len(frames) : HasFrameAt(k)
    /\ \A k, m \in 1 .. Len(frames) : k < m => ends[k] <= BeginOf(m)

\* In front of a frame, of the next line of its header, or of the NL that a
\* signal left of its empty line; behind the header; among lines of its own.
AtFrame(k) == (pc = "call" \/ (pc = "size" /\ content_length = 0)) /\ Taken = BeginOf(k)

AtHeader(k, j) ==
    /\ pc = "header" /\ Taken = LineAt(k, j)
    /\ LastLength(frames[k], j, content_length)

AtNewLine(k) ==
    /\ pc = "header" /\ interrupts > 0 /\ frames[k].eol = <<CR, NL>>
    /\ Taken = EmptyLineAt(k) + 1
    /\ LastLength(frames[k], Len(frames[k].header), content_length)

AtBody(k) ==
    /\ pc = "size" /\ Taken = BodyAt(k)
    /\ LastLength(frames[k], Len(frames[k].header), content_length)

AtOwnLine(k) ==
    /\ pc = "call" \/ content_length = 0
    /\ OwnLines(frames[k].body)
    /\ ~LengthOf(frames[k]) \in 1 .. SignedMax
    /\ BodyAt(k) <= Taken /\ Taken < ends[k]

At(k) ==
    \/ AtFrame(k) \/ AtNewLine(k) \/ AtBody(k) \/ AtOwnLine(k)
    \/ \E j \in 0 .. Len(frames[k].header) : AtHeader(k, j)

Live == pc \in {"call", "header", "size"}

RestIsInput == Len(rest) <= Len(input) /\ \A n \in 1 .. Len(rest) : rest[n] = input[Taken + n]

ReaderPlace == Framed /\ rest # <<>> /\ Live => RestIsInput /\ \E k \in Written : At(k)

\* What the reader can still come across is what the client wrote.
RestWritten == \A n \in DOMAIN rest : rest[n].kind = "length" => rest[n] \in Range(input)

-----------------------------------------------------------------------------
\* The parts of a frame.
LEMMA FrameTyped ==
    ASSUME NEW f \in Frame
    PROVE  /\ f.header \in Seq(Symbol) /\ f.eol \in Seq(Symbol) /\ f.body \in Seq(Symbol)
           /\ DOMAIN f.header = 1 .. Len(f.header) /\ Len(f.header) \in Nat
           /\ Len(f.body) \in Nat
           /\ \/ f.eol = <<NL>> /\ Len(f.eol) = 1
              \/ f.eol = <<CR, NL>> /\ Len(f.eol) = 2
           /\ \A n \in 1 .. Len(f.header) : f.header[n] \in HeaderSymbol
<1>1. f.header \in Seq(HeaderSymbol) /\ f.eol \in {<<NL>>, <<CR, NL>>} /\ f.body \in Seq(Symbol)
  BY DEF Frame
<1>2. HeaderSymbol \subseteq Symbol /\ CR \in Symbol /\ NL \in Symbol
  BY DEF HeaderSymbol, Symbol, CR, NL
<1>3. f.header \in Seq(Symbol)
  BY <1>1, <1>2
<1>4. f.eol \in Seq(Symbol)
  <2>1. <<NL>> \in Seq(Symbol) /\ <<CR, NL>> \in Seq(Symbol)
    BY <1>2
  <2> QED BY <1>1, <2>1
<1>5. \A n \in 1 .. Len(f.header) : f.header[n] \in HeaderSymbol
  BY <1>1, ElementOfSeq
<1> QED BY <1>1, <1>3, <1>4, <1>5

\* The text of frames is a sequence of symbols.
LEMMA FrameTextType ==
    ASSUME NEW f \in Frame
    PROVE  FrameText(f) \in Seq(Symbol)
<1> DEFINE line(n) == <<f.header[n]>> \o f.eol
           k == Len(f.header)
           lines == [ n \in DOMAIN f.header |-> line(n) ]
           T == Seq(Symbol)
<1>1. f.header \in T /\ f.eol \in T /\ f.body \in T /\ DOMAIN f.header = 1 .. k /\ k \in Nat
  BY FrameTyped
<1>2. ASSUME NEW n \in 1 .. k
      PROVE  line(n) \in T
  <2>1. f.header[n] \in Symbol
    BY <1>1, ElementOfSeq
  <2>2. <<f.header[n]>> \in T
    BY <2>1
  <2> QED BY <1>1, <2>2, ConcatProperties
<1>3. lines = [ n \in 1 .. k |-> line(n) ]
  BY <1>1
<1>4. FrameText(f) = FlattenSeq(lines \o <<f.eol, f.body>>)
  BY DEF FrameText
<1> HIDE DEF line, k, T, lines
<1>5. lines \in Seq(T)
  BY <1>1, <1>2, <1>3
<1>6. <<f.eol, f.body>> \in Seq(T)
  BY <1>1
<1>7. lines \o <<f.eol, f.body>> \in Seq(T)
  BY <1>5, <1>6, ConcatProperties
<1> QED BY <1>4, <1>7, FlattenType DEF T

LEMMA TextType ==
    ASSUME NEW k \in Nat, NEW fs \in [1 .. k -> Frames]
    PROVE  Text(fs) \in Seq(Symbol)
<1> DEFINE text(n) == FrameText(fs[n])
           T == Seq(Symbol)
<1>1. \A n \in 1 .. k : text(n) \in T
  BY FramesAssumption, FrameTextType
<1>2. Text(fs) = FlattenSeq([ n \in 1 .. k |-> text(n) ])
  BY DEF Text
<1> HIDE DEF text, T
<1>3. [ n \in 1 .. k |-> text(n) ] \in Seq(T)
  BY <1>1
<1> QED BY <1>2, <1>3, FlattenType DEF T

-----------------------------------------------------------------------------
(***************************************************************************)
(* Where the parts of a frame are in its text.                             *)
(***************************************************************************)
LEMMA LineBegins ==
    ASSUME NEW f \in Frame
    PROVE  /\ LineBegin(f, 0) = 0
           /\ \A i \in Nat : LineBegin(f, i) \in Nat /\ LineBegin(f, i + 1) = LineBegin(f, i) + Width(f)
           /\ \A i, j \in Nat : i < j => LineBegin(f, i) + Width(f) <= LineBegin(f, j)
<1>1. CASE f.eol = <<NL>>
  <2>1. \A i \in Nat : LineBegin(f, i) = i * 2
    BY <1>1 DEF LineBegin, Width
  <2>2. Width(f) = 2
    BY <1>1 DEF Width
  <2> QED BY <2>1, <2>2
<1>2. CASE f.eol = <<CR, NL>>
  <2>1. \A i \in Nat : LineBegin(f, i) = i * 3
    BY <1>2 DEF LineBegin, Width
  <2>2. Width(f) = 3
    BY <1>2 DEF Width
  <2> QED BY <2>1, <2>2
<1> QED BY <1>1, <1>2, FrameTyped

\* The first j lines of a header.
LinesText(f, j) == FlattenSeq([ n \in 1 .. j |-> <<f.header[n]>> \o f.eol ])

LEMMA LinesTextGrows ==
    ASSUME NEW f \in Frame
    PROVE  /\ LinesText(f, 0) = <<>>
           /\ \A j \in 0 .. Len(f.header) : LinesText(f, j) \in Seq(Symbol)
           /\ \A j \in 0 .. Len(f.header) - 1 :
                LinesText(f, j + 1) = LinesText(f, j) \o (<<f.header[j + 1]>> \o f.eol)
<1> DEFINE line(n) == <<f.header[n]>> \o f.eol
           lines(j) == [ n \in 1 .. j |-> line(n) ]
           T == Seq(Symbol)
           h == Len(f.header)
<1>1. h \in Nat /\ \A n \in 1 .. h : line(n) \in T
  <2>1. ASSUME NEW n \in 1 .. h
        PROVE  line(n) \in T
    <3>1. f.header \in T /\ f.eol \in T
      BY FrameTyped
    <3>2. f.header[n] \in Symbol
      BY <3>1, ElementOfSeq
    <3>3. <<f.header[n]>> \in T
      BY <3>2
    <3> QED BY <3>1, <3>3, ConcatProperties
  <2> QED BY <2>1, FrameTyped
<1>2. \A j \in 0 .. h : LinesText(f, j) = FlattenSeq(lines(j))
  BY DEF LinesText
<1>3. lines(0) = <<>>
  OBVIOUS
<1> HIDE DEF T, h, line
<1>4. \A j \in 0 .. h : lines(j) \in Seq(T) /\ Len(lines(j)) = j
  BY <1>1
<1>5. ASSUME NEW j \in 0 .. h - 1
      PROVE  lines(j + 1) = Append(lines(j), line(j + 1))
  BY <1>1, <1>4
<1> HIDE DEF lines
<1>6. ASSUME NEW j \in 0 .. h - 1
      PROVE  LinesText(f, j + 1) = LinesText(f, j) \o line(j + 1)
  <2>1. j \in 0 .. h /\ j + 1 \in 0 .. h /\ j + 1 \in 1 .. h
    BY <1>1
  <2>2. FlattenSeq(Append(lines(j), line(j + 1))) = FlattenSeq(lines(j)) \o line(j + 1)
    BY <1>1, <1>4, <2>1, FlattenAppend DEF T
  <2> QED BY <1>2, <1>5, <2>1, <2>2
<1>7. \A j \in 0 .. h : LinesText(f, j) \in T
  BY <1>2, <1>4, FlattenType DEF T
<1>8. LinesText(f, 0) = <<>>
  BY <1>1, <1>2, <1>3, FlattenEmpty
<1> QED BY <1>6, <1>7, <1>8 DEF h, T, line

\* A header line is in a text, behind a place.
HasLine(f, text, place, i) ==
    /\ text[place + 1] = f.header[i + 1]
    /\ \A x \in 1 .. Len(f.eol) : text[place + 1 + x] = f.eol[x]

LEMMA LinesTextShape ==
    ASSUME NEW f \in Frame, NEW j \in 0 .. Len(f.header)
    PROVE  /\ Len(LinesText(f, j)) = LineBegin(f, j)
           /\ \A i \in 0 .. j - 1 : HasLine(f, LinesText(f, j), LineBegin(f, i), i)
<1> DEFINE h == Len(f.header)
           T == Seq(Symbol)
           Shape(m) == \A i \in 0 .. m - 1 : HasLine(f, LinesText(f, m), LineBegin(f, i), i)
           N == { m \in Nat : m <= h => Len(LinesText(f, m)) = LineBegin(f, m) /\ Shape(m) }
<1>1. 0 \in N
  <2>1. LinesText(f, 0) = <<>> /\ LineBegin(f, 0) = 0 /\ Len(<<>>) = 0
    BY LinesTextGrows, LineBegins
  <2> QED BY <2>1
<1>2. ASSUME NEW m \in Nat, m \in N
      PROVE  m + 1 \in N
  <2>1. SUFFICES ASSUME m + 1 <= h PROVE Len(LinesText(f, m + 1)) = LineBegin(f, m + 1) /\ Shape(m + 1)
    OBVIOUS
  <2> DEFINE before == LinesText(f, m)
             line   == <<f.header[m + 1]>> \o f.eol
             begin  == LineBegin(f, m)
  <2>2. h \in Nat /\ m \in 0 .. h - 1 /\ m \in 0 .. h /\ m + 1 \in 1 .. h
    BY <2>1, FrameTyped
  <2>3. before \in T /\ LinesText(f, m + 1) = before \o line
    BY <2>2, LinesTextGrows
  <2>4. Len(before) = begin /\ begin \in Nat /\ LineBegin(f, m + 1) = begin + Width(f)
    BY <1>2, <2>1, <2>2, LineBegins
  <2>5. /\ line \in T /\ Len(f.eol) \in Nat /\ Len(line) = Width(f) /\ line[1] = f.header[m + 1]
        /\ \A x \in 1 .. Len(f.eol) : line[1 + x] = f.eol[x]
    <3>1. f.eol \in T /\ Len(f.eol) \in Nat /\ f.header[m + 1] \in Symbol
      BY <2>2, FrameTyped, ElementOfSeq
    <3>2. <<f.header[m + 1]>> \in T /\ Len(<<f.header[m + 1]>>) = 1
          /\ <<f.header[m + 1]>>[1] = f.header[m + 1]
      BY <3>1
    <3> QED BY <3>1, <3>2, ConcatProperties DEF Width
  <2> HIDE DEF before, line, begin, T
  <2>6. Len(before \o line) = begin + Width(f)
        /\ (\A i \in 1 .. begin : (before \o line)[i] = before[i])
        /\ (\A i \in 1 .. Width(f) : (before \o line)[begin + i] = line[i])
    <3>1. /\ Len(before \o line) = Len(before) + Len(line)
          /\ \A i \in 1 .. Len(before) + Len(line) :
               (before \o line)[i] = IF i <= Len(before) THEN before[i] ELSE line[i - Len(before)]
      BY <2>3, <2>5, ConcatProperties DEF T
    <3> QED BY <2>4, <2>5, <3>1, SMTT(30)
  <2>7. ASSUME NEW i \in 0 .. m
        PROVE  HasLine(f, before \o line, LineBegin(f, i), i)
    <3>1. Width(f) = 1 + Len(f.eol) /\ Len(f.eol) \in Nat
      BY <2>5 DEF Width
    <3>2. CASE i < m
      <4>0. i \in Nat
        OBVIOUS
      <4>1. LineBegin(f, i) \in Nat /\ LineBegin(f, i) + Width(f) <= LineBegin(f, m)
        BY <3>2, <4>0, LineBegins
      <4>2. HasLine(f, before, LineBegin(f, i), i)
        BY <1>2, <2>1, <2>2, <3>2 DEF before
      <4>3. \A x \in 1 .. Width(f) : LineBegin(f, i) + x \in 1 .. begin
        BY <2>4, <3>1, <4>1, SMTT(30) DEF begin
      <4>4. (before \o line)[LineBegin(f, i) + 1] = before[LineBegin(f, i) + 1]
        <5>1. LineBegin(f, i) + 1 \in 1 .. begin
          BY <3>1, <4>3
        <5> QED BY <2>6, <5>1
      <4>5. ASSUME NEW x \in 1 .. Len(f.eol)
            PROVE  (before \o line)[LineBegin(f, i) + 1 + x] = before[LineBegin(f, i) + 1 + x]
        <5>1. 1 + x \in 1 .. Width(f) /\ LineBegin(f, i) + 1 + x = LineBegin(f, i) + (1 + x)
          BY <3>1, <4>1
        <5>2. LineBegin(f, i) + 1 + x \in 1 .. begin
          BY <4>3, <5>1
        <5> QED BY <2>6, <5>2
      <4> QED BY <4>2, <4>4, <4>5 DEF HasLine
    <3>3. CASE i = m
      <4>1. LineBegin(f, i) = begin
        BY <3>3 DEF begin
      <4>2. (before \o line)[begin + 1] = f.header[i + 1]
        <5>1. 1 \in 1 .. Width(f)
          BY <3>1
        <5> QED BY <2>5, <2>6, <3>3, <5>1
      <4>3. ASSUME NEW x \in 1 .. Len(f.eol)
            PROVE  (before \o line)[begin + 1 + x] = f.eol[x]
        <5>1. 1 + x \in 1 .. Width(f) /\ begin + 1 + x = begin + (1 + x)
          BY <2>4, <3>1
        <5> QED BY <2>5, <2>6, <5>1
      <4> QED BY <4>1, <4>2, <4>3 DEF HasLine
    <3> QED BY <3>2, <3>3
  <2>8. Shape(m + 1)
    <3>1. \A i \in 0 .. (m + 1) - 1 : i \in 0 .. m
      OBVIOUS
    <3> QED BY <2>3, <2>7, <3>1
  <2> QED BY <2>3, <2>4, <2>6, <2>8
<1> HIDE DEF N
<1>3. \A m \in Nat : m \in N
  BY <1>1, <1>2, Induction
<1> QED BY <1>3, FrameTyped DEF N

LEMMA FrameShape ==
    ASSUME NEW f \in Frame
    PROVE  LET h == Len(f.header)
               text == FrameText(f)
           IN  /\ text \in Seq(Symbol)
               /\ Len(text) = LineBegin(f, h) + Len(f.eol) + Len(f.body)
               /\ \A i \in 0 .. h - 1 : HasLine(f, text, LineBegin(f, i), i)
               /\ \A x \in 1 .. Len(f.eol) : text[LineBegin(f, h) + x] = f.eol[x]
               /\ \A x \in 1 .. Len(f.body) : text[LineBegin(f, h) + Len(f.eol) + x] = f.body[x]
<1> DEFINE h == Len(f.header)
           T == Seq(Symbol)
           line(n) == <<f.header[n]>> \o f.eol
           lines == [ n \in 1 .. h |-> line(n) ]
           header == LinesText(f, h)
           before == header \o f.eol
           begin == LineBegin(f, h)
<1>1. h \in Nat /\ f.eol \in T /\ f.body \in T /\ DOMAIN f.header = 1 .. h
  BY FrameTyped
<1>2. /\ header \in T /\ Len(header) = begin /\ begin \in Nat
      /\ \A i \in 0 .. h - 1 : HasLine(f, header, LineBegin(f, i), i)
  <2>1. h \in 0 .. h
    BY <1>1
  <2> QED BY <1>1, <2>1, LinesTextGrows, LinesTextShape, LineBegins
<1>3. lines \in Seq(T)
  <2>1. ASSUME NEW n \in 1 .. h
        PROVE  line(n) \in T
    <3>1. f.header[n] \in Symbol
      BY <1>1, FrameTyped, ElementOfSeq
    <3>2. <<f.header[n]>> \in T
      BY <3>1
    <3> QED BY <1>1, <3>2, ConcatProperties
  <2> HIDE DEF line, T
  <2> QED BY <1>1, <2>1
<1>4. FrameText(f) = FlattenSeq(lines \o <<f.eol, f.body>>)
  BY <1>1 DEF FrameText
<1>5. header = FlattenSeq(lines)
  BY DEF LinesText
<1> HIDE DEF T, h, line, lines, header, begin
<1>6. lines \o <<f.eol, f.body>> = Append(Append(lines, f.eol), f.body)
  BY <1>1, <1>3
<1>7. FrameText(f) = before \o f.body
  <2>1. FlattenSeq(Append(lines, f.eol)) = before
    BY <1>1, <1>3, <1>5, FlattenAppend DEF T
  <2>2. Append(lines, f.eol) \in Seq(T)
    BY <1>1, <1>3, AppendProperties
  <2>3. FlattenSeq(Append(Append(lines, f.eol), f.body)) = FlattenSeq(Append(lines, f.eol)) \o f.body
    BY <1>1, <2>2, FlattenAppend DEF T
  <2> QED BY <1>4, <1>6, <2>1, <2>3
<1>8. /\ before \in T /\ Len(before) = begin + Len(f.eol)
      /\ \A i \in 1 .. begin : before[i] = header[i]
      /\ \A i \in 1 .. Len(f.eol) : before[begin + i] = f.eol[i]
  <2>1. /\ header \o f.eol \in Seq(Symbol) /\ Len(header \o f.eol) = Len(header) + Len(f.eol)
        /\ \A i \in 1 .. Len(header) : (header \o f.eol)[i] = header[i]
        /\ \A i \in 1 .. Len(f.eol) : (header \o f.eol)[Len(header) + i] = f.eol[i]
    <3>1. header \in Seq(Symbol) /\ f.eol \in Seq(Symbol)
      BY <1>1, <1>2 DEF T
    <3> QED BY <3>1, ConcatAt
  <2> QED BY <1>2, <2>1 DEF T
<1> HIDE DEF before
<1>9. LET text == FrameText(f)
      IN  /\ text \in T /\ Len(text) = begin + Len(f.eol) + Len(f.body)
          /\ \A i \in 1 .. begin + Len(f.eol) : text[i] = before[i]
          /\ \A i \in 1 .. Len(f.body) : text[begin + Len(f.eol) + i] = f.body[i]
  <2>1. /\ before \o f.body \in Seq(Symbol) /\ Len(before \o f.body) = Len(before) + Len(f.body)
        /\ \A i \in 1 .. Len(before) : (before \o f.body)[i] = before[i]
        /\ \A i \in 1 .. Len(f.body) : (before \o f.body)[Len(before) + i] = f.body[i]
    <3>1. before \in Seq(Symbol) /\ f.body \in Seq(Symbol)
      BY <1>1, <1>8 DEF T
    <3> QED BY <3>1, ConcatAt
  <2> QED BY <1>7, <1>8, <2>1 DEF T
<1>10. ASSUME NEW i \in 0 .. h - 1
       PROVE  HasLine(f, FrameText(f), LineBegin(f, i), i)
  <2>1. Len(f.eol) \in Nat /\ Width(f) = 1 + Len(f.eol) /\ i \in Nat /\ i < h
    BY <1>1, LenProperties DEF Width
  <2>2. LineBegin(f, i) \in Nat /\ LineBegin(f, i) + Width(f) <= begin
    BY <1>1, <2>1, LineBegins DEF begin
  <2>3. HasLine(f, header, LineBegin(f, i), i)
    BY <1>2
  <2>4. ASSUME NEW x \in 1 .. begin
        PROVE  FrameText(f)[x] = header[x]
    <3>1. x \in 1 .. begin + Len(f.eol)
      BY <1>2, <2>1
    <3> QED BY <1>8, <1>9, <3>1
  <2>5. FrameText(f)[LineBegin(f, i) + 1] = header[LineBegin(f, i) + 1]
    <3>1. LineBegin(f, i) + 1 \in 1 .. begin
      BY <1>2, <2>1, <2>2
    <3> QED BY <2>4, <3>1
  <2>6. ASSUME NEW x \in 1 .. Len(f.eol)
        PROVE  FrameText(f)[LineBegin(f, i) + 1 + x] = header[LineBegin(f, i) + 1 + x]
    <3>1. LineBegin(f, i) + 1 + x \in 1 .. begin
      BY <1>2, <2>1, <2>2
    <3> QED BY <2>4, <3>1
  <2> QED BY <2>3, <2>5, <2>6 DEF HasLine
<1>11. ASSUME NEW x \in 1 .. Len(f.eol)
       PROVE  FrameText(f)[begin + x] = f.eol[x]
  <2>1. Len(f.eol) \in Nat
    BY <1>1, LenProperties DEF T
  <2>2. begin + x \in 1 .. begin + Len(f.eol)
    BY <1>2, <2>1
  <2> QED BY <1>8, <1>9, <2>2
<1> QED BY <1>9, <1>10, <1>11 DEF h, T, begin

-----------------------------------------------------------------------------
(***************************************************************************)
(* Where the frames are in their text.                                     *)
(***************************************************************************)
FirstText(fs, n) == Text(SubSeq(fs, 1, n))

LEMMA FirstTextGrows ==
    ASSUME NEW k \in Nat, NEW fs \in [1 .. k -> Frames]
    PROVE  /\ \A n \in 0 .. k : FirstText(fs, n) \in Seq(Symbol)
           /\ FirstText(fs, 0) = <<>> /\ FirstText(fs, k) = Text(fs)
           /\ \A n \in 0 .. k - 1 : FirstText(fs, n + 1) = FirstText(fs, n) \o FrameText(fs[n + 1])
<1> DEFINE T == Seq(Symbol)
           text(n) == FrameText(fs[n])
           texts(n) == [ i \in 1 .. n |-> text(i) ]
<1>1. \A n \in 1 .. k : text(n) \in T
  BY FramesAssumption, FrameTextType
<1>2. ASSUME NEW n \in 0 .. k
      PROVE  FirstText(fs, n) = FlattenSeq(texts(n))
  <2>1. fs \in Seq(Frames) /\ Len(fs) = k
    OBVIOUS
  <2>2. SubSeq(fs, 1, n) = [ i \in 1 .. n |-> fs[i] ]
    BY <2>1
  <2> QED BY <2>2 DEF FirstText, Text
<1>3. texts(0) = <<>>
  OBVIOUS
<1>4. SubSeq(fs, 1, k) = fs
  OBVIOUS
<1> HIDE DEF T, text
<1>5. \A n \in 0 .. k : texts(n) \in Seq(T) /\ Len(texts(n)) = n
  BY <1>1
<1>6. ASSUME NEW n \in 0 .. k - 1
      PROVE  texts(n + 1) = Append(texts(n), text(n + 1))
  BY <1>1, <1>5
<1> HIDE DEF texts
<1>7. ASSUME NEW n \in 0 .. k - 1
      PROVE  FirstText(fs, n + 1) = FirstText(fs, n) \o text(n + 1)
  <2>1. n \in 0 .. k /\ n + 1 \in 0 .. k /\ n + 1 \in 1 .. k
    OBVIOUS
  <2>2. FlattenSeq(Append(texts(n), text(n + 1))) = FlattenSeq(texts(n)) \o text(n + 1)
    BY <1>1, <1>5, <2>1, FlattenAppend DEF T
  <2> QED BY <1>2, <1>6, <2>1, <2>2
<1>8. \A n \in 0 .. k : FirstText(fs, n) \in T
  BY <1>2, <1>5, FlattenType DEF T
<1>9. FirstText(fs, 0) = <<>>
  BY <1>2, <1>3, FlattenEmpty
<1>10. FirstText(fs, k) = Text(fs)
  BY <1>4 DEF FirstText
<1> QED BY <1>7, <1>8, <1>9, <1>10 DEF T, text

\* A frame is in the text of the first m frames, if it is one of them.
HasFrame(fs, m, n) ==
    /\ Len(FirstText(fs, n + 1)) <= Len(FirstText(fs, m))
    /\ \A i \in 1 .. Len(FrameText(fs[n + 1])) :
         FirstText(fs, m)[Len(FirstText(fs, n)) + i] = FrameText(fs[n + 1])[i]

LEMMA FramesInText ==
    ASSUME NEW k \in Nat, NEW fs \in [1 .. k -> Frames]
    PROVE  /\ \A m \in 0 .. k, n \in 0 .. k : n < m => HasFrame(fs, m, n)
           /\ \A n \in 0 .. k - 1 :
                Len(FirstText(fs, n + 1)) = Len(FirstText(fs, n)) + Len(FrameText(fs[n + 1]))
<1> DEFINE T == Seq(Symbol)
           N == { m \in Nat : m <= k => \A n \in 0 .. k : n < m => HasFrame(fs, m, n) }
<1>1. ASSUME NEW n \in 0 .. k - 1
      PROVE  LET before == FirstText(fs, n)
                 after  == FirstText(fs, n + 1)
                 text   == FrameText(fs[n + 1])
             IN  /\ before \in T /\ after \in T /\ Len(before) \in Nat /\ Len(text) \in Nat
                 /\ Len(after) = Len(before) + Len(text)
                 /\ \A i \in 1 .. Len(before) : after[i] = before[i]
                 /\ \A i \in 1 .. Len(text) : after[Len(before) + i] = text[i]
  <2>1. n \in 0 .. k /\ n + 1 \in 0 .. k /\ n + 1 \in 1 .. k
    OBVIOUS
  <2>2. FirstText(fs, n) \in Seq(Symbol) /\ FirstText(fs, n + 1) \in Seq(Symbol)
    BY <2>1, FirstTextGrows
  <2>3. FrameText(fs[n + 1]) \in Seq(Symbol)
    BY <2>1, FramesAssumption, FrameTextType
  <2>4. FirstText(fs, n + 1) = FirstText(fs, n) \o FrameText(fs[n + 1])
    BY FirstTextGrows
  <2> QED BY <2>2, <2>3, <2>4, ConcatAt, LenProperties
<1>2. 0 \in N
  OBVIOUS
<1>3. ASSUME NEW m \in Nat, m \in N
      PROVE  m + 1 \in N
  <2> SUFFICES ASSUME m + 1 <= k, NEW n \in 0 .. k, n < m + 1
               PROVE  HasFrame(fs, m + 1, n)
    OBVIOUS
  <2>1. m \in 0 .. k - 1 /\ n \in 0 .. k - 1 /\ n \in Nat
    OBVIOUS
  <2> DEFINE before == FirstText(fs, m)
             after  == FirstText(fs, m + 1)
             begin  == Len(FirstText(fs, n))
             text   == FrameText(fs[n + 1])
  <2>2. CASE n = m
    <3>1. Len(after) \in Nat /\ \A i \in 1 .. Len(text) : after[begin + i] = text[i]
      BY <1>1, <2>1, <2>2, LenProperties
    <3> QED BY <2>2, <3>1 DEF HasFrame
  <2>3. CASE n < m
    <3>1. Len(FirstText(fs, n + 1)) <= Len(before)
          /\ \A i \in 1 .. Len(text) : before[begin + i] = text[i]
      <4>1. HasFrame(fs, m, n)
        BY <1>3, <2>3
      <4> QED BY <4>1 DEF HasFrame
    <3>2. Len(FirstText(fs, n + 1)) = begin + Len(text) /\ begin \in Nat /\ Len(text) \in Nat
      BY <1>1, <2>1
    <3>3. Len(before) \in Nat /\ Len(before) <= Len(after)
          /\ \A i \in 1 .. Len(before) : after[i] = before[i]
      <4>1. Len(after) = Len(before) + Len(FrameText(fs[m + 1])) /\ Len(before) \in Nat
            /\ Len(FrameText(fs[m + 1])) \in Nat
        BY <1>1, <2>1
      <4> QED BY <1>1, <2>1, <4>1
    <3> HIDE DEF before, after, begin, text
    <3>4. ASSUME NEW i \in 1 .. Len(text)
          PROVE  after[begin + i] = text[i]
      <4>1. begin + i \in 1 .. Len(before)
        BY <3>1, <3>2, <3>3
      <4> QED BY <3>1, <3>3, <4>1
    <3>5. Len(FirstText(fs, n + 1)) <= Len(after)
      <4>1. Len(FirstText(fs, n + 1)) \in Nat /\ Len(after) \in Nat
        BY <1>1, <2>1, LenProperties DEF after
      <4> QED BY <3>1, <3>3, <4>1
    <3> QED BY <3>4, <3>5 DEF HasFrame, before, after, begin, text
  <2> QED BY <2>1, <2>2, <2>3
<1> HIDE DEF N
<1>4. \A m \in Nat : m \in N
  BY <1>2, <1>3, Induction
<1>5. \A m \in 0 .. k, n \in 0 .. k : n < m => HasFrame(fs, m, n)
  BY <1>4 DEF N
<1> QED BY <1>1, <1>5

LEMMA InitLayout == ASSUME ReaderInit PROVE Layout
<1>1. PICK F \in 0 .. MaxFrames : frames \in [1 .. F -> Frames]
  BY DEF ReaderInit
<1>2. F \in Nat /\ Len(frames) = F /\ frames \in [1 .. F -> Frame]
  BY <1>1, BoundsAssumption, FramesAssumption
<1> DEFINE E(n) == Len(FirstText(frames, n))
<1>3. ends = [ n \in 1 .. F |-> E(n) ]
  BY <1>2 DEF ReaderInit, FirstText
<1>4. PICK cut \in 0 .. Len(Text(frames)) : input = SubSeq(Text(frames), 1, cut)
  BY DEF ReaderInit
<1>5. FirstText(frames, F) = Text(frames) /\ E(0) = 0
      /\ \A n \in 0 .. F : FirstText(frames, n) \in Seq(Symbol)
  BY <1>1, <1>2, FirstTextGrows
<1>6. \A n \in 0 .. F : E(n) \in Nat
  BY <1>5, LenProperties
<1>7. /\ input \in Seq(Symbol) /\ Len(input) \in Nat /\ Len(input) <= E(F)
      /\ \A i \in 1 .. Len(input) : input[i] = FirstText(frames, F)[i]
  <2>1. Text(frames) \in Seq(Symbol) /\ Len(Text(frames)) \in Nat /\ Len(Text(frames)) = E(F)
    BY <1>2, <1>5, <1>6
  <2> QED BY <1>4, <1>5, <2>1
<1>8. \A n \in 1 .. F + 1 : BeginOf(n) = E(n - 1)
  BY <1>2, <1>3, <1>5 DEF BeginOf
<1>9. ASSUME NEW k \in 1 .. F
      PROVE  HasFrameAt(k)
  <2> DEFINE f == frames[k]
             text == FrameText(f)
             h == Len(f.header)
             begin == E(k - 1)
             line == LineBegin(f, h)
             e == Len(f.eol)
  <2>1. f \in Frame /\ k - 1 \in 0 .. F - 1 /\ k - 1 \in 0 .. F /\ k - 1 + 1 = k
    BY <1>2
  <2>2. /\ h \in Nat /\ e \in Nat /\ Len(f.body) \in Nat /\ line \in Nat
        /\ Width(f) = 1 + e
    BY <2>1, FrameTyped, LineBegins DEF Width
  <2>3. /\ Len(text) = line + e + Len(f.body)
        /\ \A i \in 0 .. h - 1 : HasLine(f, text, LineBegin(f, i), i)
        /\ \A x \in 1 .. e : text[line + x] = f.eol[x]
        /\ \A x \in 1 .. Len(f.body) : text[line + e + x] = f.body[x]
    BY <2>1, FrameShape
  <2>4. HasFrame(frames, F, k - 1) /\ E(k) = begin + Len(text)
    <3>1. F \in Nat /\ F \in 0 .. F /\ k - 1 < F
      BY <1>2, <2>1
    <3>2. HasFrame(frames, F, k - 1)
      BY <1>1, <2>1, <3>1, FramesInText
    <3>3. Len(FirstText(frames, (k - 1) + 1))
            = Len(FirstText(frames, k - 1)) + Len(FrameText(frames[(k - 1) + 1]))
      BY <1>1, <2>1, <3>1, FramesInText
    <3> QED BY <2>1, <3>2, <3>3
  <2>5. begin \in Nat /\ BeginOf(k) = begin /\ ends[k] = E(k)
    BY <1>3, <1>6, <1>8, <2>1
  <2>6. \A i \in 1 .. Len(text) : begin + i <= Len(input) => input[begin + i] = text[i]
    <3>1. \A i \in 1 .. Len(text) : FirstText(frames, F)[begin + i] = text[i]
      BY <2>1, <2>4 DEF HasFrame
    <3> HIDE DEF begin, text
    <3>2. ASSUME NEW i \in 1 .. Len(text), begin + i <= Len(input)
          PROVE  input[begin + i] = text[i]
      <4>1. begin + i \in 1 .. Len(input)
        BY <1>7, <2>5, <3>2
      <4> QED BY <1>7, <3>1, <4>1
    <3> QED BY <3>2
  <2>7. /\ \A i \in Nat : LineAt(k, i) = begin + LineBegin(f, i)
        /\ EmptyLineAt(k) = begin + line /\ BodyAt(k) = begin + line + e
    BY <2>5 DEF LineAt, EmptyLineAt, BodyAt
  <2> DEFINE b == Len(f.body)
             size == Len(text)
             width == Width(f)
  <2>12. /\ h \in Nat /\ e \in Nat /\ b \in Nat /\ line \in Nat /\ begin \in Nat
         /\ width = 1 + e /\ size = line + e + b
         /\ ends[k] = begin + size
         /\ EmptyLineAt(k) = begin + line /\ BodyAt(k) = begin + line + e
    BY <2>2, <2>3, <2>4, <2>5, <2>7
  <2> HIDE DEF begin, text, line, h, f, e, E, b, size, width
  <2>8. ASSUME NEW i \in 0 .. h - 1
        PROVE  /\ LineAt(k, i) + 1 <= Len(input) => input[LineAt(k, i) + 1] = f.header[i + 1]
               /\ \A x \in 1 .. e :
                    LineAt(k, i) + 1 + x <= Len(input) => input[LineAt(k, i) + 1 + x] = f.eol[x]
    <3>1. i \in Nat /\ i < h
      BY <2>12
    <3>2. LineBegin(f, i) \in Nat /\ LineBegin(f, i) + width <= line
      BY <2>1, <2>12, <3>1, LineBegins DEF line, width
    <3>3. text[LineBegin(f, i) + 1] = f.header[i + 1]
          /\ \A x \in 1 .. e : text[LineBegin(f, i) + 1 + x] = f.eol[x]
      BY <2>3 DEF HasLine, e
    <3>6. LineAt(k, i) = begin + LineBegin(f, i)
      BY <2>7, <3>1
    <3>4. LineBegin(f, i) + 1 \in 1 .. size /\ LineAt(k, i) + 1 = begin + (LineBegin(f, i) + 1)
      BY <2>12, <3>2, <3>6, SMTT(30)
    <3>5. ASSUME NEW x \in 1 .. e
          PROVE  LineBegin(f, i) + 1 + x \in 1 .. size
                 /\ LineAt(k, i) + 1 + x = begin + (LineBegin(f, i) + 1 + x)
      BY <2>12, <3>2, <3>6, SMTT(30)
    <3> QED BY <2>6, <3>3, <3>4, <3>5 DEF size
  <2>9. ASSUME NEW x \in 1 .. e, EmptyLineAt(k) + x <= Len(input)
        PROVE  input[EmptyLineAt(k) + x] = f.eol[x]
    <3>1. line + x \in 1 .. size /\ EmptyLineAt(k) + x = begin + (line + x)
      BY <2>12
    <3> QED BY <2>3, <2>6, <2>9, <3>1 DEF size
  <2>10. ASSUME NEW x \in 1 .. b, BodyAt(k) + x <= Len(input)
         PROVE  input[BodyAt(k) + x] = f.body[x]
    <3>1. line + e + x \in 1 .. size /\ BodyAt(k) + x = begin + (line + e + x)
      BY <2>12
    <3> QED BY <2>3, <2>6, <2>10, <3>1 DEF size, b
  <2>11. ends[k] = BodyAt(k) + b /\ BeginOf(k) \in Nat
    BY <2>5, <2>12
  <2> QED BY <2>8, <2>9, <2>10, <2>11 DEF HasFrameAt, Header, EndOfLine, Body, h, e, f, b
<1>10. ASSUME NEW k \in 1 .. F, NEW m \in 1 .. F, k < m
       PROVE  ends[k] <= BeginOf(m)
  <2>1. CASE k = m - 1
    BY <1>3, <1>6, <1>8, <2>1, SMTT(30)
  <2>2. CASE k < m - 1
    <3>1. k - 1 \in 0 .. F /\ m - 1 \in 0 .. F /\ k - 1 < m - 1 /\ k - 1 + 1 = k
      BY <2>2
    <3>2. HasFrame(frames, F, k - 1) /\ HasFrame(frames, m - 1, k - 1)
      BY <1>1, <1>2, <3>1, FramesInText
    <3>3. E(k) <= E(m - 1)
      BY <3>1, <3>2 DEF HasFrame
    <3> QED BY <1>3, <1>8, <3>3
  <2> QED BY <1>10, <2>1, <2>2
<1>11. ends \in [1 .. F -> Nat] /\ BeginOf(F + 1) = E(F)
  <2>1. \A n \in 1 .. F : E(n) \in Nat
    BY <1>6
  <2>2. F + 1 \in 1 .. F + 1 /\ F + 1 - 1 = F
    BY <1>2
  <2> HIDE DEF E
  <2> QED BY <1>3, <1>8, <2>1, <2>2
<1> HIDE DEF E
<1> QED BY <1>2, <1>7, <1>9, <1>10, <1>11 DEF Layout

LEMMA DropType ==
    ASSUME NEW text \in Seq(Symbol), NEW n \in Nat
    PROVE  /\ Drop(text, n) \in Seq(Symbol)
           /\ Len(text) <= n => Drop(text, n) = <<>>
<1>1. ASSUME NEW m \in Nat
      PROVE  SubSeq(text, n + 1, m) \in Seq(Symbol) \/ m > Len(text)
  BY <1>1
<1>2. Len(text) \in Nat
  BY LenProperties
<1>3. Drop(text, n) \in Seq(Symbol)
  BY <1>1, <1>2 DEF Drop
<1>4. ASSUME Len(text) <= n
      PROVE  Drop(text, n) = <<>>
  BY <1>2, <1>4 DEF Drop
<1> QED BY <1>3, <1>4

LEMMA LineType ==
    ASSUME NEW text \in Seq(Symbol)
    PROVE  /\ Line(text) \in Seq(Symbol)
           /\ Len(Line(text)) \in 0 .. Len(text)
           /\ NewLines(text) # {} => Len(Line(text)) < Len(text)
<1>1. NewLines(text) \subseteq 1 .. Len(text) /\ Len(text) \in Nat
  BY LenProperties DEF NewLines
<1>2. CASE NewLines(text) = {}
  BY <1>1, <1>2 DEF Line
<1>3. CASE NewLines(text) # {}
  <2> DEFINE first == CHOOSE n \in NewLines(text) : \A m \in NewLines(text) : n <= m
  <2>1. PICK i \in NewLines(text) : \A m \in NewLines(text) : ~(m < i)
    BY <1>1, <1>3, LeastIndex
  <2>2. \A m \in NewLines(text) : i <= m
    BY <1>1, <2>1
  <2>3. first \in NewLines(text)
    BY <2>2
  <2>4. Line(text) = SubSeq(text, 1, first - 1)
    BY <1>3 DEF Line
  <2> HIDE DEF first
  <2>5. first \in 1 .. Len(text)
    BY <1>1, <2>3
  <2>6. /\ SubSeq(text, 1, first - 1) \in Seq(Symbol)
        /\ Len(SubSeq(text, 1, first - 1)) = first - 1
    BY <1>1, <2>5
  <2> QED BY <1>1, <2>4, <2>5, <2>6
<1> QED BY <1>2, <1>3

LEMMA TrimType ==
    ASSUME NEW line \in Seq(Symbol)
    PROVE  Trim(line) \in Seq(Symbol)
<1>1. line # <<>> => Front(line) \in Seq(Symbol)
  BY LenProperties DEF Front
<1> QED BY <1>1 DEF Trim

LEMMA TestLineType ==
    ASSUME ReaderTypeOK, NEW line \in Seq(Symbol), TestLine(line)
    PROVE  /\ pc' \in {"header", "size", "aborted"}
           /\ content_length' \in 0 .. UnsignedMax
<1>1. Len(line) = 1 => line[1] \in Symbol
  BY ElementOfSeq
<1>2. IsLength(line) => line[1].value \in Nat
  BY <1>1 DEF IsLength, Symbol
<1> QED BY <1>2, LimitsAssumption DEF TestLine, ReaderTypeOK

-----------------------------------------------------------------------------
LEMMA InitReaderInv == ReaderInit => ReaderInv
<1> SUFFICES ASSUME ReaderInit PROVE ReaderInv
  OBVIOUS
<1>1. PICK n \in 0 .. MaxFrames : frames \in [1 .. n -> Frames]
  BY DEF ReaderInit
<1>2. Text(frames) \in Seq(Symbol)
  BY <1>1, BoundsAssumption, TextType
<1>3. PICK cut \in 0 .. Len(Text(frames)) : rest = SubSeq(Text(frames), 1, cut)
  BY DEF ReaderInit
<1>4. rest \in Seq(Symbol)
  BY <1>2, <1>3, LenProperties
<1>5. <<>> \in Seq(Seq(Symbol))
  OBVIOUS
<1>6. /\ checked \in BOOLEAN /\ good = TRUE /\ errno = "none" /\ interrupts = 0
      /\ disturbed = FALSE /\ pc = "call" /\ content_length = 0 /\ delivered = <<>>
  BY DEF ReaderInit
<1>7. 0 \in 0 .. MaxInterrupts /\ 0 \in 0 .. UnsignedMax
  BY BoundsAssumption, LimitsAssumption
<1> QED BY <1>4, <1>5, <1>6, <1>7 DEF ReaderInv, ReaderTypeOK, FailsAtTheEnd

\* Reading a header, and what interrupts it.
LEMMA HeaderKeepsInv ==
    ASSUME ReaderInv,
           \/ ReadLine \/ ReadLastLine \/ ReadLastLineAgain \/ BackOfEmptyLine \/ HeaderEnds
           \/ InterruptLine
    PROVE  ReaderInv'
<1> USE DEF ReaderInv, clientVars, faultVars
<1>0. /\ rest \in Seq(Symbol) /\ <<>> \in Seq(Symbol) /\ Line(rest) \in Seq(Symbol)
      /\ Len(Line(rest)) \in Nat /\ Len(rest) \in Nat
      /\ Len(Line(rest)) <= Len(rest)
  BY LineType, LenProperties DEF ReaderTypeOK
<1>1. CASE ReadLine
  <2>1. rest' \in Seq(Symbol)
    BY <1>0, <1>1, DropType DEF ReadLine
  <2>2. pc' \in {"header", "size", "aborted"} /\ content_length' \in 0 .. UnsignedMax
    BY <1>0, <1>1, TrimType, TestLineType DEF ReadLine
  <2> QED BY <1>1, <2>1, <2>2 DEF ReadLine, ReaderTypeOK, FailsAtTheEnd
<1>2. CASE ReadLastLine
  <2>1. pc' \in {"header", "size", "aborted"} /\ content_length' \in 0 .. UnsignedMax
    BY <1>0, <1>2, TrimType, TestLineType DEF ReadLastLine
  <2> QED BY <1>0, <1>2, <2>1 DEF ReadLastLine, ReaderTypeOK, FailsAtTheEnd
<1>3. CASE ReadLastLineAgain
  BY <1>0, <1>3 DEF ReadLastLineAgain, ReaderTypeOK, FailsAtTheEnd
<1>4. CASE BackOfEmptyLine
  BY <1>4 DEF BackOfEmptyLine, ReaderTypeOK, FailsAtTheEnd
<1>5. CASE HeaderEnds
  BY <1>5 DEF HeaderEnds, ReaderTypeOK, FailsAtTheEnd
<1>6. CASE InterruptLine
  <2>1. PICK n \in 0 .. Len(Line(rest)), torn \in BOOLEAN :
          /\ pc' = IF n = 0 /\ ~torn /\ checked THEN "aborted" ELSE "header"
          /\ rest' = IF torn THEN <<OtherText>> \o Drop(rest, n + 1) ELSE Drop(rest, n)
          /\ disturbed' = (disturbed \/ Meaning(Line(rest')) # Meaning(Line(rest)))
    BY <1>6 DEF InterruptLine
  <2>2. n \in Nat /\ Drop(rest, n) \in Seq(Symbol) /\ Drop(rest, n + 1) \in Seq(Symbol)
    BY <1>0, <2>1, DropType
  <2>3. OtherText \in Symbol
    BY DEF OtherText, Symbol
  <2>4. <<OtherText>> \in Seq(Symbol)
    BY <2>3
  <2>5. <<OtherText>> \o Drop(rest, n + 1) \in Seq(Symbol)
    BY <2>2, <2>4, ConcatProperties
  <2>6. rest' \in Seq(Symbol)
    BY <2>1, <2>2, <2>5
  <2>7. good /\ good' = good /\ disturbed' \in BOOLEAN
    BY <1>6, <2>1 DEF InterruptLine, ReaderTypeOK
  <2> QED BY <1>6, <2>1, <2>6, <2>7, BoundsAssumption DEF InterruptLine, ReaderTypeOK, FailsAtTheEnd
<1> QED BY <1>1, <1>2, <1>3, <1>4, <1>5, <1>6

\* What follows a header, and the loop of run().
LEMMA ContentKeepsInv ==
    ASSUME ReaderInv, Call \/ LoopEnds \/ TooBig \/ NoContent \/ ReadContent \/ InterruptContent
    PROVE  ReaderInv'
<1> USE DEF ReaderInv, clientVars, faultVars
<1>0. /\ rest \in Seq(Symbol) /\ <<>> \in Seq(Symbol)
      /\ Len(rest) \in Nat /\ content_length \in Nat
  BY LenProperties, LimitsAssumption DEF ReaderTypeOK
<1>1. CASE Call
  BY <1>1, LimitsAssumption DEF Call, ReaderTypeOK, FailsAtTheEnd
<1>2. CASE LoopEnds
  BY <1>2 DEF LoopEnds, ReaderTypeOK, FailsAtTheEnd
<1>3. CASE TooBig
  <2>1. CASE UNCHANGED <<rest, good>>
    BY <1>3, <2>1 DEF TooBig, ReaderTypeOK, FailsAtTheEnd
  <2>2. CASE ~UNCHANGED <<rest, good>>
    <3>1. /\ rest' = Drop(rest, content_length) /\ good' \in BOOLEAN
          /\ Len(rest) > content_length => good'
      BY <1>3, <2>2 DEF TooBig
    <3>2. rest' \in Seq(Symbol) /\ (~good' => rest' = <<>>)
      BY <1>0, <3>1, DropType
    <3> QED BY <1>3, <3>1, <3>2 DEF TooBig, ReaderTypeOK, FailsAtTheEnd
  <2> QED BY <2>1, <2>2
<1>4. CASE NoContent
  BY <1>4 DEF NoContent, ReaderTypeOK, FailsAtTheEnd
<1>5. CASE ReadContent
  <2>1. CASE good /\ content_length <= Len(rest)
    <3>1. rest' = Drop(rest, content_length) /\ good' = good
          /\ delivered' = Append(delivered, SubSeq(rest, 1, content_length))
      BY <1>5, <2>1 DEF ReadContent
    <3>2. SubSeq(rest, 1, content_length) \in Seq(Symbol)
      BY <1>0, <2>1
    <3>4. rest' \in Seq(Symbol)
      BY <1>0, <3>1, DropType
    <3>3. delivered' \in Seq(Seq(Symbol))
      BY <3>1, <3>2, AppendProperties DEF ReaderTypeOK
    <3> QED BY <1>5, <2>1, <3>1, <3>3, <3>4 DEF ReadContent, ReaderTypeOK, FailsAtTheEnd
  <2>2. CASE ~(good /\ content_length <= Len(rest))
    <3>1. rest' = <<>> /\ good' = FALSE /\ delivered' = delivered
      BY <1>5, <2>2 DEF ReadContent
    <3> QED BY <1>0, <1>5, <3>1 DEF ReadContent, ReaderTypeOK, FailsAtTheEnd
  <2> QED BY <2>1, <2>2
<1>6. CASE InterruptContent
  <2>1. PICK n \in 0 .. Len(rest) : rest' = Drop(rest, n)
    BY <1>6 DEF InterruptContent
  <2>2. rest' \in Seq(Symbol)
    BY <1>0, <2>1, DropType
  <2>3. /\ errno' = "EINTR" /\ interrupts < MaxInterrupts /\ interrupts' = interrupts + 1
        /\ disturbed' = TRUE /\ good' = FALSE /\ pc' = "call"
        /\ UNCHANGED <<checked, content_length, delivered>>
    BY <1>6 DEF InterruptContent
  <2>4. interrupts' \in 0 .. MaxInterrupts
    BY <2>3, BoundsAssumption DEF ReaderTypeOK
  <2> QED BY <2>2, <2>3, <2>4 DEF ReaderTypeOK, FailsAtTheEnd
<1> QED BY <1>1, <1>2, <1>3, <1>4, <1>5, <1>6

LEMMA NextReaderInv ==
    ASSUME ReaderInv, [ReaderNext]_vars
    PROVE  ReaderInv'
<1>1. CASE UNCHANGED vars
  BY <1>1 DEF ReaderInv, ReaderTypeOK, FailsAtTheEnd, vars, clientVars, faultVars
<1> QED BY <1>1, HeaderKeepsInv, ContentKeepsInv DEF ReaderNext, ReaderStep

-----------------------------------------------------------------------------
(***************************************************************************)
(* Places in the text.                                                     *)
(***************************************************************************)
LEMMA Places ==
    ASSUME Layout, NEW k \in 1 .. Len(frames)
    PROVE  /\ frames[k] \in Frame /\ Len(frames) \in Nat /\ Len(input) \in Nat
           /\ Len(Header(k)) \in Nat /\ Len(EndOfLine(k)) \in 1 .. 2 /\ Len(Body(k)) \in Nat
           /\ Width(frames[k]) = 1 + Len(EndOfLine(k))
           /\ BeginOf(k) \in Nat /\ EmptyLineAt(k) \in Nat /\ BodyAt(k) \in Nat /\ ends[k] \in Nat
           /\ LineAt(k, 0) = BeginOf(k) /\ LineAt(k, Len(Header(k))) = EmptyLineAt(k)
           /\ BeginOf(k) <= EmptyLineAt(k) /\ EmptyLineAt(k) < BodyAt(k)
           /\ BodyAt(k) = EmptyLineAt(k) + Len(EndOfLine(k))
           /\ ends[k] = BodyAt(k) + Len(Body(k))
           /\ BeginOf(k) < BodyAt(k) /\ BodyAt(k) <= ends[k]
<1> DEFINE f == frames[k]
           h == Len(f.header)
           e == Len(f.eol)
           b == Len(f.body)
           line == LineBegin(f, h)
<1>1. /\ f \in Frame /\ Len(frames) \in Nat /\ Len(input) \in Nat /\ ends[k] \in Nat
      /\ HasFrameAt(k)
  BY LenProperties DEF Layout
<1>2. h \in Nat /\ e \in 1 .. 2 /\ b \in Nat
  BY <1>1, FrameTyped
<1>3. LineBegin(f, 0) = 0 /\ line \in Nat
  BY <1>1, <1>2, LineBegins
<1>4. BeginOf(k) \in Nat /\ ends[k] = BodyAt(k) + b
  BY <1>1 DEF HasFrameAt, Body
<1>5. LineAt(k, 0) = BeginOf(k) /\ EmptyLineAt(k) = BeginOf(k) + line
      /\ LineAt(k, h) = EmptyLineAt(k) /\ BodyAt(k) = EmptyLineAt(k) + e
  BY <1>3, <1>4 DEF LineAt, EmptyLineAt, BodyAt
<1>6. Width(f) = 1 + e
  BY DEF Width
<1> HIDE DEF f, h, e, b, line
<1>7. /\ BeginOf(k) <= EmptyLineAt(k) /\ BeginOf(k) < BodyAt(k) /\ BodyAt(k) <= ends[k]
      /\ EmptyLineAt(k) < BodyAt(k) /\ EmptyLineAt(k) \in Nat /\ BodyAt(k) \in Nat
  BY <1>2, <1>3, <1>4, <1>5, SMTT(30)
<1> QED BY <1>1, <1>2, <1>4, <1>5, <1>6, <1>7 DEF f, h, e, b, Header, EndOfLine, Body

LEMMA HeaderPlaces ==
    ASSUME Layout, NEW k \in 1 .. Len(frames), NEW j \in 0 .. Len(Header(k))
    PROVE  /\ LineAt(k, j) \in Nat /\ BeginOf(k) <= LineAt(k, j) /\ LineAt(k, j) <= EmptyLineAt(k)
           /\ j < Len(Header(k)) =>
                /\ j + 1 \in 0 .. Len(Header(k))
                /\ LineAt(k, j + 1) = LineAt(k, j) + Width(frames[k])
                /\ LineAt(k, j + 1) <= EmptyLineAt(k)
<1> DEFINE f == frames[k]
           h == Len(f.header)
<1>1. f \in Frame /\ h \in Nat /\ BeginOf(k) \in Nat /\ j \in Nat /\ Width(f) \in Nat
  BY Places, SMTT(30) DEF Header
<1>2. /\ LineBegin(f, j) \in Nat /\ LineBegin(f, h) \in Nat
      /\ LineBegin(f, j + 1) = LineBegin(f, j) + Width(f)
      /\ j < h => LineBegin(f, j) + Width(f) <= LineBegin(f, h)
  BY <1>1, LineBegins
<1>3. j < h \/ j = h
  BY <1>1 DEF Header
<1>4. /\ LineAt(k, j) = BeginOf(k) + LineBegin(f, j)
      /\ LineAt(k, j + 1) = BeginOf(k) + LineBegin(f, j + 1)
      /\ EmptyLineAt(k) = BeginOf(k) + LineBegin(f, h)
  BY DEF LineAt, EmptyLineAt
<1>5. j < h => j + 1 \in 0 .. h
  BY <1>1
<1> HIDE DEF f, h
<1>6. /\ LineAt(k, j) \in Nat /\ BeginOf(k) <= LineAt(k, j) /\ LineAt(k, j) <= EmptyLineAt(k)
      /\ j < h => LineAt(k, j + 1) = LineAt(k, j) + Width(f) /\ LineAt(k, j + 1) <= EmptyLineAt(k)
  BY <1>1, <1>2, <1>3, <1>4
<1> QED BY <1>5, <1>6 DEF f, h, Header

\* Behind a frame there is the next one, if there is anything.
LEMMA NextFrame ==
    ASSUME Layout, NEW k \in Written, ends[k] < Len(input)
    PROVE  k + 1 \in Written /\ BeginOf(k + 1) = ends[k]
<1>1. Len(frames) \in Nat /\ DOMAIN frames = 1 .. Len(frames) /\ k \in 1 .. Len(frames)
  BY DEF Layout, Written
<1>2. BeginOf(k + 1) = ends[k]
  BY <1>1 DEF BeginOf
<1>3. ends[k] \in Nat /\ Len(input) \in Nat
  BY <1>1, Places
<1>4. k # Len(frames)
  <2>1. Len(input) <= BeginOf(Len(frames) + 1)
    BY DEF Layout
  <2> QED BY <1>2, <1>3, <2>1
<1> QED BY <1>1, <1>2, <1>4 DEF Written

LEMMA ClientStays ==
    ASSUME UNCHANGED clientVars
    PROVE  /\ \A k : /\ BeginOf(k)' = BeginOf(k) /\ EmptyLineAt(k)' = EmptyLineAt(k)
                     /\ BodyAt(k)' = BodyAt(k)
                     /\ \A j : LineAt(k, j)' = LineAt(k, j)
           /\ Written' = Written /\ Layout' = Layout
<1>1. frames' = frames /\ ends' = ends /\ input' = input
  BY DEF clientVars
<1>2. \A k : BeginOf(k)' = BeginOf(k)
  BY <1>1 DEF BeginOf
<1>3. \A k, j : LineAt(k, j)' = LineAt(k, j)
  BY <1>1, <1>2 DEF LineAt
<1>4. \A k : EmptyLineAt(k)' = EmptyLineAt(k)
  BY <1>1, <1>3 DEF EmptyLineAt
<1>5. \A k : BodyAt(k)' = BodyAt(k)
  BY <1>1, <1>4 DEF BodyAt
<1>6. Written' = Written
  BY <1>1, <1>2 DEF Written
<1>7. ASSUME NEW k
      PROVE  HasFrameAt(k)' = HasFrameAt(k)
  BY <1>1, <1>2, <1>3, <1>4, <1>5 DEF HasFrameAt, Header, EndOfLine, Body
<1>8. Layout' = Layout
  BY <1>1, <1>2, <1>7 DEF Layout
<1> QED BY <1>2, <1>3, <1>4, <1>5, <1>6, <1>8

-----------------------------------------------------------------------------
(***************************************************************************)
(* The lines of a text.                                                    *)
(***************************************************************************)
LEMMA DropShape ==
    ASSUME NEW text \in Seq(Symbol), NEW n \in 0 .. Len(text)
    PROVE  /\ Drop(text, n) \in Seq(Symbol) /\ Len(Drop(text, n)) = Len(text) - n
           /\ \A i \in 1 .. Len(text) - n : Drop(text, n)[i] = text[n + i]
<1>1. Len(text) \in Nat
  BY LenProperties
<1>2. /\ SubSeq(text, n + 1, Len(text)) \in Seq(Symbol)
      /\ Len(SubSeq(text, n + 1, Len(text))) = Len(text) - n
      /\ \A i \in 1 .. Len(text) - n : SubSeq(text, n + 1, Len(text))[i] = text[n + i]
  BY <1>1
<1> QED BY <1>2 DEF Drop

LEMMA LineWithout ==
    ASSUME NEW text \in Seq(Symbol), \A i \in 1 .. Len(text) : text[i] # NL
    PROVE  NewLines(text) = {} /\ Line(text) = text
BY DEF NewLines, Line

LEMMA LineUpTo ==
    ASSUME NEW text \in Seq(Symbol), NEW n \in 1 .. Len(text), text[n] = NL,
           \A i \in 1 .. n - 1 : text[i] # NL
    PROVE  /\ NewLines(text) # {} /\ Line(text) \in Seq(Symbol) /\ Len(Line(text)) = n - 1
           /\ \A i \in 1 .. n - 1 : Line(text)[i] = text[i]
<1> DEFINE S == NewLines(text)
           first == CHOOSE i \in S : \A m \in S : i <= m
<1>1. Len(text) \in Nat /\ S \subseteq 1 .. Len(text) /\ n \in S
  BY LenProperties DEF NewLines
<1>2. \A i \in S : n <= i
  BY <1>1 DEF NewLines
<1>3. first \in S /\ \A m \in S : first <= m
  BY <1>1, <1>2
<1>4. Line(text) = SubSeq(text, 1, first - 1)
  BY <1>1 DEF Line
<1> HIDE DEF first, S
<1>5. first = n
  BY <1>1, <1>2, <1>3
<1>6. /\ SubSeq(text, 1, n - 1) \in Seq(Symbol) /\ Len(SubSeq(text, 1, n - 1)) = n - 1
      /\ \A i \in 1 .. n - 1 : SubSeq(text, 1, n - 1)[i] = text[i]
  BY <1>1
<1> QED BY <1>1, <1>4, <1>5, <1>6 DEF S

LEMMA Trims ==
    /\ Trim(<<>>) = <<>> /\ Trim(<<CR>>) = <<>>
    /\ \A s : s # CR => Trim(<<s>>) = <<s>>
    /\ \A s : Trim(<<s, CR>>) = <<s>>
<1>1. Trim(<<>>) = <<>>
  BY DEF Trim
<1>2. Trim(<<CR>>) = <<>>
  <2>1. <<CR>> # <<>> /\ Last(<<CR>>) = CR
    BY DEF Last
  <2>2. Front(<<CR>>) = <<>>
    BY LeaveShapes DEF Front
  <2> QED BY <2>1, <2>2 DEF Trim
<1>3. ASSUME NEW s, s # CR
      PROVE  Trim(<<s>>) = <<s>>
  <2>1. Last(<<s>>) = s
    BY DEF Last
  <2> QED BY <1>3, <2>1 DEF Trim
<1>4. ASSUME NEW s
      PROVE  Trim(<<s, CR>>) = <<s>>
  <2>1. <<s, CR>> # <<>> /\ Last(<<s, CR>>) = CR
    BY DEF Last
  <2>2. Front(<<s, CR>>) = <<s>>
    BY LeaveShapes DEF Front
  <2> QED BY <2>1, <2>2 DEF Trim
<1> QED BY <1>1, <1>2, <1>3, <1>4

\* A text that begins with an end of line, as far as it goes.
BeginsWithEnd(text, eol) == \A x \in 1 .. Len(eol) : x <= Len(text) => text[x] = eol[x]

LEMMA EmptyLine ==
    ASSUME NEW text \in Seq(Symbol), NEW eol \in {<<NL>>, <<CR, NL>>}, BeginsWithEnd(text, eol)
    PROVE  /\ Trim(Line(text)) = <<>>
           /\ NewLines(text) # {} => Len(Line(text)) + 1 = Len(eol)
           /\ NewLines(text) = {} => Len(text) < Len(eol) /\ Line(text) = text
           /\ text # <<>> /\ Line(text) = <<>> => eol = <<NL>>
           /\ text # <<>> => text[1] \in {CR, NL}
<1>0. CR # NL /\ Len(text) \in Nat /\ Len(eol) \in 1 .. 2
  BY LenProperties DEF CR, NL
<1>1. CASE Len(text) = 0
  <2>1. text = <<>>
    BY <1>1
  <2>2. NewLines(text) = {} /\ Line(text) = text
    <3>1. \A i \in 1 .. Len(text) : text[i] # NL
      BY <1>1
    <3> QED BY <3>1, LineWithout
  <2> QED BY <1>0, <1>1, <2>1, <2>2, Trims
<1>2. CASE Len(text) # 0 /\ eol = <<NL>>
  <2>1. text[1] = NL
    BY <1>0, <1>2 DEF BeginsWithEnd
  <2>2. NewLines(text) # {} /\ Line(text) \in Seq(Symbol) /\ Len(Line(text)) = 0
    <3>1. 1 \in 1 .. Len(text) /\ \A i \in 1 .. 1 - 1 : text[i] # NL
      BY <1>0, <1>2
    <3> QED BY <2>1, <3>1, LineUpTo
  <2>3. Line(text) = <<>>
    BY <2>2
  <2> QED BY <1>2, <2>1, <2>2, <2>3, Trims
<1>3. CASE Len(text) = 1 /\ eol = <<CR, NL>>
  <2>1. text[1] = CR
    BY <1>3 DEF BeginsWithEnd
  <2>2. NewLines(text) = {} /\ Line(text) = text
    BY <1>0, <1>3, <2>1, LineWithout
  <2>3. text = <<CR>>
    BY <1>3, <2>1
  <2> QED BY <1>3, <2>1, <2>2, <2>3, Trims
<1>4. CASE Len(text) >= 2 /\ eol = <<CR, NL>>
  <2>1. text[1] = CR /\ text[2] = NL
    <3>1. 1 \in 1 .. Len(eol) /\ 2 \in 1 .. Len(eol) /\ 1 <= Len(text) /\ 2 <= Len(text)
      BY <1>0, <1>4
    <3>2. text[1] = eol[1] /\ text[2] = eol[2]
      BY <3>1 DEF BeginsWithEnd
    <3> QED BY <1>4, <3>2
  <2>2. /\ NewLines(text) # {} /\ Line(text) \in Seq(Symbol) /\ Len(Line(text)) = 1
        /\ Line(text)[1] = CR
    <3>1. 2 \in 1 .. Len(text) /\ \A i \in 1 .. 2 - 1 : text[i] # NL
      <4>1. \A i \in 1 .. 2 - 1 : i = 1
        OBVIOUS
      <4> QED BY <1>0, <1>4, <2>1, <4>1
    <3>2. /\ NewLines(text) # {} /\ Line(text) \in Seq(Symbol) /\ Len(Line(text)) = 2 - 1
          /\ \A i \in 1 .. 2 - 1 : Line(text)[i] = text[i]
      BY <2>1, <3>1, LineUpTo
    <3> QED BY <2>1, <3>2
  <2>3. Line(text) = <<CR>>
    BY <2>2
  <2> QED BY <1>4, <2>1, <2>2, <2>3, Trims
<1>5. \A n \in Nat : n = 0 \/ (n # 0 /\ (n = 1 \/ n >= 2))
  OBVIOUS
<1>6. eol = <<NL>> \/ eol = <<CR, NL>>
  OBVIOUS
<1> QED BY <1>0, <1>1, <1>2, <1>3, <1>4, <1>5, <1>6, Zenon

\* A text that begins with a line of a header, as far as it goes.
LEMMA HeaderLine ==
    ASSUME NEW text \in Seq(Symbol), text # <<>>, NEW eol \in {<<NL>>, <<CR, NL>>},
           text[1] \in HeaderSymbol,
           BeginsWithEnd(Drop(text, 1), eol)
    PROVE  /\ Line(text) # <<>> /\ Trim(Line(text)) = <<text[1]>>
           /\ NewLines(text) # {} => Len(Line(text)) = Len(eol)
           /\ NewLines(text) = {} => Len(text) <= Len(eol) /\ Line(text) = text
<1> DEFINE s == text[1]
           more == Drop(text, 1)
<1>0. /\ CR # NL /\ s # CR /\ s # NL /\ Len(text) \in Nat /\ Len(text) # 0
      /\ Len(eol) \in 1 .. 2
  BY LenProperties DEF CR, NL, HeaderSymbol
<1>1. Len(more) = Len(text) - 1 /\ \A i \in 1 .. Len(text) - 1 : more[i] = text[1 + i]
  <2>1. 1 \in 0 .. Len(text)
    BY <1>0
  <2> QED BY <2>1, DropShape
<1>2. \A x \in 1 .. Len(eol) : 1 + x <= Len(text) => text[1 + x] = eol[x]
  <2>1. ASSUME NEW x \in 1 .. Len(eol), 1 + x <= Len(text)
        PROVE  text[1 + x] = eol[x]
    <3>1. x \in 1 .. Len(text) - 1 /\ x <= Len(text) - 1
      BY <1>0, <2>1
    <3> HIDE DEF more
    <3> QED BY <1>1, <3>1 DEF BeginsWithEnd, more
  <2> QED BY <2>1
<1> HIDE DEF more, s
<1>3. CASE Len(text) = 1
  <2>1. text = <<s>>
    BY <1>3 DEF s
  <2>2. NewLines(text) = {} /\ Line(text) = text
    BY <1>0, <1>3, LineWithout DEF s
  <2> QED BY <1>0, <1>3, <2>1, <2>2, Trims DEF s
<1>4. CASE Len(text) # 1 /\ eol = <<NL>>
  <2>1. text[2] = NL
    BY <1>0, <1>2, <1>4
  <2>2. /\ NewLines(text) # {} /\ Line(text) \in Seq(Symbol) /\ Len(Line(text)) = 1
        /\ Line(text)[1] = s
    <3>1. 2 \in 1 .. Len(text) /\ \A i \in 1 .. 2 - 1 : text[i] # NL
      BY <1>0, <1>4 DEF s
    <3>2. /\ NewLines(text) # {} /\ Line(text) \in Seq(Symbol) /\ Len(Line(text)) = 2 - 1
          /\ \A i \in 1 .. 2 - 1 : Line(text)[i] = text[i]
      BY <2>1, <3>1, LineUpTo
    <3> QED BY <3>2 DEF s
  <2>3. Line(text) = <<s>>
    BY <2>2
  <2> QED BY <1>0, <1>4, <2>2, <2>3, Trims DEF s
<1>5. CASE Len(text) = 2 /\ eol = <<CR, NL>>
  <2>1. text[2] = CR
    BY <1>2, <1>5
  <2>2. NewLines(text) = {} /\ Line(text) = text
    BY <1>0, <1>5, <2>1, LineWithout DEF s
  <2>3. text = <<s, CR>>
    BY <1>5, <2>1 DEF s
  <2> QED BY <1>5, <2>2, <2>3, Trims DEF s
<1>6. CASE Len(text) >= 3 /\ eol = <<CR, NL>>
  <2>1. text[2] = CR /\ text[3] = NL
    <3>1. 1 \in 1 .. Len(eol) /\ 2 \in 1 .. Len(eol) /\ 1 + 1 <= Len(text) /\ 1 + 2 <= Len(text)
      BY <1>0, <1>6
    <3>2. text[1 + 1] = eol[1] /\ text[1 + 2] = eol[2]
      BY <1>2, <3>1
    <3> QED BY <1>6, <3>2
  <2>2. /\ NewLines(text) # {} /\ Line(text) \in Seq(Symbol) /\ Len(Line(text)) = 2
        /\ Line(text)[1] = s /\ Line(text)[2] = CR
    <3>1. 3 \in 1 .. Len(text) /\ \A i \in 1 .. 3 - 1 : text[i] # NL
      <4>1. \A i \in 1 .. 3 - 1 : i = 1 \/ i = 2
        OBVIOUS
      <4> QED BY <1>0, <1>6, <2>1, <4>1 DEF s
    <3>2. /\ NewLines(text) # {} /\ Line(text) \in Seq(Symbol) /\ Len(Line(text)) = 3 - 1
          /\ \A i \in 1 .. 3 - 1 : Line(text)[i] = text[i]
      BY <2>1, <3>1, LineUpTo
    <3> QED BY <2>1, <3>2 DEF s
  <2>3. Line(text) = <<s, CR>>
    BY <2>2
  <2> QED BY <1>6, <2>2, <2>3, Trims DEF s
<1>7. \A n \in Nat : n # 0 => n = 1 \/ (n # 1 /\ (n = 2 \/ n >= 3))
  OBVIOUS
<1>8. eol = <<NL>> \/ eol = <<CR, NL>>
  OBVIOUS
<1> QED BY <1>0, <1>3, <1>4, <1>5, <1>6, <1>7, <1>8, Zenon

LEMMA LineShape ==
    ASSUME NEW text \in Seq(Symbol)
    PROVE  /\ Line(text) \in Seq(Symbol) /\ Len(Line(text)) \in 0 .. Len(text)
           /\ \A i \in 1 .. Len(Line(text)) : Line(text)[i] = text[i] /\ text[i] # NL
           /\ NewLines(text) = {} => Line(text) = text
           /\ NewLines(text) # {} => /\ Len(Line(text)) + 1 <= Len(text)
                                    /\ text[Len(Line(text)) + 1] = NL
<1>1. Len(text) \in Nat /\ NewLines(text) \subseteq 1 .. Len(text)
  BY LenProperties DEF NewLines
<1>2. CASE NewLines(text) = {}
  <2>1. Line(text) = text
    BY <1>2 DEF Line
  <2>2. \A i \in 1 .. Len(text) : text[i] # NL
    BY <1>2 DEF NewLines
  <2> QED BY <1>1, <1>2, <2>1, <2>2
<1>3. CASE NewLines(text) # {}
  <2>1. PICK n \in NewLines(text) : \A m \in NewLines(text) : ~(m < n)
    BY <1>1, <1>3, LeastIndex
  <2>2. n \in 1 .. Len(text) /\ text[n] = NL
    BY <1>1, <2>1 DEF NewLines
  <2>3. \A i \in 1 .. n - 1 : text[i] # NL
    <3>1. ASSUME NEW i \in 1 .. n - 1, text[i] = NL
          PROVE  FALSE
      <4>1. i \in NewLines(text)
        BY <1>1, <2>2, <3>1 DEF NewLines
      <4> QED BY <2>1, <2>2, <4>1
    <3> QED BY <3>1
  <2>4. /\ Line(text) \in Seq(Symbol) /\ Len(Line(text)) = n - 1
        /\ \A i \in 1 .. n - 1 : Line(text)[i] = text[i]
    BY <2>2, <2>3, LineUpTo
  <2>5. n - 1 + 1 = n /\ n <= Len(text) /\ n - 1 \in 0 .. Len(text)
    BY <1>1, <2>2
  <2> QED BY <1>3, <2>2, <2>3, <2>4, <2>5
<1> QED BY <1>2, <1>3

LEMMA TrimFirst ==
    ASSUME NEW line \in Seq(Symbol), Len(Trim(line)) = 1
    PROVE  1 \in 1 .. Len(line) /\ Trim(line)[1] = line[1]
<1>1. Len(line) \in Nat
  BY LenProperties
<1>2. CASE Trim(line) = line
  BY <1>1, <1>2
<1>3. CASE Trim(line) # line
  <2>1. line # <<>> /\ Trim(line) = SubSeq(line, 1, Len(line) - 1)
    BY <1>3 DEF Trim, Front
  <2>2. Len(line) # 0
    BY <2>1
  <2>3. /\ Len(SubSeq(line, 1, Len(line) - 1)) = Len(line) - 1
        /\ \A i \in 1 .. Len(line) - 1 : SubSeq(line, 1, Len(line) - 1)[i] = line[i]
    <3>1. Len(line) - 1 \in 0 .. Len(line)
      BY <1>1, <2>2
    <3>2. ASSUME NEW m \in 0 .. Len(line)
          PROVE  /\ Len(SubSeq(line, 1, m)) = m
                 /\ \A i \in 1 .. m : SubSeq(line, 1, m)[i] = line[i]
      BY <1>1
    <3> QED BY <3>1, <3>2
  <2>4. Len(line) - 1 = 1 /\ 1 \in 1 .. Len(line) - 1 /\ 1 \in 1 .. Len(line)
    BY <1>1, <2>1, <2>3
  <2> QED BY <2>1, <2>3, <2>4
<1> QED BY <1>2, <1>3

-----------------------------------------------------------------------------
(***************************************************************************)
(* The text at a place.                                                    *)
(***************************************************************************)
LEMMA RestMoves ==
    ASSUME Layout, RestIsInput, rest \in Seq(Symbol), UNCHANGED clientVars,
           NEW n \in 0 .. Len(rest), rest' = Drop(rest, n)
    PROVE  /\ RestIsInput' /\ Taken' = Taken + n /\ Taken \in 0 .. Len(input)
           /\ Len(rest') = Len(rest) - n
<1>1. input' = input /\ Len(input) \in Nat /\ Len(rest) \in Nat /\ Len(rest) <= Len(input)
  BY LenProperties DEF clientVars, Layout, RestIsInput
<1>2. Len(rest') = Len(rest) - n /\ \A i \in 1 .. Len(rest) - n : rest'[i] = rest[n + i]
  BY DropShape
<1>3. Taken = Len(input) - Len(rest) /\ Taken' = Len(input) - Len(rest')
  BY <1>1 DEF Taken
<1>4. \A i \in 1 .. Len(rest) : rest[i] = input[Taken + i]
  BY DEF RestIsInput
<1> DEFINE r == Len(rest)
           l == Len(input)
<1>5. /\ n \in Nat /\ n <= r /\ r \in Nat /\ l \in Nat /\ r <= l
  BY <1>1
<1>6. Len(rest') = r - n /\ Taken = l - r /\ Taken' = l - Len(rest')
  BY <1>2, <1>3
<1> HIDE DEF r, l
<1>7. Taken' = Taken + n /\ Taken \in 0 .. l /\ Len(rest') <= l
  BY <1>5, <1>6
<1>8. ASSUME NEW i \in 1 .. r - n
      PROVE  rest'[i] = input[Taken' + i]
  <2>1. n + i \in 1 .. r /\ Taken' + i = Taken + (n + i)
    BY <1>5, <1>6, <1>7
  <2> QED BY <1>2, <1>4, <2>1 DEF r
<1> QED BY <1>1, <1>2, <1>6, <1>7, <1>8 DEF RestIsInput, r, l

\* Numbers of a place in the text.
LEMMA PlaceTaken ==
    ASSUME Layout, RestIsInput, rest \in Seq(Symbol)
    PROVE  /\ Taken \in Nat /\ Taken <= Len(input) /\ Len(input) \in Nat /\ Len(rest) \in Nat
           /\ Len(input) = Taken + Len(rest)
           /\ rest # <<>> <=> Taken < Len(input)
           /\ rest # <<>> => Len(rest) # 0
<1> DEFINE r == Len(rest)
           l == Len(input)
<1>1. r \in Nat /\ l \in Nat /\ r <= l /\ Taken = l - r
  BY LenProperties DEF Layout, RestIsInput, Taken
<1>2. rest # <<>> <=> r # 0
  OBVIOUS
<1> HIDE DEF r, l
<1>3. Taken \in Nat /\ Taken <= l /\ l = Taken + r /\ (r # 0 <=> Taken < l)
  BY <1>1
<1> QED BY <1>1, <1>2, <1>3 DEF r, l

LEMMA TextAtHeader ==
    ASSUME Layout, RestIsInput, rest \in Seq(Symbol), rest # <<>>,
           NEW k \in 1 .. Len(frames), NEW j \in 0 .. Len(Header(k)), j < Len(Header(k)),
           Taken = LineAt(k, j)
    PROVE  /\ rest[1] = Header(k)[j + 1] /\ rest[1] \in HeaderSymbol
           /\ BeginsWithEnd(Drop(rest, 1), EndOfLine(k))
           /\ EndOfLine(k) \in {<<NL>>, <<CR, NL>>}
<1>1. /\ Taken \in Nat /\ Len(rest) \in Nat /\ Len(input) = Taken + Len(rest) /\ Len(rest) # 0
      /\ Len(Header(k)) \in Nat /\ frames[k] \in Frame /\ Len(EndOfLine(k)) \in 1 .. 2
  BY PlaceTaken, Places
<1>2. HasFrameAt(k) /\ j \in 0 .. Len(Header(k)) - 1
  BY <1>1 DEF Layout
<1>3. /\ Taken + 1 <= Len(input) => input[Taken + 1] = Header(k)[j + 1]
      /\ \A x \in 1 .. Len(EndOfLine(k)) :
           Taken + 1 + x <= Len(input) => input[Taken + 1 + x] = EndOfLine(k)[x]
  BY <1>2 DEF HasFrameAt
<1>4. \A i \in 1 .. Len(rest) : rest[i] = input[Taken + i]
  BY DEF RestIsInput
<1>5. Header(k)[j + 1] \in HeaderSymbol /\ EndOfLine(k) \in {<<NL>>, <<CR, NL>>}
  <2>1. j + 1 \in 1 .. Len(Header(k))
    BY <1>1
  <2> QED BY <1>1, <2>1, FrameTyped DEF Header, EndOfLine
<1> DEFINE r == Len(rest)
           l == Len(input)
           more == Drop(rest, 1)
<1>6. r \in Nat /\ r # 0 /\ l = Taken + r /\ Taken \in Nat
  BY <1>1
<1>7. Len(more) = r - 1 /\ \A i \in 1 .. r - 1 : more[i] = rest[1 + i]
  <2>1. 1 \in 0 .. Len(rest)
    BY <1>1
  <2> QED BY <2>1, DropShape
<1> HIDE DEF r, l, more
<1>8. rest[1] = Header(k)[j + 1]
  <2>1. Taken + 1 <= l /\ 1 \in 1 .. r
    BY <1>6
  <2> QED BY <1>3, <1>4, <2>1 DEF r, l
<1>9. ASSUME NEW x \in 1 .. Len(EndOfLine(k)), x <= Len(more)
      PROVE  more[x] = EndOfLine(k)[x]
  <2>1. x \in Nat /\ x # 0 /\ x <= r - 1
    BY <1>1, <1>7, <1>9
  <2>2. Taken + 1 + x <= l /\ x \in 1 .. r - 1 /\ 1 + x \in 1 .. r /\ Taken + (1 + x) = Taken + 1 + x
    BY <1>6, <2>1
  <2> QED BY <1>3, <1>4, <1>7, <2>2 DEF r, l
<1> QED BY <1>5, <1>8, <1>9 DEF BeginsWithEnd, more

LEMMA TextAtEmptyLine ==
    ASSUME Layout, RestIsInput, rest \in Seq(Symbol),
           NEW k \in 1 .. Len(frames), Taken = EmptyLineAt(k)
    PROVE  BeginsWithEnd(rest, EndOfLine(k)) /\ EndOfLine(k) \in {<<NL>>, <<CR, NL>>}
<1>1. /\ Taken \in Nat /\ Len(rest) \in Nat /\ Len(input) = Taken + Len(rest)
      /\ frames[k] \in Frame /\ Len(EndOfLine(k)) \in 1 .. 2 /\ HasFrameAt(k)
  BY PlaceTaken, Places DEF Layout
<1>2. \A x \in 1 .. Len(EndOfLine(k)) :
        Taken + x <= Len(input) => input[Taken + x] = EndOfLine(k)[x]
  BY <1>1 DEF HasFrameAt
<1>3. \A i \in 1 .. Len(rest) : rest[i] = input[Taken + i]
  BY DEF RestIsInput
<1>4. ASSUME NEW x \in 1 .. Len(EndOfLine(k)), x <= Len(rest)
      PROVE  rest[x] = EndOfLine(k)[x]
  <2> DEFINE r == Len(rest)
             l == Len(input)
             e == Len(EndOfLine(k))
  <2>1. x \in 1 .. e /\ e \in Nat /\ x <= r /\ l = Taken + r /\ Taken \in Nat /\ r \in Nat
    BY <1>1, <1>4
  <2> HIDE DEF r, l, e
  <2>2. x \in 1 .. r /\ Taken + x <= l
    BY <2>1
  <2> QED BY <1>2, <1>3, <2>2 DEF r, l
<1>5. EndOfLine(k) \in {<<NL>>, <<CR, NL>>}
  BY <1>1, FrameTyped DEF EndOfLine
<1> QED BY <1>4, <1>5 DEF BeginsWithEnd

\* The NL that a signal left of an empty line.
LEMMA TextAtNewLine ==
    ASSUME Layout, RestIsInput, rest \in Seq(Symbol), rest # <<>>,
           NEW k \in 1 .. Len(frames), EndOfLine(k) = <<CR, NL>>, Taken = EmptyLineAt(k) + 1
    PROVE  BeginsWithEnd(rest, <<NL>>) /\ BodyAt(k) = Taken + 1
<1>1. /\ Taken \in Nat /\ Len(rest) \in Nat /\ Len(input) = Taken + Len(rest) /\ Len(rest) # 0
      /\ EmptyLineAt(k) \in Nat /\ BodyAt(k) = EmptyLineAt(k) + Len(EndOfLine(k)) /\ HasFrameAt(k)
  BY PlaceTaken, Places DEF Layout
<1>2. Len(EndOfLine(k)) = 2 /\ EndOfLine(k)[2] = NL
  OBVIOUS
<1>3. EmptyLineAt(k) + 2 <= Len(input) => input[EmptyLineAt(k) + 2] = NL
  <2>1. 2 \in 1 .. Len(EndOfLine(k))
    BY <1>2
  <2> QED BY <1>1, <1>2, <2>1 DEF HasFrameAt
<1> DEFINE r == Len(rest)
           l == Len(input)
<1>4. r \in Nat /\ r # 0 /\ l = Taken + r /\ Taken \in Nat
  BY <1>1
<1> HIDE DEF r, l
<1>5. 1 \in 1 .. r /\ Taken + 1 <= l /\ Taken + 1 = EmptyLineAt(k) + 2
  BY <1>1, <1>4, SMTT(30)
<1>6. rest[1] = input[Taken + 1]
  BY <1>5 DEF RestIsInput, r
<1>7. rest[1] = NL
  BY <1>3, <1>5, <1>6 DEF l
<1>8. BeginsWithEnd(rest, <<NL>>)
  BY <1>7 DEF BeginsWithEnd
<1>9. BodyAt(k) = Taken + 1
  BY <1>1, <1>2
<1> QED BY <1>8, <1>9

\* A content that is read as lines: its lines end in it, and none is a length.
LEMMA TextAtOwnLine ==
    ASSUME Layout, RestIsInput, rest \in Seq(Symbol), rest # <<>>,
           NEW k \in 1 .. Len(frames), OwnLines(Body(k)), BodyAt(k) <= Taken, Taken < ends[k]
    PROVE  /\ Terminated => Taken + Len(Line(rest)) + 1 <= ends[k]
           /\ ~Terminated => Line(rest) = rest /\ Len(input) <= ends[k]
           /\ \A i \in 1 .. Len(Line(rest)) : rest[i] \in Symbol /\ rest[i].kind # "length"
           /\ Len(Line(rest)) \in 0 .. Len(rest)
           /\ ~IsLength(Trim(Line(rest)))
           /\ Line(rest) = <<>> => NL \in Range(Body(k))
<1> DEFINE r == Len(rest)
           l == Len(input)
           b == Len(Body(k))
           n == Len(Line(rest))
<1>1. /\ Taken \in Nat /\ r \in Nat /\ l = Taken + r /\ r # 0 /\ l \in Nat
      /\ BodyAt(k) \in Nat /\ b \in Nat /\ ends[k] = BodyAt(k) + b
      /\ frames[k] \in Frame
  BY PlaceTaken, Places
<1>2. \A x \in 1 .. b : BodyAt(k) + x <= l => input[BodyAt(k) + x] = Body(k)[x]
  BY DEF HasFrameAt, Layout
<1>3. \A i \in 1 .. r : rest[i] = input[Taken + i] /\ rest[i] \in Symbol
  BY ElementOfSeq DEF RestIsInput
<1>4. /\ Line(rest) \in Seq(Symbol) /\ n \in 0 .. r
      /\ \A i \in 1 .. n : Line(rest)[i] = rest[i] /\ rest[i] # NL
      /\ ~Terminated => Line(rest) = rest
      /\ Terminated => n + 1 <= r /\ rest[n + 1] = NL
  BY LineShape DEF Terminated
<1>5. ~Terminated => n = r
  BY <1>4
<1>6. /\ Body(k) # <<>> => b # 0 /\ Body(k)[b] = NL
      /\ \A x \in 1 .. b : Body(k)[x].kind # "length"
      /\ b = 0 => Body(k) = <<>>
  <2>1. Body(k) \in Seq(Symbol) /\ DOMAIN Body(k) = 1 .. b
    BY <1>1, FrameTyped, LenProperties DEF Body
  <2>2. Body(k) # <<>> => b # 0
    BY <2>1
  <2>3. Body(k) # <<>> => Body(k)[b] = NL
    BY DEF OwnLines, Last
  <2>4. b = 0 => Body(k) = <<>>
    BY <2>1
  <2> QED BY <2>1, <2>2, <2>3, <2>4 DEF OwnLines
<1> DEFINE begin == BodyAt(k)
           t == Taken
<1>7. /\ t \in Nat /\ r \in Nat /\ r # 0 /\ l = t + r /\ begin \in Nat /\ b \in Nat
      /\ ends[k] = begin + b /\ begin <= t /\ t < begin + b /\ n \in Nat /\ n <= r
  BY <1>1, <1>4
<1> HIDE DEF r, l, b, n, begin, t
\* What is in front of the end of the content is what the client wrote there.
<1>8. ASSUME NEW i \in 1 .. r, t + i <= begin + b
      PROVE  t + i - begin \in 1 .. b /\ rest[i] = Body(k)[t + i - begin]
  <2>1. t + i - begin \in 1 .. b /\ begin + (t + i - begin) = t + i /\ t + i <= l
    BY <1>7, <1>8
  <2> QED BY <1>2, <1>3, <2>1 DEF begin, t
\* Its last symbol is a new line, and not behind the end of the line.
<1>9. begin + b <= l => /\ begin + b - t \in 1 .. r /\ rest[begin + b - t] = NL
                        /\ ~(begin + b - t \in 1 .. n)
  <2>1. SUFFICES ASSUME begin + b <= l
                 PROVE  /\ begin + b - t \in 1 .. r /\ rest[begin + b - t] = NL
                        /\ ~(begin + b - t \in 1 .. n)
    OBVIOUS
  <2>2. /\ begin + b - t \in 1 .. r /\ t + (begin + b - t) = begin + b
        /\ t + (begin + b - t) - begin = b /\ b # 0
    BY <1>7, <2>1
  <2>3. t + (begin + b - t) <= begin + b
    BY <1>7, <2>2
  <2>4. rest[begin + b - t] = Body(k)[b]
    BY <1>8, <2>2, <2>3
  <2>5. Body(k) # <<>>
    BY <2>2 DEF b
  <2> QED BY <1>4, <1>6, <2>2, <2>4, <2>5 DEF n
<1>10. Terminated => t + n + 1 <= begin + b
  <2>1. Terminated => n + 1 <= r
    BY <1>4 DEF n, r
  <2>2. begin + b <= l \/ l < begin + b
    BY <1>7
  <2>3. begin + b <= l => n < begin + b - t
    BY <1>7, <1>9
  <2>4. begin + b <= l => t + n + 1 <= begin + b
    BY <1>7, <2>3
  <2>5. l < begin + b /\ n + 1 <= r => t + n + 1 <= begin + b
    BY <1>7
  <2> QED BY <2>1, <2>2, <2>4, <2>5
<1>11. ~Terminated => l <= begin + b
  <2>1. ~Terminated => n = r
    BY <1>5 DEF n, r
  <2>2. ~(begin + b <= l /\ n = r)
    BY <1>7, <1>9
  <2>3. begin + b <= l \/ l <= begin + b
    BY <1>7
  <2> QED BY <2>1, <2>2, <2>3
<1>12. ASSUME NEW i \in 1 .. n
       PROVE  rest[i] \in Symbol /\ rest[i].kind # "length"
  <2>1. i \in 1 .. r /\ (Terminated \/ ~Terminated)
    BY <1>7
  <2>2. t + n + 1 <= begin + b => t + i <= begin + b
    BY <1>7
  <2>3. l <= begin + b => t + i <= begin + b
    BY <1>7
  <2>4. t + i <= begin + b
    BY <1>10, <1>11, <2>1, <2>2, <2>3
  <2> QED BY <1>3, <1>6, <1>8, <2>1, <2>4 DEF r, b
<1>13. ~IsLength(Trim(Line(rest)))
  <2>1. ASSUME IsLength(Trim(Line(rest)))
        PROVE  FALSE
    <3>1. 1 \in 1 .. Len(Line(rest)) /\ Trim(Line(rest))[1] = Line(rest)[1]
      BY <1>4, <2>1, TrimFirst DEF IsLength
    <3> QED BY <1>4, <1>12, <2>1, <3>1 DEF IsLength, n
  <2> QED BY <2>1
<1>14. ASSUME Line(rest) = <<>>
       PROVE  NL \in Range(Body(k))
  <2>1. n = 0
    BY <1>14 DEF n
  <2>2. Terminated
    BY <1>5, <1>7, <2>1 DEF n, r
  <2>3. rest[1] = NL /\ t + 1 <= begin + b /\ 1 \in 1 .. r
    <3>1. n + 1 = 1 /\ t + n + 1 = t + 1
      BY <1>7, <2>1
    <3> QED BY <1>4, <1>7, <1>10, <2>2, <3>1 DEF n, r
  <2>4. t + 1 - begin \in 1 .. b /\ rest[1] = Body(k)[t + 1 - begin]
    BY <1>8, <2>3
  <2>5. Body(k) \in Seq(Symbol) /\ DOMAIN Body(k) = 1 .. b
    BY <1>1, FrameTyped, LenProperties DEF Body, b
  <2> QED BY <2>3, <2>4, <2>5 DEF Range
<1> QED BY <1>4, <1>7, <1>10, <1>11, <1>12, <1>13, <1>14 DEF n, r, l, b, begin, t

-----------------------------------------------------------------------------
(***************************************************************************)
(* From place to place.                                                    *)
(***************************************************************************)
LEMMA WrittenIndex ==
    ASSUME Layout, NEW k \in Written
    PROVE  k \in 1 .. Len(frames) /\ BeginOf(k) < Len(input)
BY DEF Layout, Written

LEMMA LastLengthGrows ==
    ASSUME NEW f \in Frame, NEW j \in 0 .. Len(f.header) - 1, NEW length, LastLength(f, j, length)
    PROVE  LastLength(f, j + 1, IF f.header[j + 1].kind = "length" THEN f.header[j + 1].value
                                ELSE length)
<1>1. j \in Nat /\ Len(f.header) \in Nat
  BY FrameTyped
<1>2. j + 1 \in 1 .. j + 1 /\ \A m \in (j + 1) + 1 .. j + 1 : FALSE
  BY <1>1
<1>3. CASE f.header[j + 1].kind = "length"
  BY <1>2, <1>3 DEF LastLength
<1>4. CASE f.header[j + 1].kind # "length"
  <2>0. \A n \in 1 .. j + 1 : n \in 1 .. j \/ n = j + 1
    BY <1>1
  <2>1. CASE length = 0 /\ \A n \in 1 .. j : f.header[n].kind # "length"
    BY <1>4, <2>0, <2>1 DEF LastLength
  <2>2. CASE ~(length = 0 /\ \A n \in 1 .. j : f.header[n].kind # "length")
    <3>1. PICK n \in 1 .. j :
            /\ f.header[n].kind = "length" /\ f.header[n].value = length
            /\ \A m \in n + 1 .. j : f.header[m].kind # "length"
      BY <2>2 DEF LastLength
    <3>2. n \in 1 .. j + 1
      BY <1>1
    <3>3. \A m \in n + 1 .. j + 1 : m \in n + 1 .. j \/ m = j + 1
      BY <1>1
    <3> QED BY <1>4, <3>1, <3>2, <3>3 DEF LastLength
  <2> QED BY <2>1, <2>2
<1> QED BY <1>3, <1>4

\* A whole line is read.
LEMMA LineMoves ==
    ASSUME Layout, RestIsInput, rest \in Seq(Symbol), ReadLine
    PROVE  /\ RestIsInput' /\ Taken' = Taken + (Len(Line(rest)) + 1)
           /\ UNCHANGED clientVars /\ NewLines(rest) # {} /\ Terminated
<1>1. UNCHANGED clientVars /\ NewLines(rest) # {} /\ rest' = Drop(rest, Len(Line(rest)) + 1)
  BY DEF ReadLine, Terminated
<1>2. Len(Line(rest)) \in 0 .. Len(rest) /\ Len(Line(rest)) + 1 <= Len(rest) /\ Len(rest) \in Nat
  BY <1>1, LineShape, LenProperties
<1>3. Len(Line(rest)) + 1 \in 0 .. Len(rest)
  BY <1>2
<1> QED BY <1>1, <1>3, RestMoves DEF Terminated

LEMMA ReadHeaderLine ==
    ASSUME Layout, RestIsInput, rest \in Seq(Symbol), rest # <<>>, ReadLine, content_length \in Nat,
           NEW k \in 1 .. Len(frames), NEW j \in 0 .. Len(Header(k)), j < Len(Header(k)),
           AtHeader(k, j)
    PROVE  /\ Taken' = LineAt(k, j + 1) /\ RestIsInput' /\ delivered' = delivered
           /\ pc' = "aborted" \/ AtHeader(k, j + 1)'
<1> DEFINE s == rest[1]
           f == frames[k]
<1>1. /\ UNCHANGED clientVars /\ NewLines(rest) # {} /\ delivered' = delivered
      /\ TestLine(Trim(Line(rest)))
      /\ RestIsInput' /\ Taken' = Taken + (Len(Line(rest)) + 1)
  BY LineMoves DEF ReadLine
<1>2. /\ Taken = LineAt(k, j) /\ LastLength(f, j, content_length)
  BY DEF AtHeader
<1>3. s = Header(k)[j + 1] /\ s \in HeaderSymbol /\ BeginsWithEnd(Drop(rest, 1), EndOfLine(k))
      /\ EndOfLine(k) \in {<<NL>>, <<CR, NL>>}
  BY <1>2, TextAtHeader
<1>4. Trim(Line(rest)) = <<s>> /\ Len(Line(rest)) = Len(EndOfLine(k))
  BY <1>1, <1>3, HeaderLine
<1>5. /\ f \in Frame /\ Width(f) = 1 + Len(EndOfLine(k)) /\ Len(EndOfLine(k)) \in Nat
      /\ Taken \in Nat /\ Len(Header(k)) \in Nat
  BY Places, PlaceTaken
<1>6. LineAt(k, j + 1) = LineAt(k, j) + Width(f)
  BY HeaderPlaces
<1>7. Taken' = LineAt(k, j + 1)
  BY <1>1, <1>2, <1>4, <1>5, <1>6
<1>8. LastLength(f, j + 1, IF s.kind = "length" THEN s.value ELSE content_length)
  <2>1. j \in 0 .. Len(f.header) - 1
    BY <1>5 DEF Header
  <2>2. s = f.header[j + 1]
    BY <1>3 DEF Header
  <2> HIDE DEF s, f
  <2> QED BY <1>2, <1>5, <2>1, <2>2, LastLengthGrows
<1>9. <<s>> # <<>> /\ (IsLength(<<s>>) <=> s.kind = "length") /\ <<s>>[1] = s
  BY DEF IsLength
<1>10. s.value \in Nat
  BY <1>3 DEF HeaderSymbol, Symbol
<1>11. CASE s.kind = "length" /\ s.value > UnsignedMax
  <2>1. pc' = "aborted"
    BY <1>1, <1>4, <1>9, <1>11 DEF TestLine
  <2> QED BY <1>1, <1>7, <2>1
<1>12. CASE ~(s.kind = "length" /\ s.value > UnsignedMax)
  <2>1. s.kind = "length" => s.value <= UnsignedMax
    BY <1>10, <1>12, LimitsAssumption
  <2>2. pc' = "header"
        /\ content_length' = IF s.kind = "length" THEN s.value ELSE content_length
    BY <1>1, <1>4, <1>9, <1>12, <2>1 DEF TestLine
  <2>3. frames' = frames /\ LineAt(k, j + 1)' = LineAt(k, j + 1)
    BY <1>1, ClientStays DEF clientVars
  <2>4. AtHeader(k, j + 1)'
    BY <1>7, <1>8, <2>2, <2>3 DEF AtHeader
  <2> QED BY <1>1, <1>7, <2>4
<1> QED BY <1>11, <1>12

LEMMA ReadEmptyLine ==
    ASSUME Layout, RestIsInput, rest \in Seq(Symbol), rest # <<>>, ReadLine,
           NEW k \in 1 .. Len(frames), AtHeader(k, Len(Header(k))) \/ AtNewLine(k)
    PROVE  Taken' = BodyAt(k) /\ RestIsInput' /\ delivered' = delivered /\ AtBody(k)'
<1>1. /\ UNCHANGED clientVars /\ NewLines(rest) # {} /\ delivered' = delivered
      /\ TestLine(Trim(Line(rest)))
      /\ RestIsInput' /\ Taken' = Taken + (Len(Line(rest)) + 1)
  BY LineMoves DEF ReadLine
<1>2. /\ Taken \in Nat /\ Len(rest) \in Nat /\ Len(Line(rest)) \in 0 .. Len(rest)
      /\ EmptyLineAt(k) \in Nat
      /\ LineAt(k, Len(Header(k))) = EmptyLineAt(k)
      /\ BodyAt(k) = EmptyLineAt(k) + Len(EndOfLine(k)) /\ Len(EndOfLine(k)) \in 1 .. 2
  BY Places, PlaceTaken, LineShape
<1>3. Trim(Line(rest)) = <<>> /\ Taken + (Len(Line(rest)) + 1) = BodyAt(k)
  <2>1. CASE AtHeader(k, Len(Header(k)))
    <3>1. Taken = EmptyLineAt(k)
      BY <1>2, <2>1 DEF AtHeader
    <3>2. BeginsWithEnd(rest, EndOfLine(k)) /\ EndOfLine(k) \in {<<NL>>, <<CR, NL>>}
      BY <3>1, TextAtEmptyLine
    <3>3. Trim(Line(rest)) = <<>> /\ Len(Line(rest)) + 1 = Len(EndOfLine(k))
      BY <1>1, <3>2, EmptyLine
    <3> QED BY <1>2, <3>1, <3>3
  <2>2. CASE AtNewLine(k)
    <3>1. Taken = EmptyLineAt(k) + 1 /\ EndOfLine(k) = <<CR, NL>>
      BY <2>2 DEF AtNewLine, EndOfLine
    <3>2. BeginsWithEnd(rest, <<NL>>) /\ BodyAt(k) = Taken + 1
      BY <3>1, TextAtNewLine
    <3>3. Trim(Line(rest)) = <<>> /\ Len(Line(rest)) + 1 = Len(<<NL>>)
      BY <1>1, <3>2, EmptyLine
    <3>4. Len(<<NL>>) = 1
      OBVIOUS
    <3> QED BY <1>2, <3>2, <3>3, <3>4
  <2> QED BY <2>1, <2>2
<1>4. LastLength(frames[k], Len(Header(k)), content_length)
  BY DEF AtHeader, AtNewLine, Header
<1>5. ~IsLength(<<>>)
  BY DEF IsLength
<1>6. pc' = "size" /\ content_length' = content_length
  BY <1>1, <1>3, <1>5 DEF TestLine
<1>7. frames' = frames /\ BodyAt(k)' = BodyAt(k)
  BY <1>1, ClientStays DEF clientVars
<1>8. AtBody(k)'
  BY <1>1, <1>3, <1>4, <1>6, <1>7 DEF AtBody, Header
<1> QED BY <1>1, <1>3, <1>8

LEMMA ReadOwnLine ==
    ASSUME Layout, RestIsInput, rest \in Seq(Symbol), rest # <<>>, ReadLine,
           NEW k \in 1 .. Len(frames), AtOwnLine(k)
    PROVE  /\ Taken < Taken' /\ Taken' <= ends[k] /\ RestIsInput' /\ delivered' = delivered
           /\ pc' \in {"header", "size"} /\ content_length' = 0
<1>1. /\ NewLines(rest) # {} /\ Terminated /\ delivered' = delivered
      /\ TestLine(Trim(Line(rest))) /\ pc = "header"
      /\ RestIsInput' /\ Taken' = Taken + (Len(Line(rest)) + 1)
  BY LineMoves DEF ReadLine
<1>2. OwnLines(Body(k)) /\ BodyAt(k) <= Taken /\ Taken < ends[k] /\ content_length = 0
  BY <1>1 DEF AtOwnLine, Body
<1>3. /\ Taken + Len(Line(rest)) + 1 <= ends[k] /\ ~IsLength(Trim(Line(rest)))
      /\ Len(Line(rest)) \in 0 .. Len(rest)
  BY <1>1, <1>2, TextAtOwnLine
<1>4. Taken \in Nat /\ Len(rest) \in Nat /\ ends[k] \in Nat
  BY Places, PlaceTaken
<1>5. Taken < Taken' /\ Taken' <= ends[k]
  BY <1>1, <1>3, <1>4
<1>6. pc' \in {"header", "size"} /\ content_length' = 0
  BY <1>1, <1>2, <1>3 DEF TestLine
<1> QED BY <1>1, <1>5, <1>6

\* Where the input ends, if it ends in the line that is read.
LEMMA LastLineEnds ==
    ASSUME Layout, RestIsInput, rest \in Seq(Symbol), rest # <<>>, pc = "header", ~Terminated,
           NEW k \in 1 .. Len(frames), At(k)
    PROVE  Len(input) <= ends[k] /\ (~AtOwnLine(k) => Len(input) < BodyAt(k))
<1> DEFINE h == Len(Header(k))
           r == Len(rest)
           l == Len(input)
           e == Len(EndOfLine(k))
<1>1. /\ Taken \in Nat /\ r \in Nat /\ l \in Nat /\ r # 0 /\ h \in Nat /\ e \in Nat
      /\ l = Taken + r /\ BodyAt(k) = EmptyLineAt(k) + e
      /\ EmptyLineAt(k) \in Nat /\ BodyAt(k) \in Nat /\ ends[k] \in Nat /\ BodyAt(k) <= ends[k]
      /\ Width(frames[k]) = 1 + e
      /\ LineAt(k, h) = EmptyLineAt(k)
      /\ NewLines(rest) = {}
  BY Places, PlaceTaken, SMTT(30) DEF Terminated
<1> HIDE DEF h, r, l, e
<1>2. l < BodyAt(k) => l <= ends[k]
  BY <1>1
<1>3. CASE AtOwnLine(k)
  <2>1. OwnLines(Body(k)) /\ BodyAt(k) <= Taken /\ Taken < ends[k]
    BY <1>3 DEF AtOwnLine, Body
  <2> QED BY <1>3, <2>1, TextAtOwnLine
<1>4. CASE AtNewLine(k)
  <2>1. Taken = EmptyLineAt(k) + 1 /\ EndOfLine(k) = <<CR, NL>>
    BY <1>4 DEF AtNewLine, EndOfLine
  <2>2. BeginsWithEnd(rest, <<NL>>)
    BY <2>1, TextAtNewLine
  <2>3. r < Len(<<NL>>) /\ Len(<<NL>>) = 1
    BY <1>1, <2>2, EmptyLine DEF r
  <2> QED BY <1>1, <2>3
<1>5. ASSUME NEW j \in 0 .. h, AtHeader(k, j)
      PROVE  l < BodyAt(k)
  <2>1. Taken = LineAt(k, j) /\ j \in 0 .. Len(Header(k))
    BY <1>5 DEF AtHeader, h
  <2>2. CASE j = h
    <3>1. Taken = EmptyLineAt(k)
      BY <1>1, <2>1, <2>2
    <3>2. BeginsWithEnd(rest, EndOfLine(k)) /\ EndOfLine(k) \in {<<NL>>, <<CR, NL>>}
      BY <3>1, TextAtEmptyLine
    <3>3. r < e
      BY <1>1, <3>2, EmptyLine DEF r, e
    <3> QED BY <1>1, <3>1, <3>3
  <2>3. CASE j # h
    <3>0. j < Len(Header(k))
      BY <1>1, <2>3 DEF h
    <3>1. rest[1] \in HeaderSymbol /\ BeginsWithEnd(Drop(rest, 1), EndOfLine(k))
          /\ EndOfLine(k) \in {<<NL>>, <<CR, NL>>}
      BY <2>1, <3>0, TextAtHeader
    <3>2. r <= e
      BY <1>1, <3>1, HeaderLine DEF r, e
    <3>3. /\ LineAt(k, j + 1) = Taken + Width(frames[k])
          /\ LineAt(k, j + 1) <= EmptyLineAt(k) /\ LineAt(k, j) \in Nat
      BY <2>1, <3>0, HeaderPlaces
    <3> QED BY <1>1, <3>2, <3>3
  <2> QED BY <2>2, <2>3
<1>6. ~AtFrame(k) /\ ~AtBody(k)
  BY DEF AtFrame, AtBody
<1>7. AtOwnLine(k) \/ AtNewLine(k) \/ \E j \in 0 .. h : AtHeader(k, j)
  BY <1>6 DEF At, h, Header
<1>8. CASE l < BodyAt(k)
  BY <1>2, <1>8 DEF l
<1> QED BY <1>3, <1>4, <1>5, <1>7, <1>8

LEMMA ConsDrop ==
    ASSUME NEW a \in Symbol, NEW t \in Seq(Symbol)
    PROVE  /\ <<a>> \o t \in Seq(Symbol) /\ <<a>> \o t # <<>> /\ (<<a>> \o t)[1] = a
           /\ Drop(<<a>> \o t, 1) = t
<1> DEFINE one == <<a>>
           s == one \o t
<1>1. one \in Seq(Symbol) /\ Len(one) = 1 /\ one[1] = a /\ Len(t) \in Nat
  BY LenProperties
<1> HIDE DEF one
<1>2. /\ s \in Seq(Symbol) /\ Len(s) = 1 + Len(t)
      /\ \A i \in 1 .. Len(one) : s[i] = one[i]
      /\ \A i \in 1 .. Len(t) : s[1 + i] = t[i]
  <2>1. one \in Seq(Symbol) /\ t \in Seq(Symbol)
    BY <1>1
  <2>2. /\ one \o t \in Seq(Symbol) /\ Len(one \o t) = Len(one) + Len(t)
        /\ \A i \in 1 .. Len(one) : (one \o t)[i] = one[i]
        /\ \A i \in 1 .. Len(t) : (one \o t)[Len(one) + i] = t[i]
    BY <2>1, ConcatAt
  <2> QED BY <1>1, <2>2
<1> HIDE DEF s
<1>3. s[1] = a /\ s # <<>>
  BY <1>1, <1>2
<1>4. /\ Drop(s, 1) \in Seq(Symbol) /\ Len(Drop(s, 1)) = Len(s) - 1
      /\ \A i \in 1 .. Len(s) - 1 : Drop(s, 1)[i] = s[1 + i]
  <2>1. 1 \in 0 .. Len(s)
    BY <1>1, <1>2
  <2> QED BY <1>2, <2>1, DropShape
<1>5. Len(s) - 1 = Len(t)
  BY <1>1, <1>2
<1>6. Drop(s, 1) = t
  BY <1>2, <1>4, <1>5, SeqEqual
<1> QED BY <1>2, <1>3, <1>6 DEF s, one

LEMMA DropZero == ASSUME NEW t \in Seq(Symbol) PROVE Drop(t, 0) = t
<1>1. Len(t) \in Nat /\ 0 \in 0 .. Len(t)
  BY LenProperties
<1>2. /\ Drop(t, 0) \in Seq(Symbol) /\ Len(Drop(t, 0)) = Len(t) - 0
      /\ \A i \in 1 .. Len(t) - 0 : Drop(t, 0)[i] = t[0 + i]
  BY <1>1, DropShape
<1>3. Len(t) - 0 = Len(t) /\ \A i \in 1 .. Len(t) : 0 + i = i
  BY <1>1
<1>4. \A i \in 1 .. Len(t) : Drop(t, 0)[i] = t[i]
  BY <1>2, <1>3
<1> QED BY <1>2, <1>3, <1>4, SeqEqual

\* What is left of a torn text is a text.
LEMMA TornText ==
    ASSUME NEW t \in Seq(Symbol), NEW n \in 0 .. Len(t), n < Len(t), t[n + 1] = OtherText
    PROVE  <<OtherText>> \o Drop(t, n + 1) = Drop(t, n)
<1> DEFINE one == <<OtherText>>
           more == Drop(t, n + 1)
           s == one \o more
<1>0. Len(t) \in Nat /\ n \in Nat /\ n + 1 \in 0 .. Len(t)
  BY LenProperties
<1>1. /\ more \in Seq(Symbol) /\ Len(more) = Len(t) - (n + 1)
      /\ \A i \in 1 .. Len(t) - (n + 1) : more[i] = t[(n + 1) + i]
  BY <1>0, DropShape
<1>2. /\ Drop(t, n) \in Seq(Symbol) /\ Len(Drop(t, n)) = Len(t) - n
      /\ \A i \in 1 .. Len(t) - n : Drop(t, n)[i] = t[n + i]
  BY DropShape
<1>3. one \in Seq(Symbol) /\ Len(one) = 1 /\ one[1] = OtherText
  BY DEF OtherText, Symbol
<1> HIDE DEF one, more
<1>4. /\ s \in Seq(Symbol) /\ Len(s) = Len(one) + Len(more)
      /\ \A i \in 1 .. Len(one) : s[i] = one[i]
      /\ \A i \in 1 .. Len(more) : s[Len(one) + i] = more[i]
  <2>1. one \in Seq(Symbol) /\ more \in Seq(Symbol)
    BY <1>1, <1>3
  <2> QED BY <2>1, ConcatAt DEF s
<1> HIDE DEF s
<1>5. Len(s) = Len(t) - n
  BY <1>0, <1>1, <1>3, <1>4
<1>6. ASSUME NEW i \in 1 .. Len(t) - n
      PROVE  s[i] = Drop(t, n)[i]
  <2>1. CASE i = 1
    BY <1>2, <1>3, <1>4, <2>1
  <2>2. CASE i # 1
    <3>1. /\ i - 1 \in 1 .. Len(t) - (n + 1) /\ 1 + (i - 1) = i
          /\ (n + 1) + (i - 1) = n + i
      BY <1>0, <2>2
    <3>2. s[i] = more[i - 1]
      BY <1>1, <1>3, <1>4, <3>1
    <3> QED BY <1>1, <1>2, <3>1, <3>2
  <2> QED BY <2>1, <2>2
<1>7. s = Drop(t, n)
  BY <1>2, <1>4, <1>5, <1>6, SeqEqual
<1> QED BY <1>7 DEF s, one, more

LEMMA MeaningOf ==
    ASSUME NEW line
    PROVE  /\ Trim(line) = <<>> => Meaning(line) = NL
           /\ \A s : Trim(line) = <<s>> => Meaning(line) = IF s.kind = "length" THEN s ELSE OtherText
           /\ OtherText # NL /\ OtherText.kind = "text" /\ NL.kind = "nl" /\ CR.kind = "cr"
<1>1. \A s : <<s>> # <<>> /\ (IsLength(<<s>>) <=> s.kind = "length") /\ <<s>>[1] = s
  BY DEF IsLength
<1> QED BY <1>1 DEF Meaning, OtherText, NL, CR

\* What a signal behind n symbols leaves.
Remainder(text, n, torn) == IF torn THEN <<OtherText>> \o Drop(text, n + 1) ELSE Drop(text, n)

\* A signal in a line of a header that loses nothing leaves all of it.
LEMMA InterruptHeaderLine ==
    ASSUME NEW text \in Seq(Symbol), text # <<>>, NEW eol \in {<<NL>>, <<CR, NL>>},
           text[1] \in HeaderSymbol, BeginsWithEnd(Drop(text, 1), eol),
           NEW n \in 0 .. Len(Line(text)), NEW torn \in BOOLEAN,
           torn => n < Len(Line(text)) /\ text[n + 1].kind \in {"length", "text"},
           Meaning(Line(Remainder(text, n, torn))) = Meaning(Line(text))
    PROVE  n = 0 /\ Remainder(text, n, torn) = text
<1> DEFINE remainder == Remainder(text, n, torn)
           s == text[1]
           r == Len(text)
           e == Len(eol)
           more == Drop(text, 1)
<1>1. /\ r \in Nat /\ r # 0 /\ e \in 1 .. 2 /\ s \in HeaderSymbol /\ s \in Symbol
      /\ more \in Seq(Symbol) /\ Len(more) = r - 1 /\ \A i \in 1 .. r - 1 : more[i] = text[1 + i]
  <2>1. Len(text) \in Nat /\ Len(text) # 0 /\ 1 \in 0 .. Len(text)
    BY LenProperties
  <2>2. /\ Drop(text, 1) \in Seq(Symbol) /\ Len(Drop(text, 1)) = Len(text) - 1
        /\ \A i \in 1 .. Len(text) - 1 : Drop(text, 1)[i] = text[1 + i]
    BY <2>1, DropShape
  <2> QED BY <2>1, <2>2 DEF HeaderSymbol
<1>2. Trim(Line(text)) = <<s>> /\ Len(Line(text)) \in 1 .. e /\ Len(Line(text)) <= r
      /\ Len(Line(text)) \in Nat
  <2>1. Trim(Line(text)) = <<text[1]>> /\ Line(text) # <<>>
        /\ (NewLines(text) # {} => Len(Line(text)) = Len(eol))
        /\ (NewLines(text) = {} => Len(text) <= Len(eol) /\ Line(text) = text)
    BY HeaderLine
  <2>2. Len(Line(text)) \in 0 .. Len(text)
    BY LineShape
  <2>3. Len(Line(text)) <= e
    BY <2>1
  <2>4. Len(Line(text)) # 0
    BY <2>1, LineShape
  <2> QED BY <1>1, <2>1, <2>2, <2>3, <2>4
<1>3. \A i \in 1 .. e : i <= r - 1 => text[1 + i] = eol[i]
  <2>1. ASSUME NEW i \in 1 .. e, i <= r - 1
        PROVE  text[1 + i] = eol[i]
    <3>1. i \in 1 .. r - 1 /\ i <= Len(more)
      BY <1>1, <2>1
    <3>2. more[i] = eol[i]
      BY <3>1 DEF BeginsWithEnd
    <3> HIDE DEF more
    <3> QED BY <1>1, <3>1, <3>2
  <2> QED BY <2>1
<1>10. \A i \in 1 .. e : eol[i] \in {CR, NL}
  <2>1. eol = <<NL>> \/ eol = <<CR, NL>>
    OBVIOUS
  <2>2. CASE eol = <<NL>>
    BY <2>2
  <2>3. CASE eol = <<CR, NL>>
    BY <2>3
  <2> QED BY <2>1, <2>2, <2>3
<1>4. Meaning(Line(text)) = IF s.kind = "length" THEN s ELSE OtherText
  BY <1>2, MeaningOf
<1>5. /\ OtherText # NL /\ OtherText.kind = "text" /\ NL.kind = "nl" /\ CR.kind = "cr"
      /\ OtherText \in HeaderSymbol /\ OtherText \in Symbol
  BY MeaningOf DEF OtherText, HeaderSymbol, Symbol
<1>6. Meaning(Line(remainder)) # NL
  BY <1>4, <1>5
<1>11. remainder = IF torn THEN <<OtherText>> \o Drop(text, n + 1) ELSE Drop(text, n)
  BY DEF Remainder
<1>12. Meaning(Line(remainder)) = Meaning(Line(text))
  OBVIOUS
<1> HIDE DEF s, r, e, more, remainder
<1>7. n \in Nat /\ n <= e /\ n <= r
  BY <1>1, <1>2
<1>8. CASE n = 0
  <2>1. CASE ~torn
    <3>1. remainder = Drop(text, 0)
      BY <1>8, <1>11, <2>1
    <3> QED BY <1>8, <3>1, DropZero DEF remainder
  <2>2. CASE torn /\ s.kind = "text"
    <3>1. s = OtherText
      BY <1>1, <2>2 DEF Symbol, OtherText
    <3>2. 0 \in 0 .. Len(text) /\ 0 < Len(text) /\ text[0 + 1] = OtherText
      BY <1>1, <3>1 DEF r, s
    <3>3. <<OtherText>> \o Drop(text, 0 + 1) = Drop(text, 0)
      BY <3>2, TornText
    <3>4. remainder = Drop(text, 0)
      BY <1>8, <1>11, <2>2, <3>3
    <3> QED BY <1>8, <3>4, DropZero DEF remainder
  <2>3. CASE torn /\ s.kind # "text"
    <3>1. s.kind = "length"
      BY <1>1, <2>3 DEF HeaderSymbol
    <3>2. remainder = <<OtherText>> \o more
      BY <1>8, <1>11, <2>3 DEF more
    <3>3. /\ remainder \in Seq(Symbol) /\ remainder # <<>> /\ remainder[1] = OtherText
          /\ Drop(remainder, 1) = more
      <4>1. OtherText \in Symbol /\ more \in Seq(Symbol)
        BY <1>1, <1>5
      <4>2. /\ <<OtherText>> \o more \in Seq(Symbol) /\ <<OtherText>> \o more # <<>>
            /\ (<<OtherText>> \o more)[1] = OtherText /\ Drop(<<OtherText>> \o more, 1) = more
        BY ONLY <4>1, ConsDrop
      <4> QED BY <3>2, <4>2
    <3>4. BeginsWithEnd(Drop(remainder, 1), eol) /\ remainder[1] \in HeaderSymbol
      BY <1>5, <3>3 DEF more
    <3>5. Trim(Line(remainder)) = <<remainder[1]>>
      BY <3>3, <3>4, HeaderLine
    <3>6. Meaning(Line(remainder)) = OtherText
      BY <1>5, <3>3, <3>5, MeaningOf
    <3>7. s # OtherText
      BY <1>5, <3>1
    <3> QED BY <1>4, <1>12, <3>1, <3>6, <3>7
  <2> QED BY <2>1, <2>2, <2>3
<1>9. CASE n # 0
  <2>1. CASE torn
    <3>1. n < Len(Line(text)) /\ text[n + 1].kind \in {"length", "text"}
      BY <2>1
    <3>2. n \in 1 .. e /\ n <= r - 1 /\ n + 1 = 1 + n
      BY <1>1, <1>2, <1>7, <1>9, <3>1
    <3>3. text[n + 1] = eol[n]
      BY <1>3, <3>2
    <3>4. eol[n] \in {CR, NL}
      BY <1>10, <3>2
    <3> QED BY <1>5, <3>1, <3>3, <3>4
  <2>2. CASE ~torn /\ n = 1
    <3>1. remainder = more
      BY <1>11, <2>2 DEF more
    <3>2. Trim(Line(remainder)) = <<>>
      BY <1>1, <3>1, EmptyLine DEF more
    <3> QED BY <1>6, <3>2, MeaningOf
  <2>3. CASE ~torn /\ n # 1
    <3>1. n = 2 /\ e = 2
      BY <1>1, <1>7, <1>9, <2>3
    <3>2. eol = <<CR, NL>>
      BY <3>1 DEF e
    <3>3. remainder = Drop(text, 2) /\ 2 \in 0 .. Len(text)
      BY <1>1, <1>7, <1>11, <2>3, <3>1 DEF r
    <3>4. /\ remainder \in Seq(Symbol) /\ Len(remainder) = Len(text) - 2
          /\ \A i \in 1 .. Len(text) - 2 : remainder[i] = text[2 + i]
      BY <3>3, DropShape
    <3>5. ASSUME 1 <= Len(remainder)
          PROVE  remainder[1] = NL
      <4>1. 1 \in 1 .. Len(text) - 2 /\ 2 \in 1 .. e /\ 2 <= r - 1 /\ 1 + 2 = 2 + 1
        BY <1>1, <3>1, <3>4, <3>5 DEF r
      <4>2. remainder[1] = eol[2]
        BY <1>3, <3>4, <4>1
      <4> QED BY <3>2, <4>2
    <3>6. BeginsWithEnd(remainder, <<NL>>)
      BY <3>5 DEF BeginsWithEnd
    <3>7. Trim(Line(remainder)) = <<>>
      BY <3>4, <3>6, EmptyLine
    <3> QED BY <1>6, <3>7, MeaningOf
  <2> QED BY <2>1, <2>2, <2>3
<1> QED BY <1>8, <1>9

\* A signal in a line that loses nothing: what is dropped of the line does not matter.
LEMMA InterruptMoves ==
    ASSUME Layout, RestIsInput, rest \in Seq(Symbol), rest # <<>>, InterruptLine, ~disturbed',
           NEW k \in 1 .. Len(frames), At(k), interrupts \in Nat
    PROVE  \E n \in 0 .. Len(Line(rest)) :
             /\ rest' = Drop(rest, n)
             /\ \A j \in 0 .. Len(Header(k)) : AtHeader(k, j) /\ j < Len(Header(k)) => n = 0
             /\ AtHeader(k, Len(Header(k))) /\ n # 0 => n = 1 /\ EndOfLine(k) = <<CR, NL>>
             /\ AtNewLine(k) => n = 0
<1>1. PICK n \in 0 .. Len(Line(rest)), torn \in BOOLEAN :
        /\ torn => n < Len(Line(rest)) /\ rest[n + 1].kind \in {"length", "text"}
        /\ rest' = Remainder(rest, n, torn)
        /\ disturbed' = (disturbed \/ Meaning(Line(rest')) # Meaning(Line(rest)))
  BY DEF InterruptLine, Remainder
<1>2. /\ Meaning(Line(rest')) = Meaning(Line(rest)) /\ pc = "header"
      /\ Len(Line(rest)) \in 0 .. Len(rest) /\ Len(rest) \in Nat /\ n \in Nat
      /\ Len(Header(k)) \in Nat
  <2>1. Meaning(Line(rest')) = Meaning(Line(rest))
    BY <1>1, Zenon
  <2>2. pc = "header"
    BY DEF InterruptLine
  <2>3. Len(Line(rest)) \in 0 .. Len(rest) /\ Len(rest) \in Nat
    BY LineShape, LenProperties
  <2>4. Len(Header(k)) \in Nat
    BY Places
  <2> QED BY <2>1, <2>2, <2>3, <2>4
<1>3. rest' = Drop(rest, 0) => rest' = rest
  BY DropZero
<1>4. ASSUME NEW j \in 0 .. Len(Header(k)), AtHeader(k, j), j < Len(Header(k))
      PROVE  n = 0 /\ rest' = Drop(rest, n)
  <2>1. Taken = LineAt(k, j)
    BY <1>4 DEF AtHeader
  <2>2. rest[1] \in HeaderSymbol /\ BeginsWithEnd(Drop(rest, 1), EndOfLine(k))
        /\ EndOfLine(k) \in {<<NL>>, <<CR, NL>>}
    BY <1>4, <2>1, TextAtHeader
  <2>3. n = 0 /\ rest' = rest
    <3>1. /\ torn => n < Len(Line(rest)) /\ rest[n + 1].kind \in {"length", "text"}
          /\ Meaning(Line(Remainder(rest, n, torn))) = Meaning(Line(rest))
      BY <1>1, <1>2
    <3>2. n = 0 /\ Remainder(rest, n, torn) = rest
      BY <2>2, <3>1, InterruptHeaderLine
    <3> QED BY <1>1, <3>2
  <2> QED BY <2>3, DropZero
<1>5. ASSUME AtHeader(k, Len(Header(k))) \/ AtNewLine(k)
      PROVE  /\ rest' = Drop(rest, n)
             /\ n # 0 => n = 1 /\ EndOfLine(k) = <<CR, NL>> /\ AtHeader(k, Len(Header(k)))
             /\ n # 0 => ~AtNewLine(k)
  <2>1. \E eol \in {<<NL>>, <<CR, NL>>} :
          /\ BeginsWithEnd(rest, eol)
          /\ eol = <<CR, NL>> => EndOfLine(k) = eol /\ ~AtNewLine(k)
    <3>1. CASE AtNewLine(k)
      <4>1. Taken = EmptyLineAt(k) + 1 /\ EndOfLine(k) = <<CR, NL>>
        BY <3>1 DEF AtNewLine, EndOfLine
      <4>2. BeginsWithEnd(rest, <<NL>>) /\ <<NL>> # <<CR, NL>>
        BY <4>1, TextAtNewLine
      <4> QED BY <4>2
    <3>2. CASE ~AtNewLine(k)
      <4>1. Taken = EmptyLineAt(k)
        BY <1>5, <3>2, Places DEF AtHeader
      <4>2. BeginsWithEnd(rest, EndOfLine(k)) /\ EndOfLine(k) \in {<<NL>>, <<CR, NL>>}
        BY <4>1, TextAtEmptyLine
      <4> QED BY <3>2, <4>2
    <3> QED BY <3>1, <3>2
  <2>2. PICK eol \in {<<NL>>, <<CR, NL>>} :
          /\ BeginsWithEnd(rest, eol)
          /\ eol = <<CR, NL>> => EndOfLine(k) = eol /\ ~AtNewLine(k)
    BY <2>1
  <2>3. Len(Line(rest)) + 1 <= Len(eol) /\ rest[1] \in {CR, NL} /\ Len(eol) \in 1 .. 2
        /\ (Len(eol) = 2 => eol = <<CR, NL>>)
    <3>1. /\ NewLines(rest) # {} => Len(Line(rest)) + 1 = Len(eol)
          /\ NewLines(rest) = {} => Len(rest) < Len(eol) /\ Line(rest) = rest
          /\ rest[1] \in {CR, NL}
      BY <2>2, EmptyLine
    <3>2. Len(eol) \in 1 .. 2 /\ (Len(eol) = 2 => eol = <<CR, NL>>)
      BY SMTT(30)
    <3>3. Len(Line(rest)) + 1 <= Len(eol)
      BY <1>2, <3>1, <3>2
    <3> QED BY <3>1, <3>2, <3>3
  <2>4. n = 0 \/ (n = 1 /\ Len(eol) = 2 /\ ~(n < Len(Line(rest))))
    <3> DEFINE c == Len(Line(rest))
               e == Len(eol)
    <3>1. c \in 0 .. Len(rest) /\ Len(rest) \in Nat /\ c + 1 <= e /\ e \in 1 .. 2 /\ n \in 0 .. c
      BY <1>2, <2>3
    <3> HIDE DEF c, e
    <3>2. n = 0 \/ (n = 1 /\ e = 2 /\ ~(n < c))
      BY <3>1
    <3> QED BY <3>2 DEF c, e
  <2>5. ~torn
    <3>1. rest[1].kind \notin {"length", "text"}
      BY <2>3 DEF CR, NL
    <3>2. n = 0 => n + 1 = 1
      OBVIOUS
    <3> QED BY <1>1, <2>4, <3>1, <3>2
  <2> QED BY <1>1, <1>5, <2>2, <2>3, <2>4, <2>5 DEF Remainder
<1>6. ASSUME AtOwnLine(k)
      PROVE  rest' = Drop(rest, n)
  <2>1. OwnLines(Body(k)) /\ BodyAt(k) <= Taken /\ Taken < ends[k]
    BY <1>6 DEF AtOwnLine, Body
  <2>2. \A i \in 1 .. Len(Line(rest)) : rest[i] \in Symbol /\ rest[i].kind # "length"
    BY <2>1, TextAtOwnLine
  <2>3. CASE torn
    <3>1. n < Len(Line(rest)) /\ n + 1 \in 1 .. Len(Line(rest)) /\ n \in 0 .. Len(rest) /\ n < Len(rest)
      BY <1>1, <1>2, <2>3
    <3>2. rest[n + 1] = OtherText
      BY <1>1, <2>2, <2>3, <3>1 DEF Symbol, OtherText
    <3>3. <<OtherText>> \o Drop(rest, n + 1) = Drop(rest, n)
      BY <3>1, <3>2, TornText
    <3> QED BY <1>1, <2>3, <3>3 DEF Remainder
  <2>4. CASE ~torn
    BY <1>1, <2>4 DEF Remainder
  <2> QED BY <2>3, <2>4
<1>7. \/ AtOwnLine(k) \/ AtNewLine(k) \/ AtHeader(k, Len(Header(k)))
      \/ \E j \in 0 .. Len(Header(k)) : j < Len(Header(k)) /\ AtHeader(k, j)
  <2>1. ~AtFrame(k) /\ ~AtBody(k)
    BY <1>2 DEF AtFrame, AtBody
  <2>2. AtOwnLine(k) \/ AtNewLine(k) \/ \E j \in 0 .. Len(Header(k)) : AtHeader(k, j)
    BY <2>1 DEF At, Header
  <2>3. \A j \in 0 .. Len(Header(k)) : j < Len(Header(k)) \/ j = Len(Header(k))
    BY <1>2
  <2> QED BY <2>2, <2>3
<1>8. rest' = Drop(rest, n)
  BY <1>4, <1>5, <1>6, <1>7
<1>9. \A j \in 0 .. Len(Header(k)) : AtHeader(k, j) /\ j < Len(Header(k)) => n = 0
  BY <1>4
<1> QED BY <1>5, <1>8, <1>9

-----------------------------------------------------------------------------
(***************************************************************************)
(* What a frame is worth, and where a step leads from it.                  *)
(***************************************************************************)
LEMMA LengthIsLast ==
    ASSUME NEW f \in Frame, NEW length, LastLength(f, Len(f.header), length)
    PROVE  LengthOf(f) = length
<1>1. Len(f.header) \in Nat /\ DOMAIN f.header = 1 .. Len(f.header)
  BY FrameTyped
<1>2. CASE length = 0 /\ \A n \in 1 .. Len(f.header) : f.header[n].kind # "length"
  <2>1. Lengths(f) = {}
    BY <1>1, <1>2 DEF Lengths
  <2> QED BY <1>2, <2>1 DEF LengthOf
<1>3. CASE ~(length = 0 /\ \A n \in 1 .. Len(f.header) : f.header[n].kind # "length")
  <2>1. PICK n \in 1 .. Len(f.header) :
          /\ f.header[n].kind = "length" /\ f.header[n].value = length
          /\ \A m \in n + 1 .. Len(f.header) : f.header[m].kind # "length"
    BY <1>3 DEF LastLength
  <2>2. n \in Lengths(f) /\ Lengths(f) \subseteq 1 .. Len(f.header)
    BY <1>1, <2>1 DEF Lengths
  <2>3. \A m \in Lengths(f) : m <= n
    <3>1. ASSUME NEW m \in Lengths(f), n < m
          PROVE  FALSE
      <4>1. m \in n + 1 .. Len(f.header) /\ f.header[m].kind = "length"
        BY <1>1, <2>2, <3>1 DEF Lengths
      <4> QED BY <2>1, <4>1
    <3> QED BY <1>1, <2>2, <3>1
  <2> DEFINE last == CHOOSE i \in Lengths(f) : \A m \in Lengths(f) : m <= i
  <2>4. last \in Lengths(f) /\ \A m \in Lengths(f) : m <= last
    BY <2>2, <2>3
  <2>5. LengthOf(f) = f.header[last].value
    BY <2>2 DEF LengthOf
  <2> HIDE DEF last
  <2>6. last = n
    BY <1>1, <2>2, <2>3, <2>4
  <2> QED BY <2>1, <2>5, <2>6
<1> QED BY <1>2, <1>3

LEMMA Kinds ==
    ASSUME NEW f \in Frame, LengthOf(f) \in Nat
    PROVE  /\ KindOf(f) \in {"content", "skipped", "misframed"}
           /\ KindOf(f) # "misframed" =>
                /\ LengthOf(f) \in 1 .. SignedMax => Len(f.body) = LengthOf(f)
                /\ ~(LengthOf(f) \in 1 .. SignedMax) => OwnLines(f.body)
                /\ LengthOf(f) \in 1 .. Limit => KindOf(f) = "content"
           /\ KindOf(f) = "content" => LengthOf(f) \in 1 .. Limit /\ Len(f.body) = LengthOf(f)
<1>1. /\ LengthOf(f) \in 1 .. SignedMax <=>
           LengthOf(f) \in 1 .. Limit \/ LengthOf(f) \in Limit + 1 .. SignedMax
      /\ ~(LengthOf(f) \in 1 .. Limit /\ LengthOf(f) \in Limit + 1 .. SignedMax)
  BY LimitsAssumption
<1>2. CASE Overflows(f.header)
  BY <1>2 DEF KindOf
<1>3. CASE ~Overflows(f.header) /\ LengthOf(f) \in 1 .. Limit
  <2>1. KindOf(f) = IF Len(f.body) = LengthOf(f) THEN "content" ELSE "misframed"
    BY <1>1, <1>3 DEF KindOf
  <2> QED BY <1>1, <1>3, <2>1
<1>4. CASE ~Overflows(f.header) /\ LengthOf(f) \in Limit + 1 .. SignedMax
  <2>1. KindOf(f) = IF Len(f.body) = LengthOf(f) THEN "skipped" ELSE "misframed"
    BY <1>1, <1>4 DEF KindOf
  <2> QED BY <1>1, <1>4, <2>1
<1>5. CASE ~Overflows(f.header) /\ ~(LengthOf(f) \in 1 .. SignedMax)
  <2>1. KindOf(f) = IF OwnLines(f.body) THEN "skipped" ELSE "misframed"
    BY <1>1, <1>5 DEF KindOf
  <2> QED BY <1>1, <1>5, <2>1
<1> QED BY <1>1, <1>2, <1>3, <1>4, <1>5

LEMMA LengthOfType ==
    ASSUME NEW f \in Frame
    PROVE  LengthOf(f) \in Nat
<1>1. Len(f.header) \in Nat /\ DOMAIN f.header = 1 .. Len(f.header)
      /\ \A n \in 1 .. Len(f.header) : f.header[n] \in HeaderSymbol
  BY FrameTyped
<1>2. CASE Lengths(f) = {}
  BY <1>2 DEF LengthOf
<1>3. CASE Lengths(f) # {}
  <2> DEFINE N == { m \in Nat : m <= Len(f.header) /\ Len(f.header) - m \in Lengths(f) }
  <2>1. Lengths(f) \subseteq 1 .. Len(f.header)
    BY <1>1 DEF Lengths
  <2>2. N \subseteq Nat /\ N # {}
    <3>1. PICK i \in Lengths(f) : TRUE
      BY <1>3
    <3>2. Len(f.header) - i \in N
      BY <1>1, <2>1, <3>1
    <3> QED BY <3>2
  <2>3. PICK m \in N : \A i \in N : ~(i < m)
    BY <2>2, LeastIndex
  <2>4. Len(f.header) - m \in Lengths(f)
    BY <2>3
  <2>5. ASSUME NEW i \in Lengths(f)
        PROVE  i <= Len(f.header) - m
    <3>1. Len(f.header) - i \in N /\ i \in 1 .. Len(f.header)
      BY <1>1, <2>1, SMTT(30)
    <3>2. ~(Len(f.header) - i < m) /\ m \in Nat
      BY <2>3, <3>1
    <3> QED BY <1>1, <3>1, <3>2
  <2> HIDE DEF N
  <2> DEFINE last == CHOOSE i \in Lengths(f) : \A j \in Lengths(f) : j <= i
  <2>6. last \in Lengths(f)
    BY <2>4, <2>5
  <2>7. LengthOf(f) = f.header[last].value
    BY <1>3 DEF LengthOf
  <2> HIDE DEF last
  <2> QED BY <1>1, <2>1, <2>6, <2>7 DEF HeaderSymbol, Symbol
<1> QED BY <1>2, <1>3

LEMMA HereTaken ==
    ASSUME Layout, NEW k \in 1 .. Len(frames), At(k), interrupts \in Nat
    PROVE  /\ BeginOf(k) <= Taken /\ Taken <= ends[k] /\ Taken \in Nat
           /\ pc = "header" /\ ~AtOwnLine(k) => Taken < BodyAt(k)
<1>1. /\ BeginOf(k) \in Nat /\ EmptyLineAt(k) \in Nat /\ BodyAt(k) \in Nat /\ ends[k] \in Nat
      /\ BeginOf(k) <= EmptyLineAt(k) /\ BodyAt(k) = EmptyLineAt(k) + Len(EndOfLine(k))
      /\ BeginOf(k) < BodyAt(k) /\ BodyAt(k) <= ends[k] /\ Len(EndOfLine(k)) \in 1 .. 2
      /\ EmptyLineAt(k) < BodyAt(k)
  BY Places
<1>2. Taken \in Int
  <2>1. CASE AtOwnLine(k)
    BY <2>1, LenProperties DEF Taken, Layout, AtOwnLine
  <2>2. CASE ~AtOwnLine(k)
    <3>1. \A j \in 0 .. Len(Header(k)) : LineAt(k, j) \in Nat
      BY HeaderPlaces
    <3> QED BY <1>1, <2>2, <3>1 DEF At, AtFrame, AtNewLine, AtBody, AtHeader, Header
  <2> QED BY <2>1, <2>2
<1>3. ASSUME AtFrame(k)
      PROVE  BeginOf(k) <= Taken /\ Taken <= ends[k] /\ Taken \in Nat
  BY <1>1, <1>3 DEF AtFrame
<1>4. ASSUME AtNewLine(k)
      PROVE  /\ BeginOf(k) <= Taken /\ Taken <= ends[k] /\ Taken \in Nat
             /\ Taken < BodyAt(k)
  <2>1. Len(EndOfLine(k)) = 2 /\ Taken = EmptyLineAt(k) + 1
    BY <1>4 DEF AtNewLine, EndOfLine
  <2> QED BY <1>1, <2>1
<1>5. ASSUME AtBody(k)
      PROVE  BeginOf(k) <= Taken /\ Taken <= ends[k] /\ Taken \in Nat
  BY <1>1, <1>5 DEF AtBody
<1>6. ASSUME AtOwnLine(k)
      PROVE  BeginOf(k) <= Taken /\ Taken <= ends[k] /\ Taken \in Nat
  <2>1. BodyAt(k) <= Taken /\ Taken < ends[k]
    BY <1>6 DEF AtOwnLine
  <2> QED BY <1>1, <1>2, <2>1
<1>7. ASSUME NEW j \in 0 .. Len(Header(k)), AtHeader(k, j)
      PROVE  /\ BeginOf(k) <= Taken /\ Taken <= ends[k] /\ Taken \in Nat
             /\ Taken < BodyAt(k)
  <2>1. BeginOf(k) <= Taken /\ Taken <= EmptyLineAt(k) /\ Taken \in Nat
    BY <1>7, HeaderPlaces DEF AtHeader
  <2> QED BY <1>1, <2>1
<1>8. \/ AtFrame(k) \/ AtNewLine(k) \/ AtBody(k) \/ AtOwnLine(k)
      \/ \E j \in 0 .. Len(Header(k)) : AtHeader(k, j)
  BY DEF At, Header
<1>9. (\E j \in 0 .. Len(Header(k)) : AtHeader(k, j))
        => BeginOf(k) <= Taken /\ Taken <= ends[k] /\ Taken \in Nat /\ Taken < BodyAt(k)
  BY <1>7
<1>10. BeginOf(k) <= Taken /\ Taken <= ends[k] /\ Taken \in Nat
  BY <1>1, <1>3, <1>4, <1>5, <1>6, <1>8, <1>9
<1>11. pc = "header" => ~AtFrame(k) /\ ~AtBody(k)
  BY DEF AtFrame, AtBody
<1>12. AtNewLine(k) => Taken < BodyAt(k)
  BY <1>4
<1> QED BY <1>8, <1>9, <1>10, <1>11, <1>12

\* Where a step leads from a frame, and what it delivers.
IsContent(k) == KindOf(frames[k]) = "content"

Goes(k) ==
    /\ BeginOf(k) <= Taken /\ Taken <= Taken' /\ Taken' <= ends[k]
    /\ delivered' = IF IsContent(k) /\ Taken < ends[k] /\ Taken' = ends[k]
                    THEN Append(delivered, Body(k)) ELSE delivered
    /\ rest' # <<>> /\ Live' => RestIsInput' /\ \E m \in Written : At(m)'

LEMMA ToNextFrame ==
    ASSUME Layout, NEW k \in Written, UNCHANGED clientVars,
           RestIsInput', rest' \in Seq(Symbol), rest' # <<>>, Taken' = ends[k],
           pc' = "call" \/ (pc' \in {"header", "size"} /\ content_length' = 0)
    PROVE  \E m \in Written : At(m)'
<1>1. input' = input /\ frames' = frames /\ Layout' /\ k \in 1 .. Len(frames)
  BY ClientStays, WrittenIndex DEF clientVars
<1>2. Taken' < Len(input)
  <2>1. Len(input) \in Nat /\ Len(rest') \in Nat /\ Len(rest') # 0
    BY LenProperties DEF Layout
  <2>2. Taken' = Len(input) - Len(rest')
    BY <1>1 DEF Taken
  <2> QED BY <2>1, <2>2
<1>3. k + 1 \in Written /\ BeginOf(k + 1) = Taken'
  BY <1>2, NextFrame
<1>4. BeginOf(k + 1)' = Taken' /\ k + 1 \in 1 .. Len(frames)
  BY <1>3, ClientStays, WrittenIndex
<1>5. CASE pc' = "call" \/ (pc' = "size" /\ content_length' = 0)
  <2>1. AtFrame(k + 1)'
    BY <1>4, <1>5 DEF AtFrame
  <2> QED BY <1>3, <2>1 DEF At
<1>6. CASE pc' = "header" /\ content_length' = 0
  <2>1. LineAt(k + 1, 0)' = Taken' /\ Len(Header(k + 1)) \in Nat
    BY <1>3, <1>4, ClientStays, Places
  <2>2. 0 \in 0 .. Len(Header(k + 1)) /\ Header(k + 1)' = Header(k + 1)
    BY <1>1, <2>1 DEF Header
  <2>3. AtHeader(k + 1, 0)'
    <3>1. \A n \in 1 .. 0 : FALSE
      OBVIOUS
    <3> QED BY <1>6, <2>1, <3>1 DEF AtHeader, LastLength
  <2>4. At(k + 1)'
    BY <2>2, <2>3 DEF At, Header
  <2> QED BY <1>3, <2>4
<1> QED BY <1>5, <1>6

\* A reader in a frame, with something in front of it.
Here(k) == ReaderInv /\ Layout /\ RestIsInput /\ Framed /\ rest # <<>> /\ At(k)

LEMMA HereFacts ==
    ASSUME NEW k \in Written, Here(k)
    PROVE  /\ Layout /\ RestIsInput /\ At(k) /\ k \in 1 .. Len(frames) /\ frames[k] \in Frame
           /\ rest \in Seq(Symbol) /\ rest # <<>> /\ Len(rest) \in Nat /\ Len(rest) # 0
           /\ Len(input) \in Nat /\ Len(input) = Taken + Len(rest)
           /\ content_length \in Nat /\ interrupts \in Nat /\ good = TRUE /\ ~disturbed
           /\ BeginOf(k) \in Nat /\ BodyAt(k) \in Nat /\ ends[k] \in Nat /\ Taken \in Nat
           /\ BeginOf(k) <= Taken /\ Taken <= ends[k]
           /\ BeginOf(k) < BodyAt(k) /\ BodyAt(k) <= ends[k]
           /\ ends[k] = BodyAt(k) + Len(Body(k)) /\ Len(Body(k)) \in Nat
           /\ BeginOf(k) < Taken => KindOf(frames[k]) # "misframed"
           /\ IsContent(k) => BodyAt(k) < ends[k] /\ LengthOf(frames[k]) \in 1 .. Limit
<1>1. /\ Layout /\ RestIsInput /\ At(k) /\ rest # <<>> /\ ~disturbed /\ k \in 1 .. Len(frames)
      /\ rest \in Seq(Symbol)
  BY WrittenIndex DEF Here, Framed, ReaderInv, ReaderTypeOK
<1>2. content_length \in Nat /\ interrupts \in Nat /\ good = TRUE
  BY <1>1, LimitsAssumption, BoundsAssumption DEF Here, ReaderInv, ReaderTypeOK, FailsAtTheEnd
<1>3. /\ frames[k] \in Frame /\ BeginOf(k) \in Nat /\ BodyAt(k) \in Nat /\ ends[k] \in Nat
      /\ BeginOf(k) < BodyAt(k) /\ BodyAt(k) <= ends[k]
      /\ ends[k] = BodyAt(k) + Len(Body(k)) /\ Len(Body(k)) \in Nat
  BY <1>1, Places
<1>4. BeginOf(k) <= Taken /\ Taken <= ends[k] /\ Taken \in Nat
  BY <1>1, <1>2, HereTaken
<1>5. /\ Len(rest) \in Nat /\ Len(rest) # 0 /\ Len(input) \in Nat /\ Len(input) = Taken + Len(rest)
  BY <1>1, PlaceTaken
<1>6. BeginOf(k) < Taken => KindOf(frames[k]) # "misframed"
  <2>1. KindOf(frames[k]) = "misframed" => Taken <= BeginOf(k)
    BY DEF Here, Framed
  <2> QED BY <1>3, <1>4, <2>1
<1>7. IsContent(k) => BodyAt(k) < ends[k] /\ LengthOf(frames[k]) \in 1 .. Limit
  <2>1. IsContent(k) => LengthOf(frames[k]) \in 1 .. Limit /\ Len(Body(k)) = LengthOf(frames[k])
    BY <1>3, Kinds, LengthOfType DEF IsContent, Body
  <2> QED BY <1>3, <2>1, LimitsAssumption
<1> QED BY <1>1, <1>2, <1>3, <1>4, <1>5, <1>6, <1>7

\* A step that reads nothing.
LEMMA GoesNowhere ==
    ASSUME NEW k \in Written, Here(k), UNCHANGED <<clientVars, rest, delivered>>,
           Live' => \E m \in Written : At(m)'
    PROVE  Goes(k)
<1>1. BeginOf(k) <= Taken /\ Taken <= ends[k] /\ Taken \in Nat /\ ends[k] \in Nat
  BY HereFacts
<1>2. Taken' = Taken /\ RestIsInput' = RestIsInput
  BY DEF clientVars, Taken, RestIsInput
<1> QED BY <1>1, <1>2 DEF Goes, Here

LEMMA LoopGoes ==
    ASSUME NEW k \in Written, Here(k), Call \/ LoopEnds \/ BackOfEmptyLine \/ HeaderEnds
    PROVE  Goes(k)
<1>1. good = TRUE /\ k \in 1 .. Len(frames) /\ At(k) /\ Layout /\ Taken \in Nat
  BY HereFacts
<1>2. CASE Call
  <2>1. /\ pc = "call" /\ pc' = "header" /\ content_length' = 0
        /\ UNCHANGED <<clientVars, rest, delivered>> /\ UNCHANGED frames /\ UNCHANGED ends
    BY <1>2 DEF Call, clientVars
  <2>2. BodyAt(k)' = BodyAt(k) /\ LineAt(k, 0)' = LineAt(k, 0) /\ Taken' = Taken
        /\ LineAt(k, 0) = BeginOf(k) /\ Len(Header(k)) \in Nat
    BY <1>1, <2>1, ClientStays, Places DEF clientVars, Taken
  <2>3. AtFrame(k) \/ AtOwnLine(k)
    BY <1>1, <2>1 DEF At, AtNewLine, AtBody, AtHeader
  <2>4. CASE AtFrame(k)
    <3>1. \A n \in 1 .. 0 : FALSE
      OBVIOUS
    <3>2. AtHeader(k, 0)'
      BY <2>1, <2>2, <2>4, <3>1 DEF AtFrame, AtHeader, LastLength
    <3>3. 0 \in 0 .. Len(frames'[k].header)
      BY <2>1, <2>2 DEF Header
    <3>4. At(k)'
      BY <3>2, <3>3 DEF At
    <3> QED BY <2>1, <3>4, GoesNowhere
  <2>5. CASE AtOwnLine(k)
    <3>1. AtOwnLine(k)'
      BY <2>1, <2>2, <2>5 DEF AtOwnLine
    <3>2. At(k)'
      BY <3>1 DEF At
    <3> QED BY <2>1, <3>2, GoesNowhere
  <2> QED BY <2>3, <2>4, <2>5
<1>3. CASE LoopEnds
  BY <1>1, <1>3 DEF LoopEnds
<1>4. CASE BackOfEmptyLine
  <2>1. UNCHANGED <<clientVars, rest, delivered>> /\ ~Live'
    BY <1>4 DEF BackOfEmptyLine, Live
  <2> QED BY <2>1, GoesNowhere
<1>5. CASE HeaderEnds
  BY <1>1, <1>5 DEF HeaderEnds
<1> QED BY <1>2, <1>3, <1>4, <1>5

\* A step that leaves a frame where it was, or in a later line.
LEMMA GoesOn ==
    ASSUME NEW k \in Written, Here(k), Taken <= Taken', Taken' <= ends[k], delivered' = delivered,
           IsContent(k) => ~(Taken' = ends[k]),
           rest' # <<>> /\ Live' => RestIsInput' /\ \E m \in Written : At(m)'
    PROVE  Goes(k)
<1>1. BeginOf(k) <= Taken
  BY HereFacts
<1> QED BY <1>1 DEF Goes

LEMMA ReadLineGoes ==
    ASSUME NEW k \in Written, Here(k), ReadLine
    PROVE  Goes(k)
<1>1. /\ Layout /\ RestIsInput /\ At(k) /\ k \in 1 .. Len(frames)
      /\ rest \in Seq(Symbol) /\ rest # <<>> /\ content_length \in Nat
      /\ BodyAt(k) \in Nat /\ ends[k] \in Nat /\ Taken \in Nat
      /\ BodyAt(k) <= ends[k] /\ (IsContent(k) => BodyAt(k) < ends[k])
      /\ interrupts \in Nat /\ UNCHANGED clientVars /\ frames' = frames
      /\ Len(Header(k)) \in Nat
  BY HereFacts, Places DEF ReadLine, clientVars
<1>2. pc = "header" /\ RestIsInput' /\ Taken < Taken' /\ rest' \in Seq(Symbol)
  <2>1. RestIsInput' /\ Taken' = Taken + (Len(Line(rest)) + 1)
    BY <1>1, LineMoves
  <2>2. Len(Line(rest)) \in Nat
    BY <1>1, LineShape, LenProperties
  <2>3. rest' = Drop(rest, Len(Line(rest)) + 1)
    BY DEF ReadLine
  <2>4. rest' \in Seq(Symbol)
    BY <1>1, <2>2, <2>3, DropType
  <2> QED BY <1>1, <2>1, <2>2, <2>4 DEF ReadLine
<1>3. ASSUME NEW j \in 0 .. Len(Header(k)), AtHeader(k, j), j < Len(Header(k))
      PROVE  Goes(k)
  <2>1. /\ Taken' = LineAt(k, j + 1) /\ delivered' = delivered
        /\ pc' = "aborted" \/ AtHeader(k, j + 1)'
    BY <1>1, <1>3, ReadHeaderLine
  <2>2. j + 1 \in 0 .. Len(Header(k)) /\ LineAt(k, j + 1) <= EmptyLineAt(k)
    BY <1>1, <1>3, HeaderPlaces
  <2>3. EmptyLineAt(k) < BodyAt(k) /\ EmptyLineAt(k) \in Nat
    BY <1>1, Places
  <2>4. j + 1 \in 0 .. Len(Header(k)) /\ LineAt(k, j + 1) \in Nat
    BY <1>1, <2>2, HeaderPlaces
  <2>5. Taken' < BodyAt(k) /\ Taken' <= ends[k] /\ Taken <= Taken' /\ Taken' \in Nat
    BY <1>1, <1>2, <2>1, <2>2, <2>3, <2>4
  <2>6. AtHeader(k, j + 1)' => At(k)'
    BY <1>1, <2>2 DEF At, Header
  <2>7. Live' => \E m \in Written : At(m)'
    BY <2>1, <2>6 DEF Live
  <2>8. IsContent(k) => ~(Taken' = ends[k])
    BY <1>1, <2>5
  <2> QED BY <1>2, <2>1, <2>5, <2>7, <2>8, GoesOn
<1>4. ASSUME AtHeader(k, Len(Header(k))) \/ AtNewLine(k)
      PROVE  Goes(k)
  <2>1. Taken' = BodyAt(k) /\ delivered' = delivered /\ AtBody(k)'
    BY <1>1, <1>4, ReadEmptyLine
  <2>2. At(k)'
    BY <2>1 DEF At
  <2>3. Taken <= Taken' /\ Taken' <= ends[k] /\ (IsContent(k) => ~(Taken' = ends[k]))
    BY <1>1, <1>2, <2>1
  <2> QED BY <1>2, <2>1, <2>2, <2>3, GoesOn
<1>5. ASSUME AtOwnLine(k)
      PROVE  Goes(k)
  <2>1. /\ Taken <= Taken' /\ Taken' <= ends[k] /\ Taken < Taken' /\ delivered' = delivered
        /\ pc' \in {"header", "size"} /\ content_length' = 0
    <3>1. /\ Taken < Taken' /\ Taken' <= ends[k] /\ delivered' = delivered
          /\ pc' \in {"header", "size"} /\ content_length' = 0
      BY <1>1, <1>5, ReadOwnLine
    <3>2. Taken' \in Int
      BY <1>1, <1>2, LenProperties DEF Taken, Layout, clientVars
    <3>3. Taken <= Taken'
      BY <1>1, <3>1, <3>2
    <3> QED BY <3>1, <3>3
  <2>2. ~IsContent(k)
    <3>1. IsContent(k) => LengthOf(frames[k]) \in 1 .. Limit
      BY HereFacts
    <3>2. LengthOf(frames[k]) \in 1 .. Limit => LengthOf(frames[k]) \in 1 .. SignedMax
      BY LimitsAssumption
    <3> QED BY <1>5, <3>1, <3>2 DEF AtOwnLine
  <2>3. ASSUME rest' # <<>>
        PROVE  \E m \in Written : At(m)'
    <3>1. CASE Taken' = ends[k]
      BY <1>1, <1>2, <2>1, <2>3, <3>1, ToNextFrame
    <3>2. CASE Taken' # ends[k]
      <4>0. Taken' \in Int
        BY <1>1, <1>2, LenProperties DEF Taken, Layout, clientVars
      <4>1. BodyAt(k) <= Taken' /\ Taken' < ends[k]
        BY <1>1, <1>5, <2>1, <3>2, <4>0 DEF AtOwnLine
      <4>2. AtOwnLine(k)'
        BY <1>1, <1>5, <2>1, <4>1, ClientStays DEF AtOwnLine, clientVars
      <4>3. At(k)'
        BY <4>2 DEF At
      <4> QED BY <4>3
    <3> QED BY <3>1, <3>2
  <2> QED BY <1>2, <2>1, <2>2, <2>3, GoesOn
<1>6. ~AtFrame(k) /\ ~AtBody(k)
  BY <1>2 DEF AtFrame, AtBody
<1>7. \/ AtOwnLine(k) \/ AtNewLine(k) \/ AtHeader(k, Len(Header(k)))
      \/ \E j \in 0 .. Len(Header(k)) : j < Len(Header(k)) /\ AtHeader(k, j)
  <2>1. AtOwnLine(k) \/ AtNewLine(k) \/ \E j \in 0 .. Len(Header(k)) : AtHeader(k, j)
    BY <1>1, <1>6 DEF At, Header
  <2>2. \A j \in 0 .. Len(Header(k)) : j < Len(Header(k)) \/ j = Len(Header(k))
    BY <1>1
  <2> QED BY <2>1, <2>2
<1> QED BY <1>3, <1>4, <1>5, <1>7

LEMMA LastLineGoes ==
    ASSUME NEW k \in Written, Here(k), ReadLastLine \/ ReadLastLineAgain
    PROVE  Goes(k)
<1>1. /\ Layout /\ RestIsInput /\ At(k) /\ k \in 1 .. Len(frames)
      /\ rest \in Seq(Symbol) /\ rest # <<>> /\ Len(input) \in Nat /\ Len(rest) \in Nat
      /\ Len(input) = Taken + Len(rest) /\ BodyAt(k) \in Nat /\ ends[k] \in Nat /\ Taken \in Nat
      /\ (IsContent(k) => BodyAt(k) < ends[k] /\ LengthOf(frames[k]) \in 1 .. Limit)
  BY HereFacts
<1>2. /\ pc = "header" /\ ~Terminated /\ rest' = <<>> /\ delivered' = delivered
      /\ UNCHANGED clientVars
  BY DEF ReadLastLine, ReadLastLineAgain
<1>3. Len(input) <= ends[k] /\ (~AtOwnLine(k) => Len(input) < BodyAt(k))
  BY <1>1, <1>2, LastLineEnds
<1>4. Taken' = Len(input)
  BY <1>1, <1>2 DEF Taken, clientVars
<1>5. Taken <= Taken' /\ Taken' <= ends[k]
  BY <1>1, <1>3, <1>4
<1>6. IsContent(k) => ~AtOwnLine(k)
  <2>1. LengthOf(frames[k]) \in 1 .. Limit => LengthOf(frames[k]) \in 1 .. SignedMax
    BY LimitsAssumption
  <2> QED BY <1>1, <2>1 DEF AtOwnLine
<1>7. IsContent(k) => ~(Taken' = ends[k])
  BY <1>1, <1>3, <1>4, <1>6
<1> QED BY <1>2, <1>5, <1>7, GoesOn

\* Behind the header, the length that was read is that of the frame.
LEMMA LengthRead ==
    ASSUME NEW k \in Written, Here(k), AtBody(k)
    PROVE  LengthOf(frames[k]) = content_length /\ KindOf(frames[k]) # "misframed"
<1>1. /\ frames[k] \in Frame /\ BeginOf(k) \in Nat /\ BeginOf(k) < BodyAt(k) /\ Taken = BodyAt(k)
      /\ (BeginOf(k) < Taken => KindOf(frames[k]) # "misframed")
  BY HereFacts DEF AtBody
<1> QED BY <1>1, LengthIsLast DEF AtBody

\* A content that is not asked for is read as header lines.
LEMMA NotAsked ==
    ASSUME NEW k \in Written, Here(k), AtBody(k) \/ AtOwnLine(k),
           ~(content_length \in 1 .. SignedMax),
           UNCHANGED <<clientVars, rest, delivered>>, pc' = "call"
    PROVE  Goes(k)
<1>1. /\ Layout /\ RestIsInput /\ k \in 1 .. Len(frames) /\ rest \in Seq(Symbol) /\ rest # <<>>
      /\ frames[k] \in Frame /\ BodyAt(k) \in Nat /\ ends[k] \in Nat /\ BodyAt(k) <= ends[k]
      /\ frames' = frames /\ rest' = rest /\ ends' = ends
  BY HereFacts DEF clientVars
<1>2. Taken' = Taken /\ RestIsInput' = RestIsInput /\ BodyAt(k)' = BodyAt(k)
  BY ClientStays DEF clientVars, Taken, RestIsInput
<1>3. CASE AtOwnLine(k)
  <2>1. AtOwnLine(k)'
    BY <1>1, <1>2, <1>3 DEF AtOwnLine
  <2>2. At(k)'
    BY <2>1 DEF At
  <2> QED BY <2>2, GoesNowhere
<1>4. CASE AtBody(k)
  <2>1. Taken = BodyAt(k)
    BY <1>4 DEF AtBody
  <2>2. LengthOf(frames[k]) = content_length /\ KindOf(frames[k]) # "misframed"
    BY <1>4, LengthRead
  <2>3. OwnLines(frames[k].body)
    BY <1>1, <2>2, Kinds, LengthOfType
  <2>4. CASE BodyAt(k) = ends[k]
    <3>1. \E m \in Written : At(m)'
      BY <1>1, <1>2, <2>1, <2>4, ToNextFrame
    <3> QED BY <3>1, GoesNowhere
  <2>5. CASE BodyAt(k) # ends[k]
    <3>1. BodyAt(k) <= BodyAt(k) /\ BodyAt(k) < ends[k]
      BY <1>1, <2>5
    <3>2. AtOwnLine(k)'
      BY <1>1, <1>2, <2>1, <2>2, <2>3, <3>1 DEF AtOwnLine
    <3>3. At(k)'
      BY <3>2 DEF At
    <3> QED BY <3>3, GoesNowhere
  <2> QED BY <2>4, <2>5
<1> QED BY <1>3, <1>4

LEMMA NoContentGoes ==
    ASSUME NEW k \in Written, Here(k), NoContent
    PROVE  Goes(k)
<1>1. /\ pc = "size" /\ content_length = 0 /\ pc' = "call"
      /\ UNCHANGED <<clientVars, rest, delivered>> /\ At(k)
  BY HereFacts DEF NoContent
<1>2. CASE AtFrame(k)
  <2>1. BeginOf(k)' = BeginOf(k) /\ Taken' = Taken
    BY <1>1, ClientStays DEF Taken, clientVars
  <2>2. AtFrame(k)'
    BY <1>1, <1>2, <2>1 DEF AtFrame
  <2>3. At(k)'
    BY <2>2 DEF At
  <2> QED BY <1>1, <2>3, GoesNowhere
<1>3. CASE AtBody(k) \/ AtOwnLine(k)
  <2>1. ~(content_length \in 1 .. SignedMax)
    BY <1>1
  <2> QED BY <1>1, <1>3, <2>1, NotAsked
<1> QED BY <1>1, <1>2, <1>3 DEF At, AtNewLine, AtHeader

\* As many symbols are taken as the length of a frame says.
LEMMA ContentTaken ==
    ASSUME NEW k \in Written, Here(k), AtBody(k), content_length \in 1 .. SignedMax,
           rest' = IF content_length <= Len(rest) THEN Drop(rest, content_length) ELSE <<>>,
           UNCHANGED clientVars, pc' = "call"
    PROVE  /\ Taken <= Taken' /\ Taken' <= ends[k] /\ Taken = BodyAt(k) /\ Taken < ends[k]
           /\ Taken' = ends[k] <=> content_length <= Len(rest)
           /\ rest' # <<>> => RestIsInput' /\ \E m \in Written : At(m)'
           /\ Len(Body(k)) = content_length
<1>1. /\ Layout /\ RestIsInput /\ k \in 1 .. Len(frames) /\ rest \in Seq(Symbol) /\ rest # <<>>
      /\ Len(rest) \in Nat /\ Len(input) = Taken + Len(rest) /\ Len(input) \in Nat
      /\ frames[k] \in Frame /\ BodyAt(k) \in Nat /\ ends[k] \in Nat /\ content_length \in Nat
      /\ ends[k] = BodyAt(k) + Len(Body(k)) /\ Taken = BodyAt(k) /\ input' = input
  BY HereFacts DEF clientVars, AtBody
<1>2. Len(Body(k)) = content_length
  <2>1. LengthOf(frames[k]) = content_length /\ KindOf(frames[k]) # "misframed"
    BY LengthRead
  <2> QED BY <1>1, <2>1, Kinds DEF Body
<1>3. CASE content_length <= Len(rest)
  <2>1. content_length \in 0 .. Len(rest) /\ rest' = Drop(rest, content_length)
    BY <1>1, <1>3
  <2>2. RestIsInput' /\ Taken' = Taken + content_length
    BY <1>1, <2>1, RestMoves
  <2>3. Taken' = ends[k] /\ Taken <= Taken' /\ Taken < ends[k]
    BY <1>1, <1>2, <2>2
  <2>4. rest' \in Seq(Symbol)
    BY <1>1, <2>1, DropType
  <2>5. rest' # <<>> => \E m \in Written : At(m)'
    BY <1>1, <2>2, <2>3, <2>4, ToNextFrame
  <2> QED BY <1>1, <1>2, <1>3, <2>2, <2>3, <2>5
<1>4. CASE ~(content_length <= Len(rest))
  <2>1. rest' = <<>> /\ Taken' = Len(input)
    BY <1>1, <1>4 DEF Taken
  <2>2. Taken <= Taken' /\ Taken' <= ends[k] /\ Taken < ends[k] /\ Taken' # ends[k]
    BY <1>1, <1>2, <1>4, <2>1
  <2> QED BY <1>1, <1>2, <1>4, <2>1, <2>2
<1> QED BY <1>3, <1>4

LEMMA TooBigGoes ==
    ASSUME NEW k \in Written, Here(k), TooBig
    PROVE  Goes(k)
<1>1. /\ pc = "size" /\ content_length > Limit /\ pc' = "call" /\ UNCHANGED clientVars
      /\ delivered' = delivered /\ At(k) /\ good = TRUE /\ content_length \in Nat
      /\ rest \in Seq(Symbol) /\ Len(rest) \in Nat
  BY HereFacts DEF TooBig
<1>2. AtBody(k)
  <2>1. content_length # 0
    BY <1>1, LimitsAssumption
  <2> QED BY <1>1, <2>1 DEF At, AtFrame, AtOwnLine, AtNewLine, AtHeader
<1>3. CASE content_length > SignedMax
  <2>1. ~(content_length \in 1 .. SignedMax)
    BY <1>1, <1>3, LimitsAssumption
  <2>2. rest' = rest
    BY <1>3 DEF TooBig
  <2> QED BY <1>1, <1>2, <2>1, <2>2, NotAsked
<1>4. CASE ~(content_length > SignedMax)
  <2>1. content_length \in 1 .. SignedMax
    BY <1>1, <1>4, LimitsAssumption
  <2>2. rest' = Drop(rest, content_length)
    BY <1>1, <1>4 DEF TooBig
  <2>3. ~(content_length <= Len(rest)) => rest' = <<>>
    BY <1>1, <2>2, DropType
  <2>4. rest' = IF content_length <= Len(rest) THEN Drop(rest, content_length) ELSE <<>>
    BY <2>2, <2>3
  <2>5. /\ Taken <= Taken' /\ Taken' <= ends[k]
        /\ rest' # <<>> => RestIsInput' /\ \E m \in Written : At(m)'
    BY <1>1, <1>2, <2>1, <2>4, ContentTaken
  <2>6. ~IsContent(k)
    <3>1. IsContent(k) => LengthOf(frames[k]) \in 1 .. Limit
      BY HereFacts
    <3>2. LengthOf(frames[k]) = content_length
      BY <1>2, LengthRead
    <3> QED BY <1>1, <3>1, <3>2, LimitsAssumption
  <2> QED BY <1>1, <2>5, <2>6, GoesOn
<1> QED BY <1>3, <1>4

LEMMA ReadContentGoes ==
    ASSUME NEW k \in Written, Here(k), ReadContent
    PROVE  Goes(k)
<1>1. /\ pc = "size" /\ content_length \in 1 .. Limit /\ pc' = "call" /\ UNCHANGED clientVars
      /\ At(k) /\ good = TRUE /\ content_length \in Nat /\ RestIsInput
      /\ rest \in Seq(Symbol) /\ Len(rest) \in Nat /\ frames[k] \in Frame
      /\ Layout /\ k \in 1 .. Len(frames) /\ BeginOf(k) <= Taken
  BY HereFacts DEF ReadContent
<1>2. AtBody(k) /\ content_length \in 1 .. SignedMax
  <2>1. content_length # 0 /\ content_length \in 1 .. SignedMax
    BY <1>1, LimitsAssumption
  <2> QED BY <1>1, <2>1 DEF At, AtFrame, AtOwnLine, AtNewLine, AtHeader
<1>3. LengthOf(frames[k]) = content_length /\ IsContent(k)
  <2>1. LengthOf(frames[k]) = content_length /\ KindOf(frames[k]) # "misframed"
    BY <1>2, LengthRead
  <2> QED BY <1>1, <2>1, Kinds DEF IsContent
<1>4. rest' = IF content_length <= Len(rest) THEN Drop(rest, content_length) ELSE <<>>
  BY <1>1 DEF ReadContent
<1>5. /\ Taken <= Taken' /\ Taken' <= ends[k] /\ Taken = BodyAt(k) /\ Taken < ends[k]
      /\ Taken' = ends[k] <=> content_length <= Len(rest)
      /\ rest' # <<>> => RestIsInput' /\ \E m \in Written : At(m)'
      /\ Len(Body(k)) = content_length
  BY <1>1, <1>2, <1>4, ContentTaken
<1>6. CASE content_length <= Len(rest)
  <2>1. delivered' = Append(delivered, SubSeq(rest, 1, content_length))
    BY <1>1, <1>6 DEF ReadContent
  <2>2. SubSeq(rest, 1, content_length) = Body(k)
    <3>1. /\ Body(k) \in Seq(Symbol) /\ SubSeq(rest, 1, content_length) \in Seq(Symbol)
          /\ Len(SubSeq(rest, 1, content_length)) = content_length
          /\ \A i \in 1 .. content_length : SubSeq(rest, 1, content_length)[i] = rest[i]
      <4>1. Body(k) \in Seq(Symbol)
        BY <1>1, FrameTyped DEF Body
      <4>2. content_length \in 0 .. Len(rest)
        BY <1>1, <1>6
      <4>3. ASSUME NEW m \in 0 .. Len(rest)
            PROVE  /\ SubSeq(rest, 1, m) \in Seq(Symbol) /\ Len(SubSeq(rest, 1, m)) = m
                   /\ \A i \in 1 .. m : SubSeq(rest, 1, m)[i] = rest[i]
        BY <1>1
      <4> QED BY <4>1, <4>2, <4>3
    <3>2. ASSUME NEW i \in 1 .. content_length
          PROVE  rest[i] = Body(k)[i]
      <4>1. i \in 1 .. Len(rest) /\ i \in 1 .. Len(Body(k))
        BY <1>1, <1>5, <1>6
      <4>2. rest[i] = input[BodyAt(k) + i]
        BY <1>1, <1>5, <4>1 DEF RestIsInput
      <4>3. BodyAt(k) + i <= Len(input)
        <5>1. Len(input) = Taken + Len(rest) /\ Taken \in Nat
          BY HereFacts
        <5> QED BY <1>1, <1>5, <1>6, <5>1
      <4>4. BodyAt(k) + i <= Len(input) => input[BodyAt(k) + i] = Body(k)[i]
        BY <1>1, <4>1 DEF Layout, HasFrameAt
      <4> QED BY <4>2, <4>3, <4>4
    <3>3. \A i \in 1 .. content_length : SubSeq(rest, 1, content_length)[i] = Body(k)[i]
      BY <3>1, <3>2
    <3> QED BY <1>5, <3>1, <3>3, SeqEqual
  <2> QED BY <1>1, <1>3, <1>5, <1>6, <2>1, <2>2 DEF Goes
<1>7. CASE ~(content_length <= Len(rest))
  <2>1. delivered' = delivered
    BY <1>1, <1>7 DEF ReadContent
  <2> QED BY <1>5, <1>7, <2>1, GoesOn
<1> QED BY <1>6, <1>7

LEMMA InterruptGoes ==
    ASSUME NEW k \in Written, Here(k), InterruptLine, ~disturbed'
    PROVE  Goes(k)
<1>1. /\ Layout /\ RestIsInput /\ At(k) /\ k \in 1 .. Len(frames)
      /\ rest \in Seq(Symbol) /\ rest # <<>> /\ Len(input) \in Nat /\ Len(rest) \in Nat
      /\ Len(input) = Taken + Len(rest) /\ BodyAt(k) \in Nat /\ ends[k] \in Nat /\ Taken \in Nat
      /\ BodyAt(k) <= ends[k] /\ interrupts \in Nat
      /\ (IsContent(k) => BodyAt(k) < ends[k] /\ LengthOf(frames[k]) \in 1 .. Limit)
  BY HereFacts
<1>2. /\ pc = "header" /\ pc' \in {"header", "aborted"} /\ delivered' = delivered
      /\ content_length' = content_length /\ interrupts' = interrupts + 1
      /\ UNCHANGED clientVars /\ frames' = frames /\ ends' = ends
  BY DEF InterruptLine, clientVars
<1>3. PICK n \in 0 .. Len(Line(rest)) :
        /\ rest' = Drop(rest, n)
        /\ \A j \in 0 .. Len(Header(k)) : AtHeader(k, j) /\ j < Len(Header(k)) => n = 0
        /\ AtHeader(k, Len(Header(k))) /\ n # 0 => n = 1 /\ EndOfLine(k) = <<CR, NL>>
        /\ AtNewLine(k) => n = 0
  BY <1>1, InterruptMoves
<1>4. Len(Line(rest)) \in Nat /\ Len(Line(rest)) <= Len(rest) /\ n \in Nat /\ n \in 0 .. Len(rest)
  <2>1. Len(Line(rest)) \in 0 .. Len(rest)
    BY <1>1, LineShape
  <2> QED BY <1>1, <2>1
<1>5. RestIsInput' /\ Taken' = Taken + n /\ Len(rest') = Len(rest) - n
  BY <1>1, <1>2, <1>3, <1>4, RestMoves
<1>6. Taken <= Taken' /\ (n = 0 => Taken' = Taken)
  BY <1>1, <1>4, <1>5
<1>7. /\ EmptyLineAt(k) \in Nat /\ BodyAt(k) = EmptyLineAt(k) + Len(EndOfLine(k))
      /\ EmptyLineAt(k) < BodyAt(k) /\ LineAt(k, Len(Header(k))) = EmptyLineAt(k)
      /\ Len(Header(k)) \in Nat
  BY <1>1, Places
<1>8. ASSUME AtOwnLine(k)
      PROVE  Goes(k)
  <2>1. OwnLines(Body(k)) /\ BodyAt(k) <= Taken /\ Taken < ends[k] /\ content_length = 0
        /\ ~(LengthOf(frames[k]) \in 1 .. SignedMax)
    BY <1>2, <1>8 DEF AtOwnLine, Body
  <2>2. /\ Terminated => Taken + Len(Line(rest)) + 1 <= ends[k]
        /\ ~Terminated => Len(input) <= ends[k]
    BY <1>1, <2>1, TextAtOwnLine
  <2>3. Taken' <= ends[k] /\ (Terminated => Taken' < ends[k]) /\ BodyAt(k) <= Taken'
    <3> DEFINE c == Len(Line(rest))
               r == Len(rest)
    <3>1. c \in Nat /\ n \in Nat /\ n <= c /\ c <= r /\ r \in Nat /\ Len(input) = Taken + r
      BY <1>1, <1>4
    <3>2. Terminated => Taken + c + 1 <= ends[k]
      BY <2>2
    <3> HIDE DEF c, r
    <3>3. Terminated => Taken' < ends[k]
      BY <1>1, <1>5, <3>1, <3>2
    <3>4. ~Terminated => Taken' <= ends[k]
      BY <1>1, <1>5, <2>2, <3>1
    <3> QED BY <1>1, <1>5, <2>1, <3>1, <3>3, <3>4
  <2>4. rest' # <<>> => Taken' < ends[k]
    <3>1. rest' \in Seq(Symbol)
      BY <1>1, <1>3, <1>4, DropType
    <3>2. rest' # <<>> => Len(rest') # 0 /\ Len(rest') \in Nat
      BY <3>1
    <3>3. rest' # <<>> => Taken' < Len(input)
      BY <1>1, <1>4, <1>5, <3>2
    <3> QED BY <1>1, <1>4, <1>5, <2>2, <2>3, <3>3
  <2>5. rest' # <<>> => AtOwnLine(k)'
    BY <1>2, <2>1, <2>3, <2>4, ClientStays DEF AtOwnLine, Body
  <2>6. rest' # <<>> => At(k)'
    BY <2>5 DEF At
  <2>7. ~IsContent(k)
    BY <1>1, <2>1, LimitsAssumption
  <2> QED BY <1>2, <1>5, <1>6, <2>3, <2>6, <2>7, GoesOn
<1>9. ASSUME Taken' < BodyAt(k), Live' => At(k)'
      PROVE  Goes(k)
  <2>1. Taken' <= ends[k] /\ (IsContent(k) => ~(Taken' = ends[k]))
    BY <1>1, <1>4, <1>5, <1>9
  <2> QED BY <1>2, <1>5, <1>6, <1>9, <2>1, GoesOn
<1>10. ASSUME NEW j \in 0 .. Len(Header(k)), AtHeader(k, j), n = 0
       PROVE  Goes(k)
  <2>1. Taken = LineAt(k, j) /\ LineAt(k, j) <= EmptyLineAt(k) /\ Taken' = Taken
    BY <1>1, <1>6, <1>10, HeaderPlaces DEF AtHeader
  <2>2. Taken' < BodyAt(k)
    BY <1>1, <1>7, <2>1, SMTT(30)
  <2>3. Live' => AtHeader(k, j)'
    BY <1>2, <1>10, <2>1, ClientStays DEF AtHeader, Live
  <2>4. Live' => At(k)'
    BY <1>2, <2>3 DEF At, Header
  <2> QED BY <1>9, <2>2, <2>4
<1>11. ASSUME AtHeader(k, Len(Header(k))), n # 0
       PROVE  Goes(k)
  <2>1. n = 1 /\ EndOfLine(k) = <<CR, NL>> /\ Taken = EmptyLineAt(k)
        /\ LastLength(frames[k], Len(frames[k].header), content_length)
    BY <1>3, <1>7, <1>11 DEF AtHeader, Header
  <2>2. Len(EndOfLine(k)) = 2
    BY <2>1
  <2>3. Taken' = EmptyLineAt(k) + 1 /\ Taken' < BodyAt(k) /\ interrupts' > 0
    BY <1>1, <1>2, <1>5, <1>7, <2>1, <2>2
  <2>4. Live' => AtNewLine(k)'
    BY <1>2, <2>1, <2>3, ClientStays DEF AtNewLine, EndOfLine, Live
  <2>5. Live' => At(k)'
    BY <2>4 DEF At
  <2> QED BY <1>9, <2>3, <2>5
<1>12. ASSUME AtNewLine(k)
       PROVE  Goes(k)
  <2>1. n = 0 /\ EndOfLine(k) = <<CR, NL>> /\ Taken = EmptyLineAt(k) + 1
        /\ LastLength(frames[k], Len(frames[k].header), content_length)
    BY <1>3, <1>12 DEF AtNewLine, EndOfLine
  <2>2. Len(EndOfLine(k)) = 2
    BY <2>1
  <2>3. Taken' = EmptyLineAt(k) + 1 /\ Taken' < BodyAt(k) /\ interrupts' > 0
    BY <1>1, <1>2, <1>6, <1>7, <2>1, <2>2
  <2>4. Live' => AtNewLine(k)'
    BY <1>2, <2>1, <2>3, ClientStays DEF AtNewLine, EndOfLine, Live
  <2>5. Live' => At(k)'
    BY <2>4 DEF At
  <2> QED BY <1>9, <2>3, <2>5
<1>13. ~AtFrame(k) /\ ~AtBody(k)
  BY <1>2 DEF AtFrame, AtBody
<1>14. AtOwnLine(k) \/ AtNewLine(k) \/ \E j \in 0 .. Len(Header(k)) : AtHeader(k, j)
  BY <1>1, <1>13 DEF At, Header
<1>15. \A j \in 0 .. Len(Header(k)) : j < Len(Header(k)) \/ j = Len(Header(k))
  BY <1>7
<1> QED BY <1>3, <1>8, <1>10, <1>11, <1>12, <1>14, <1>15

LEMMA StepGoes ==
    ASSUME NEW k \in Written, Here(k), ReaderNext, ~disturbed'
    PROVE  Goes(k)
<1>1. ~InterruptContent
  BY DEF InterruptContent
<1> QED BY <1>1, LoopGoes, ReadLineGoes, LastLineGoes, NoContentGoes, TooBigGoes,
           ReadContentGoes, InterruptGoes DEF ReaderNext, ReaderStep

-----------------------------------------------------------------------------
(***************************************************************************)
(* The place of the reader is invariant.                                   *)
(***************************************************************************)
LEMMA ReaderAdvances ==
    ASSUME ReaderInv, ReaderNext
    PROVE  /\ UNCHANGED clientVars /\ Live /\ (disturbed => disturbed')
           /\ rest' \in Seq(Symbol) /\ rest \in Seq(Symbol)
           /\ Len(rest') <= Len(rest) /\ Len(rest') \in Nat /\ Len(rest) \in Nat
<1>1. /\ rest \in Seq(Symbol) /\ Len(rest) \in Nat /\ content_length \in Nat
      /\ Len(Line(rest)) \in 0 .. Len(rest) /\ Len(<<>>) = 0
  BY LineShape, LenProperties, LimitsAssumption DEF ReaderInv, ReaderTypeOK
<1>2. rest' \in Seq(Symbol) /\ Len(rest') \in Nat
  <2>1. ReaderInv'
    BY NextReaderInv
  <2> QED BY <2>1, LenProperties DEF ReaderInv, ReaderTypeOK
<1>3. ASSUME NEW n \in Nat, rest' = Drop(rest, n)
      PROVE  Len(rest') <= Len(rest)
  <2>1. CASE n <= Len(rest)
    <3>1. n \in 0 .. Len(rest)
      BY <1>1, <2>1
    <3>2. Len(rest') = Len(rest) - n
      BY <1>1, <1>3, <3>1, DropShape
    <3> QED BY <1>1, <3>2
  <2>2. CASE ~(n <= Len(rest))
    <3>1. Len(rest) <= n
      BY <1>1, <2>2
    <3>2. rest' = <<>>
      BY <1>1, <1>3, <3>1, DropType
    <3> QED BY <1>1, <3>2
  <2> QED BY <2>1, <2>2
<1>4. CASE Call \/ LoopEnds \/ BackOfEmptyLine \/ HeaderEnds \/ NoContent
  <2>1. UNCHANGED <<clientVars, rest, disturbed>> /\ pc \in {"call", "header", "size"}
    BY <1>4 DEF Call, LoopEnds, BackOfEmptyLine, HeaderEnds, NoContent, faultVars
  <2> QED BY <1>1, <1>2, <2>1 DEF Live
<1>5. CASE ReadLine
  <2>1. UNCHANGED <<clientVars, disturbed>> /\ pc \in {"call", "header", "size"}
        /\ rest' = Drop(rest, Len(Line(rest)) + 1)
    BY <1>5 DEF ReadLine, faultVars
  <2>2. Len(Line(rest)) + 1 \in Nat
    BY <1>1
  <2> QED BY <1>1, <1>2, <1>3, <2>1, <2>2 DEF Live
<1>6. CASE ReadLastLine \/ ReadLastLineAgain
  <2>1. UNCHANGED <<clientVars, disturbed>> /\ pc \in {"call", "header", "size"} /\ rest' = <<>>
    BY <1>6 DEF ReadLastLine, ReadLastLineAgain, faultVars
  <2> QED BY <1>1, <1>2, <2>1 DEF Live
<1>7. CASE TooBig \/ ReadContent
  <2>1. UNCHANGED <<clientVars, disturbed>> /\ pc \in {"call", "header", "size"}
        /\ (rest' = rest \/ rest' = <<>> \/ rest' = Drop(rest, content_length))
    BY <1>7 DEF TooBig, ReadContent, faultVars
  <2>2. Len(rest') <= Len(rest)
    BY <1>1, <1>3, <2>1
  <2> QED BY <1>1, <1>2, <2>1, <2>2 DEF Live
<1>8. CASE InterruptLine
  <2>1. PICK n \in 0 .. Len(Line(rest)), torn \in BOOLEAN :
          /\ torn => n < Len(Line(rest))
          /\ rest' = Remainder(rest, n, torn)
          /\ disturbed' = (disturbed \/ Meaning(Line(rest')) # Meaning(Line(rest)))
    BY <1>8 DEF InterruptLine, Remainder
  <2>2. UNCHANGED clientVars /\ pc \in {"call", "header", "size"} /\ (disturbed => disturbed')
    BY <1>8, <2>1 DEF InterruptLine
  <2>3. CASE ~torn
    <3>1. n \in Nat /\ rest' = Drop(rest, n)
      BY <1>1, <2>1, <2>3 DEF Remainder
    <3> QED BY <1>1, <1>2, <1>3, <2>2, <3>1 DEF Live
  <2>4. CASE torn
    <3>1. n + 1 \in 0 .. Len(rest) /\ n \in Nat
      BY <1>1, <2>1, <2>4
    <3>2. Drop(rest, n + 1) \in Seq(Symbol) /\ Len(Drop(rest, n + 1)) = Len(rest) - (n + 1)
      BY <1>1, <3>1, DropShape
    <3>3. rest' = <<OtherText>> \o Drop(rest, n + 1)
      BY <2>1, <2>4 DEF Remainder
    <3>4. <<OtherText>> \in Seq(Symbol) /\ Len(<<OtherText>>) = 1
      BY DEF OtherText, Symbol
    <3>5. Len(<<OtherText>> \o Drop(rest, n + 1)) = Len(<<OtherText>>) + Len(Drop(rest, n + 1))
      BY <3>2, <3>4, ConcatProperties
    <3>6. Len(rest') = 1 + (Len(rest) - (n + 1))
      BY <3>2, <3>3, <3>4, <3>5
    <3> QED BY <1>1, <1>2, <2>2, <3>1, <3>6 DEF Live
  <2> QED BY <2>3, <2>4
<1>9. CASE InterruptContent
  <2>1. PICK n \in 0 .. Len(rest) : rest' = Drop(rest, n)
    BY <1>9 DEF InterruptContent
  <2>2. UNCHANGED clientVars /\ pc \in {"call", "header", "size"} /\ disturbed'
    BY <1>9 DEF InterruptContent
  <2>3. n \in Nat
    BY <1>1
  <2> QED BY <1>1, <1>2, <1>3, <2>1, <2>2, <2>3 DEF Live
<1> QED BY <1>4, <1>5, <1>6, <1>7, <1>8, <1>9 DEF ReaderNext, ReaderStep

\* Framing is never found again.
LEMMA FramedBefore ==
    ASSUME ReaderInv, Layout, ReaderNext, Framed'
    PROVE  Framed /\ ~disturbed /\ ~disturbed'
<1>1. /\ UNCHANGED clientVars /\ (disturbed => disturbed') /\ input' = input /\ frames' = frames
      /\ Len(rest') <= Len(rest) /\ Len(rest') \in Nat /\ Len(rest) \in Nat
  BY ReaderAdvances DEF clientVars
<1>2. ~disturbed' /\ ~disturbed
  BY <1>1 DEF Framed
<1>3. ASSUME NEW n \in Written, KindOf(frames[n]) = "misframed"
      PROVE  Taken <= BeginOf(n)
  <2>1. Taken' <= BeginOf(n)'
    BY <1>1, <1>3, ClientStays DEF Framed
  <2>2. BeginOf(n)' = BeginOf(n) /\ BeginOf(n) \in Nat /\ Len(input) \in Nat
    BY <1>1, ClientStays, WrittenIndex, Places
  <2>3. Taken' = Len(input) - Len(rest') /\ Taken = Len(input) - Len(rest)
    BY <1>1 DEF Taken
  <2> QED BY <1>1, <2>1, <2>2, <2>3
<1> QED BY <1>2, <1>3 DEF Framed

LEMMA InitPlace == ASSUME ReaderInit PROVE ReaderPlace
<1>1. Layout /\ Len(input) \in Nat
  BY InitLayout, LenProperties DEF Layout
<1>2. rest = input /\ pc = "call"
  BY DEF ReaderInit
<1>3. SUFFICES ASSUME rest # <<>>
               PROVE  RestIsInput /\ \E k \in Written : At(k)
  BY DEF ReaderPlace
<1>4. Taken = 0
  BY <1>1, <1>2 DEF Taken
<1>5. RestIsInput
  <2>1. \A n \in 1 .. Len(rest) : Taken + n = n
    BY <1>1, <1>2, <1>4
  <2> QED BY <1>1, <1>2, <2>1 DEF RestIsInput
<1>6. Len(input) # 0
  BY <1>1, <1>2, <1>3 DEF Layout
<1>7. BeginOf(1) = 0
  BY DEF BeginOf
<1>8. Len(frames) # 0
  <2>1. Len(input) <= BeginOf(Len(frames) + 1)
    BY <1>1 DEF Layout
  <2>2. Len(frames) = 0 => Len(frames) + 1 = 1
    OBVIOUS
  <2> QED BY <1>1, <1>6, <1>7, <2>1, <2>2
<1>9. 1 \in Written
  <2>1. 1 \in 1 .. Len(frames) /\ DOMAIN frames = 1 .. Len(frames)
    BY <1>1, <1>8 DEF Layout
  <2> QED BY <1>1, <1>6, <1>7, <2>1 DEF Written
<1>10. At(1)
  BY <1>2, <1>4, <1>7 DEF At, AtFrame
<1> QED BY <1>5, <1>9, <1>10

LEMMA NextPlace ==
    ASSUME ReaderInv, Layout, ReaderPlace, [ReaderNext]_vars
    PROVE  Layout' /\ ReaderPlace'
<1>1. CASE UNCHANGED vars
  <2>1. /\ UNCHANGED clientVars /\ UNCHANGED <<input, frames, ends, rest, pc, content_length>>
        /\ UNCHANGED <<disturbed, interrupts>>
    BY <1>1 DEF vars, clientVars, faultVars
  <2>2. Taken' = Taken /\ Written' = Written /\ Layout' = Layout
    BY <2>1, ClientStays DEF Taken
  <2>3. RestIsInput' = RestIsInput /\ Live' = Live /\ Framed' = Framed
    BY <2>1, <2>2, ClientStays DEF RestIsInput, Live, Framed
  <2>4. ASSUME NEW k
        PROVE  At(k)' = At(k)
    <3>1. /\ BeginOf(k)' = BeginOf(k) /\ EmptyLineAt(k)' = EmptyLineAt(k)
          /\ BodyAt(k)' = BodyAt(k) /\ \A j : LineAt(k, j)' = LineAt(k, j)
      BY <2>1, ClientStays
    <3>2. /\ AtFrame(k)' = AtFrame(k) /\ AtNewLine(k)' = AtNewLine(k) /\ AtBody(k)' = AtBody(k)
          /\ AtOwnLine(k)' = AtOwnLine(k) /\ \A j : AtHeader(k, j)' = AtHeader(k, j)
      BY <2>1, <2>2, <3>1 DEF AtFrame, AtNewLine, AtBody, AtOwnLine, AtHeader
    <3> QED BY <2>1, <3>2 DEF At
  <2> QED BY <2>1, <2>2, <2>3, <2>4 DEF ReaderPlace
<1>2. CASE ReaderNext
  <2>1. /\ UNCHANGED clientVars /\ Live /\ Written' = Written /\ Layout' = Layout
        /\ rest' \in Seq(Symbol) /\ rest \in Seq(Symbol)
        /\ Len(rest') <= Len(rest) /\ Len(rest') \in Nat /\ Len(rest) \in Nat
    BY <1>2, ReaderAdvances, ClientStays
  <2>2. SUFFICES ASSUME Framed', rest' # <<>>, Live'
                 PROVE  RestIsInput' /\ \E k \in Written : At(k)'
    BY <2>1 DEF ReaderPlace
  <2>3. Framed /\ ~disturbed'
    BY <1>2, <2>2, FramedBefore
  <2>4. rest # <<>>
    <3>1. Len(rest') # 0
      BY <2>1, <2>2
    <3> QED BY <2>1, <3>1
  <2>5. PICK k \in Written : At(k)
    BY <2>1, <2>3, <2>4 DEF ReaderPlace
  <2>6. Here(k)
    BY <2>1, <2>3, <2>4, <2>5 DEF Here, ReaderPlace
  <2>7. Goes(k)
    BY <1>2, <2>3, <2>6, StepGoes
  <2> QED BY <2>2, <2>7 DEF Goes
<1> QED BY <1>1, <1>2

-----------------------------------------------------------------------------
(***************************************************************************)
(* Why the process may die.                                                *)
(***************************************************************************)
LEMMA InitWritten == ASSUME ReaderInit PROVE RestWritten
BY DEF ReaderInit, RestWritten, Range

LEMMA LessIsWritten ==
    ASSUME RestWritten, rest \in Seq(Symbol), UNCHANGED clientVars,
           NEW n \in Nat, rest' = Drop(rest, n) \/ rest' = <<OtherText>> \o Drop(rest, n)
    PROVE  RestWritten'
<1>1. Len(rest) \in Nat /\ input' = input
  BY LenProperties DEF clientVars
<1>2. Drop(rest, n) \in Seq(Symbol) /\ Len(Drop(rest, n)) \in Nat
  BY DropType, LenProperties
<1>3. ASSUME NEW i \in 1 .. Len(Drop(rest, n)), Drop(rest, n)[i].kind = "length"
      PROVE  Drop(rest, n)[i] \in Range(input)
  <2>1. n <= Len(rest)
    <3>1. ASSUME Len(rest) <= n
          PROVE  FALSE
      <4>1. Drop(rest, n) = <<>>
        BY <3>1, DropType
      <4>2. Len(Drop(rest, n)) = 0
        BY <4>1
      <4> QED BY <4>2
    <3> QED BY <1>1, <3>1
  <2>2. n \in 0 .. Len(rest)
    BY <1>1, <2>1
  <2>3. Len(Drop(rest, n)) = Len(rest) - n /\ \A j \in 1 .. Len(rest) - n : Drop(rest, n)[j] = rest[n + j]
    BY <2>2, DropShape
  <2>4. Drop(rest, n)[i] = rest[n + i]
    BY <2>3
  <2>5. n + i \in 1 .. Len(rest)
    BY <1>1, <2>2, <2>3
  <2> QED BY <1>3, <2>4, <2>5 DEF RestWritten
<1>4. CASE rest' = Drop(rest, n)
  BY <1>1, <1>2, <1>3, <1>4 DEF RestWritten
<1>5. CASE rest' = <<OtherText>> \o Drop(rest, n)
  <2>1. /\ Len(rest') = Len(Drop(rest, n)) + 1
        /\ rest'[1] = OtherText
        /\ \A i \in 1 .. Len(Drop(rest, n)) : rest'[i + 1] = Drop(rest, n)[i]
        /\ rest' \in Seq(Symbol)
    <3>1. OtherText \in Symbol
      BY DEF OtherText, Symbol
    <3> QED BY <1>2, <1>5, <3>1
  <2>2. ASSUME NEW i \in 1 .. Len(rest'), rest'[i].kind = "length"
        PROVE  rest'[i] \in Range(input)
    <3>1. i # 1
      BY <2>1, <2>2 DEF OtherText
    <3>2. i - 1 \in 1 .. Len(Drop(rest, n)) /\ (i - 1) + 1 = i
      BY <1>2, <2>1, <3>1
    <3>3. rest'[i] = Drop(rest, n)[i - 1]
      BY <2>1, <3>2
    <3> QED BY <1>3, <2>2, <3>2, <3>3
  <2> QED BY <1>1, <2>1, <2>2 DEF RestWritten
<1> QED BY <1>4, <1>5

LEMMA NextWritten ==
    ASSUME ReaderInv, RestWritten, [ReaderNext]_vars
    PROVE  RestWritten'
<1>1. /\ rest \in Seq(Symbol) /\ Len(Line(rest)) \in Nat /\ content_length \in Nat
  BY LineType, LimitsAssumption DEF ReaderInv, ReaderTypeOK
<1>2. CASE UNCHANGED vars
  BY <1>2 DEF RestWritten, vars, clientVars
<1>3. CASE ReaderNext
  <2>1. UNCHANGED clientVars
    BY <1>3, ReaderAdvances
  <2>2. input' = input
    BY <2>1 DEF clientVars
  <2>3. ASSUME rest' = rest \/ rest' = <<>>
        PROVE  RestWritten'
    BY <2>2, <2>3 DEF RestWritten
  <2>4. CASE InterruptLine
    <3>1. PICK n \in 0 .. Len(Line(rest)), torn \in BOOLEAN : rest' = Remainder(rest, n, torn)
      BY <2>4 DEF InterruptLine, Remainder
    <3>2. n \in Nat /\ n + 1 \in Nat
      BY <1>1
    <3> QED BY <1>1, <2>1, <3>1, <3>2, LessIsWritten DEF Remainder
  <2>5. CASE InterruptContent
    <3>1. PICK n \in 0 .. Len(rest) : rest' = Drop(rest, n)
      BY <2>5 DEF InterruptContent
    <3> QED BY <1>1, <2>1, <3>1, LessIsWritten
  <2>6. CASE ReadLine
    <3>1. rest' = Drop(rest, Len(Line(rest)) + 1) /\ Len(Line(rest)) + 1 \in Nat
      BY <1>1, <2>6 DEF ReadLine
    <3> QED BY <1>1, <2>1, <3>1, LessIsWritten
  <2>7. CASE TooBig \/ ReadContent
    <3>1. rest' = rest \/ rest' = <<>> \/ rest' = Drop(rest, content_length)
      BY <2>7 DEF TooBig, ReadContent
    <3> QED BY <1>1, <2>1, <2>3, <3>1, LessIsWritten
  <2>8. CASE \/ Call \/ LoopEnds \/ BackOfEmptyLine \/ HeaderEnds \/ NoContent
             \/ ReadLastLine \/ ReadLastLineAgain
    <3>1. rest' = rest \/ rest' = <<>>
      BY <2>8 DEF Call, LoopEnds, BackOfEmptyLine, HeaderEnds, NoContent, ReadLastLine,
                  ReadLastLineAgain
    <3> QED BY <2>3, <3>1
  <2> QED BY <1>3, <2>4, <2>5, <2>6, <2>7, <2>8 DEF ReaderNext, ReaderStep
<1> QED BY <1>2, <1>3

\* An empty line in a frame ends in a bare new line, or is of a content.
LEMMA EmptyLineHere ==
    ASSUME NEW k \in Written, Here(k), pc = "header", Line(rest) = <<>>
    PROVE  interrupts > 0 \/ frames[k].eol = <<NL>> \/ NL \in Range(frames[k].body)
<1>1. /\ Layout /\ RestIsInput /\ At(k) /\ k \in 1 .. Len(frames) /\ rest \in Seq(Symbol)
      /\ rest # <<>>
  BY HereFacts
<1>2. CASE AtNewLine(k)
  BY <1>2 DEF AtNewLine
<1>3. CASE AtOwnLine(k)
  <2>1. OwnLines(Body(k)) /\ BodyAt(k) <= Taken /\ Taken < ends[k]
    BY <1>3 DEF AtOwnLine, Body
  <2>2. NL \in Range(Body(k))
    BY <1>1, <2>1, TextAtOwnLine
  <2> QED BY <2>2 DEF Body
<1>4. ASSUME NEW j \in 0 .. Len(Header(k)), AtHeader(k, j)
      PROVE  frames[k].eol = <<NL>>
  <2>1. Taken = LineAt(k, j) /\ Len(Header(k)) \in Nat
    BY <1>1, <1>4, Places DEF AtHeader
  <2>2. CASE j < Len(Header(k))
    <3>1. rest[1] \in HeaderSymbol /\ BeginsWithEnd(Drop(rest, 1), EndOfLine(k))
          /\ EndOfLine(k) \in {<<NL>>, <<CR, NL>>}
      BY <1>1, <2>1, <2>2, TextAtHeader
    <3> QED BY <1>1, <3>1, HeaderLine
  <2>3. CASE j = Len(Header(k))
    <3>1. Taken = EmptyLineAt(k)
      BY <1>1, <2>1, <2>3, Places
    <3>2. BeginsWithEnd(rest, EndOfLine(k)) /\ EndOfLine(k) \in {<<NL>>, <<CR, NL>>}
      BY <1>1, <3>1, TextAtEmptyLine
    <3> QED BY <1>1, <3>2, EmptyLine DEF EndOfLine
  <2> QED BY <2>1, <2>2, <2>3
<1>5. ~AtFrame(k) /\ ~AtBody(k)
  BY DEF AtFrame, AtBody
<1> QED BY <1>1, <1>2, <1>3, <1>4, <1>5 DEF At, Header

\* A length that aborts is one that the client wrote.
LEMMA LengthAborts ==
    ASSUME ReaderInv, RestWritten, rest # <<>>, input \in Seq(Symbol),
           IsLength(Trim(Line(rest))), Trim(Line(rest))[1].value > UnsignedMax
    PROVE  Overflows(input)
<1>1. /\ rest \in Seq(Symbol) /\ Line(rest) \in Seq(Symbol) /\ Len(rest) \in Nat
      /\ Len(Line(rest)) \in 0 .. Len(rest)
      /\ \A i \in 1 .. Len(Line(rest)) : Line(rest)[i] = rest[i]
  BY LineShape, LenProperties DEF ReaderInv, ReaderTypeOK
<1>2. Len(Trim(Line(rest))) = 1
  BY DEF IsLength
<1>3. 1 \in 1 .. Len(Line(rest)) /\ Trim(Line(rest))[1] = Line(rest)[1]
  BY <1>1, <1>2, TrimFirst
<1>4. Line(rest)[1] = rest[1] /\ 1 \in DOMAIN rest
  BY <1>1, <1>3
<1>5. rest[1].kind = "length" /\ rest[1].value > UnsignedMax
  BY <1>3, <1>4 DEF IsLength
<1>6. rest[1] \in Range(input)
  BY <1>4, <1>5 DEF RestWritten
<1>7. PICK n \in DOMAIN input : input[n] = rest[1]
  BY <1>6 DEF Range
<1> QED BY <1>5, <1>7 DEF Overflows

LEMMA NextAborts ==
    ASSUME ReaderInv, Layout, ReaderPlace, RestWritten, AbortsExplained, [ReaderNext]_vars
    PROVE  AbortsExplained'
<1>1. CASE UNCHANGED vars
  <2>1. UNCHANGED clientVars /\ UNCHANGED <<input, checked, frames, rest, pc, interrupts, disturbed>>
    BY <1>1 DEF vars, clientVars, faultVars
  <2>2. Framed' = Framed
    BY <2>1, ClientStays DEF Framed, Taken
  <2> QED BY <2>1, <2>2 DEF AbortsExplained
<1>2. CASE ReaderNext
  <2>1. /\ UNCHANGED clientVars /\ input' = input /\ checked' = checked /\ frames' = frames
        /\ input \in Seq(Symbol) /\ rest \in Seq(Symbol)
    BY <1>2, ReaderAdvances DEF clientVars, Layout
  <2>2. SUFFICES ASSUME pc' = "aborted", ~Overflows(input)
                 PROVE  /\ checked
                        /\ \/ interrupts' > 0 \/ rest' = <<>> \/ ~Framed
                           \/ \E n \in DOMAIN frames : frames[n].eol = <<NL>> \/ NL \in Range(frames[n].body)
    BY <1>2, <2>1, FramedBefore DEF AbortsExplained
  <2>3. ~(IsLength(Trim(Line(rest))) /\ Trim(Line(rest))[1].value > UnsignedMax) \/ rest = <<>>
    BY <2>1, <2>2, LengthAborts
  <2>4. ~ReadLine
    <3>1. ASSUME ReadLine
          PROVE  FALSE
      <4>1. rest # <<>>
        <5>1. NewLines(rest) # {}
          BY <3>1 DEF ReadLine, Terminated
        <5> QED BY <5>1 DEF NewLines
      <4> QED BY <2>2, <2>3, <3>1, <4>1 DEF ReadLine, TestLine
    <3> QED BY <3>1
  <2>5. ~ReadLastLine
    <3>1. ASSUME ReadLastLine
          PROVE  FALSE
      <4>1. Line(rest) = rest
        BY <2>1, <3>1, LineShape DEF ReadLastLine, Terminated
      <4>2. rest # <<>>
        <5>1. ASSUME rest = <<>>
              PROVE  FALSE
          <6>1. Trim(rest) = <<>>
            BY <5>1, Trims
          <6> QED BY <2>2, <3>1, <6>1 DEF ReadLastLine, TestLine
        <5> QED BY <5>1
      <4> QED BY <2>2, <2>3, <3>1, <4>1, <4>2 DEF ReadLastLine, TestLine
    <3> QED BY <3>1
  <2>6. CASE InterruptLine
    <3>1. checked /\ interrupts' = interrupts + 1 /\ interrupts \in Nat
      BY <2>2, <2>6, BoundsAssumption DEF InterruptLine, ReaderInv, ReaderTypeOK
    <3> QED BY <3>1
  <2>7. CASE BackOfEmptyLine
    <3>1. checked /\ Line(rest) = <<>> /\ pc = "header" /\ rest' = rest /\ interrupts' = interrupts
      BY <2>7 DEF BackOfEmptyLine, BackAborts, faultVars
    <3>2. ASSUME Framed, rest # <<>>
          PROVE  \/ interrupts > 0
                 \/ \E n \in DOMAIN frames : frames[n].eol = <<NL>> \/ NL \in Range(frames[n].body)
      <4>1. PICK k \in Written : At(k)
        BY <3>1, <3>2 DEF ReaderPlace, Live
      <4>2. Here(k)
        BY <3>1, <3>2, <4>1 DEF Here, ReaderPlace, Live
      <4>3. k \in DOMAIN frames
        BY DEF Written
      <4> QED BY <3>1, <4>2, <4>3, EmptyLineHere
    <3> QED BY <3>1, <3>2
  <2>8. ~(\/ Call \/ LoopEnds \/ ReadLastLineAgain \/ HeaderEnds \/ TooBig \/ NoContent
          \/ ReadContent \/ InterruptContent)
    <3>1. ReadLastLineAgain => pc' # "aborted"
      BY DEF ReadLastLineAgain
    <3> QED BY <2>2, <3>1 DEF Call, LoopEnds, HeaderEnds, TooBig, NoContent, ReadContent,
                              InterruptContent
  <2> QED BY <1>2, <2>4, <2>5, <2>6, <2>7, <2>8 DEF ReaderNext, ReaderStep
<1> QED BY <1>1, <1>2

-----------------------------------------------------------------------------
(***************************************************************************)
(* The frames that are written, passed and left.                           *)
(***************************************************************************)
LEMMA WrittenShape ==
    ASSUME Layout
    PROVE  Cardinality(Written) \in 0 .. Len(frames) /\ Written = 1 .. Cardinality(Written)
<1>1. Len(frames) \in Nat /\ Written \subseteq 1 .. Len(frames) /\ Len(input) \in Nat
  BY LenProperties DEF Layout, Written
<1>2. ASSUME NEW k \in Written, NEW m \in 1 .. Len(frames), m < k
      PROVE  m \in Written
  <2>1. k \in 1 .. Len(frames) /\ BeginOf(k) < Len(input)
    BY WrittenIndex
  <2>2. /\ BeginOf(m) \in Nat /\ ends[m] \in Nat /\ BeginOf(k) \in Nat
        /\ BeginOf(m) < BodyAt(m) /\ BodyAt(m) <= ends[m] /\ BodyAt(m) \in Nat
    BY <2>1, Places
  <2>3. ends[m] <= BeginOf(k)
    BY <1>2, <2>1 DEF Layout
  <2>4. BeginOf(m) < Len(input)
    BY <1>1, <2>1, <2>2, <2>3
  <2> QED BY <2>4 DEF Written, Layout
<1> QED BY <1>1, <1>2, InitialSegment

LEMMA PassedShape ==
    ASSUME Layout, NEW t \in Int
    PROVE  Cardinality({ n \in Written : ends[n] <= t }) \in 0 .. Cardinality(Written)
<1> DEFINE w == Cardinality(Written)
           P == { n \in Written : ends[n] <= t }
<1>1. w \in Nat /\ Written = 1 .. w /\ P \subseteq Written
  BY WrittenShape DEF Layout
<1>2. ASSUME NEW k \in P, NEW m \in 1 .. w, m < k
      PROVE  m \in P
  <2>1. m \in Written /\ k \in Written /\ ends[k] <= t
    BY <1>1
  <2>2. m \in 1 .. Len(frames) /\ k \in 1 .. Len(frames)
    BY <2>1, WrittenIndex
  <2>3. ends[m] <= BeginOf(k)
    BY <1>2, <2>2 DEF Layout
  <2>4. /\ BeginOf(k) < BodyAt(k) /\ BodyAt(k) <= ends[k] /\ BodyAt(k) \in Nat
        /\ BeginOf(k) \in Nat /\ ends[k] \in Nat /\ ends[m] \in Nat
    BY <2>2, Places
  <2>5. ends[m] <= t
    BY <2>1, <2>3, <2>4
  <2> QED BY <2>1, <2>5
<1>3. P \subseteq 1 .. w
  BY <1>1
<1> HIDE DEF P, w
<1>4. Cardinality(P) \in 0 .. w
  BY <1>1, <1>2, <1>3, InitialSegment
<1> QED BY <1>4 DEF P, w

\* How many are behind a place of frame k.
LEMMA PassedAt ==
    ASSUME Layout, NEW k \in Written, NEW t \in Nat, BeginOf(k) <= t, t <= ends[k]
    PROVE  Cardinality({ n \in Written : ends[n] <= t }) = IF t < ends[k] THEN k - 1 ELSE k
<1> DEFINE w == Cardinality(Written)
           P == { n \in Written : ends[n] <= t }
           p == IF t < ends[k] THEN k - 1 ELSE k
<1>1. w \in Nat /\ Written = 1 .. w /\ k \in 1 .. Len(frames) /\ ends[k] \in Nat
  BY WrittenShape, WrittenIndex, Places DEF Layout
<1>2. p \in Nat /\ p <= w
  BY <1>1
<1>3. ASSUME NEW n \in Written
      PROVE  /\ n < k => ends[n] <= t
             /\ k < n => ~(ends[n] <= t)
  <2>1. n \in 1 .. Len(frames)
    BY WrittenIndex
  <2>2. /\ BeginOf(n) \in Nat /\ BodyAt(n) \in Nat /\ ends[n] \in Nat /\ BeginOf(k) \in Nat
        /\ BeginOf(n) < BodyAt(n) /\ BodyAt(n) <= ends[n]
    BY <1>1, <2>1, Places
  <2>3. (n < k => ends[n] <= BeginOf(k)) /\ (k < n => ends[k] <= BeginOf(n))
    BY <1>1, <2>1 DEF Layout
  <2> QED BY <1>1, <2>2, <2>3
<1>4. \A n \in Written : n \in P <=> n \in 1 .. p
  <2>1. ASSUME NEW n \in Written
        PROVE  ends[n] <= t <=> n \in 1 .. p
    <3>1. n \in Nat /\ n # 0 /\ k \in Nat
      BY <1>1
    <3>2. CASE n < k
      BY <1>3, <3>1, <3>2
    <3>3. CASE k < n
      BY <1>3, <3>1, <3>3
    <3>4. CASE n = k
      <4>1. ends[n] <= t <=> ~(t < ends[k])
        BY <1>1, <3>4
      <4> QED BY <3>1, <3>4, <4>1
    <3> QED BY <3>1, <3>2, <3>3, <3>4
  <2> QED BY <2>1
<1>5. P \subseteq Written /\ 1 .. p \subseteq Written
  BY <1>1, <1>2
<1>6. P = 1 .. p
  <2> HIDE DEF P, p
  <2> QED BY <1>4, <1>5
<1>7. Cardinality(1 .. p) = p
  <2> HIDE DEF p
  <2>1. Cardinality(1 .. p) = IF 1 > p THEN 0 ELSE p - 1 + 1
    BY <1>2, FS_Interval
  <2> QED BY <1>2, <2>1
<1> QED BY <1>6, <1>7

\* The frames behind the first p of w.
LeftOf(w, p) == [ i \in 1 .. w - p |-> AbstractFrame(p + i) ]

LEMMA LeftTakes ==
    ASSUME NEW w \in Nat, NEW k \in 1 .. w
    PROVE  /\ LeftOf(w, k - 1) # <<>> /\ Head(LeftOf(w, k - 1)) = AbstractFrame(k)
           /\ Tail(LeftOf(w, k - 1)) = LeftOf(w, k)
<1> DEFINE s == LeftOf(w, k - 1)
           n == w - (k - 1)
<1>1. n \in Nat /\ n # 0 /\ n - 1 = w - k /\ n - 1 \in Nat
  OBVIOUS
<1>2. s = [ i \in 1 .. n |-> AbstractFrame(k - 1 + i) ]
  BY DEF LeftOf
<1> HIDE DEF n, s
<1>3. DOMAIN s = 1 .. n /\ \A i \in 1 .. n : s[i] = AbstractFrame(k - 1 + i)
  BY <1>2
<1> DEFINE S == { AbstractFrame(i) : i \in Nat }
<1>4. s \in Seq(S) /\ Len(s) = n
  <2>1. ASSUME NEW i \in 1 .. n
        PROVE  AbstractFrame(k - 1 + i) \in S
    <3>1. k - 1 + i \in Nat
      BY <1>1
    <3> QED BY <3>1
  <2> HIDE DEF S
  <2>2. s \in [1 .. n -> S]
    BY <1>2, <2>1
  <2> QED BY <1>1, <2>2
<1> HIDE DEF S
<1>5. s # <<>>
  BY <1>1, <1>4
<1>6. Head(s) = AbstractFrame(k)
  <2>1. 1 \in 1 .. n /\ k - 1 + 1 = k
    BY <1>1
  <2> QED BY <1>3, <1>5, <2>1
<1>7. Tail(s) \in Seq(S) /\ Len(Tail(s)) = n - 1 /\ \A i \in 1 .. n - 1 : Tail(s)[i] = s[i + 1]
  BY <1>1, <1>4, <1>5, HeadTailProperties
<1>8. ASSUME NEW i \in 1 .. n - 1
      PROVE  s[i + 1] = AbstractFrame(k + i)
  <2>1. i + 1 \in 1 .. n /\ k - 1 + (i + 1) = k + i
    BY <1>1
  <2> QED BY <1>3, <2>1
<1>9. Tail(s) = [ i \in 1 .. n - 1 |-> AbstractFrame(k + i) ]
  <2>1. Tail(s) \in [1 .. n - 1 -> S]
    BY <1>7, LenProperties
  <2> QED BY <1>7, <1>8, <2>1
<1>10. Tail(s) = LeftOf(w, k)
  BY <1>1, <1>9 DEF LeftOf
<1> QED BY <1>5, <1>6, <1>10 DEF s

LEMMA NoneLeft == ASSUME NEW w \in Nat PROVE LeftOf(w, w) = <<>>
<1>1. w - w = 0 /\ 1 .. 0 = {}
  OBVIOUS
<1>2. LeftOf(w, w) \in Seq({}) /\ Len(LeftOf(w, w)) = 0
  BY <1>1 DEF LeftOf
<1> QED BY <1>2, EmptySeq

LEMMA FrameAbstracted ==
    ASSUME Layout, NEW k \in 1 .. Len(frames)
    PROVE  AbstractFrame(k) \in Promise!Frame
<1>1. frames[k] \in Frame /\ KindOf(frames[k]) \in {"content", "skipped", "misframed"}
  BY Places, Kinds, LengthOfType
<1>2. frames[k].body \in Seq(Symbol)
  BY <1>1, FrameTyped
<1> DEFINE kind == IF KindOf(frames[k]) = "content" /\ ends[k] > Len(input)
                   THEN "skipped" ELSE KindOf(frames[k])
           content == IF kind = "content" THEN <<frames[k].body>> ELSE <<>>
<1>3. kind \in {"content", "skipped", "misframed"}
  BY <1>1
<1>4. content \in Seq(Seq(Symbol)) /\ Len(content) = IF kind = "content" THEN 1 ELSE 0
  BY <1>2
<1>5. AbstractFrame(k) = [kind |-> kind, content |-> content]
  BY DEF AbstractFrame
<1> HIDE DEF kind, content
<1>6. [kind |-> kind, content |-> content] \in Promise!Frame
  BY <1>3, <1>4 DEF Promise!Frame
<1> QED BY <1>5, <1>6

LEMMA LeftType ==
    ASSUME Layout, NEW p \in Nat, p <= Cardinality(Written)
    PROVE  LeftOf(Cardinality(Written), p) \in Seq(Promise!Frame)
<1> DEFINE w == Cardinality(Written)
<1>1. w \in Nat /\ w <= Len(frames) /\ Len(frames) \in Nat
  BY WrittenShape DEF Layout
<1> HIDE DEF w
<1>2. w - p \in Nat
  BY <1>1 DEF w
<1>3. ASSUME NEW i \in 1 .. w - p
      PROVE  AbstractFrame(p + i) \in Promise!Frame
  <2>1. p + i \in 1 .. Len(frames)
    BY <1>1, <1>2
  <2> QED BY <2>1, FrameAbstracted
<1>4. LeftOf(w, p) \in [1 .. w - p -> Promise!Frame]
  BY <1>3 DEF LeftOf
<1>5. LeftOf(w, p) \in Seq(Promise!Frame)
  BY <1>2, <1>4
<1> QED BY <1>5 DEF w

-----------------------------------------------------------------------------
(***************************************************************************)
(* Every step is one of FrameReader, or none.                              *)
(***************************************************************************)
LEMMA LeftNow ==
    /\ FramesLeft = IF Framed THEN LeftOf(Cardinality(Written), Cardinality(Passed)) ELSE <<>>
    /\ Passed = IF rest = <<>> THEN Written ELSE { n \in Written : ends[n] <= Taken }
BY DEF FramesLeft, LeftOf, Passed

LEMMA LeftNext ==
    ASSUME UNCHANGED clientVars
    PROVE  /\ FramesLeft' = IF Framed' THEN LeftOf(Cardinality(Written), Cardinality(Passed')) ELSE <<>>
           /\ Passed' = IF rest' = <<>> THEN Written ELSE { n \in Written : ends[n] <= Taken' }
<1>1. frames' = frames /\ ends' = ends /\ input' = input /\ Written' = Written
  BY ClientStays DEF clientVars
<1>2. \A n : AbstractFrame(n)' = AbstractFrame(n)
  BY <1>1 DEF AbstractFrame
<1> QED BY <1>1, <1>2 DEF FramesLeft, LeftOf, Passed

LEMMA LeftHere ==
    ASSUME NEW k \in Written, Here(k)
    PROVE  FramesLeft = LeftOf(Cardinality(Written), IF Taken < ends[k] THEN k - 1 ELSE k)
<1>1. /\ Layout /\ Framed /\ rest # <<>> /\ Taken \in Nat
      /\ BeginOf(k) <= Taken /\ Taken <= ends[k]
  BY HereFacts DEF Here
<1>2. Cardinality({ n \in Written : ends[n] <= Taken }) = IF Taken < ends[k] THEN k - 1 ELSE k
  BY <1>1, PassedAt
<1> QED BY <1>1, <1>2, LeftNow

LEMMA LeftBehind ==
    ASSUME NEW k \in Written, Here(k), UNCHANGED clientVars, Goes(k), rest' \in Seq(Symbol), Framed'
    PROVE  FramesLeft' = LeftOf(Cardinality(Written),
                                IF Taken' < ends[k] /\ rest' # <<>> THEN k - 1 ELSE k)
<1>1. /\ Layout /\ BeginOf(k) \in Nat /\ ends[k] \in Nat /\ Taken \in Nat
      /\ k \in 1 .. Len(frames) /\ Len(input) \in Nat
  BY HereFacts
<1>2. Taken' = Len(input) - Len(rest') /\ Len(rest') \in Nat
  BY LenProperties DEF Taken, clientVars
<1>3. BeginOf(k) <= Taken' /\ Taken' <= ends[k]
  <2>1. BeginOf(k) <= Taken /\ Taken <= Taken' /\ Taken' <= ends[k]
    BY DEF Goes
  <2> QED BY <1>1, <1>2, <2>1
<1>4. Taken' \in Nat
  BY <1>1, <1>2, <1>3
<1>5. Cardinality({ n \in Written : ends[n] <= Taken' }) = IF Taken' < ends[k] THEN k - 1 ELSE k
  BY <1>1, <1>3, <1>4, PassedAt
<1>6. CASE rest' # <<>>
  BY <1>5, <1>6, LeftNext
<1>7. CASE rest' = <<>>
  <2>1. Taken' = Len(input)
    BY <1>1, <1>2, <1>7
  <2>2. Written = 1 .. Cardinality(Written) /\ Cardinality(Written) \in Nat
    BY <1>1, WrittenShape DEF Layout
  <2>3. ASSUME NEW n \in Written
        PROVE  n <= k
    <3>1. n \in 1 .. Len(frames) /\ BeginOf(n) < Len(input)
      BY <1>1, WrittenIndex
    <3>2. k < n => ends[k] <= BeginOf(n)
      BY <1>1, <3>1 DEF Layout
    <3>3. BeginOf(n) \in Nat
      BY <1>1, <3>1, Places
    <3> QED BY <1>1, <1>3, <2>1, <3>1, <3>2, <3>3
  <2>4. Cardinality(Written) = k
    <3>1. k \in Nat /\ k # 0 /\ k <= Cardinality(Written)
      BY <2>2
    <3>2. Cardinality(Written) \in Written
      <4>1. Cardinality(Written) \in 1 .. Cardinality(Written)
        BY <2>2, <3>1
      <4> QED BY <2>2, <4>1
    <3> QED BY <2>2, <2>3, <3>1, <3>2
  <2>5. FramesLeft' = LeftOf(Cardinality(Written), Cardinality(Written))
    BY <1>7, LeftNext
  <2> QED BY <1>7, <2>4, <2>5
<1> QED BY <1>6, <1>7

\* Within a frame that is what it says, and up to its end, framing is kept.
LEMMA KeepsFraming ==
    ASSUME NEW k \in Written, Here(k), UNCHANGED clientVars, Goes(k), rest' \in Seq(Symbol),
           ~disturbed', KindOf(frames[k]) # "misframed" \/ Taken' = Taken
    PROVE  Framed'
<1>1. /\ Layout /\ Framed /\ BeginOf(k) \in Nat /\ ends[k] \in Nat /\ Taken \in Nat
      /\ k \in 1 .. Len(frames) /\ BeginOf(k) <= Taken
  BY HereFacts DEF Here
<1>2. Taken' <= ends[k] /\ Taken' \in Int
  BY LenProperties, <1>1 DEF Goes, Taken, clientVars, Layout
<1>3. ASSUME NEW n \in Written, KindOf(frames[n]) = "misframed"
      PROVE  Taken' <= BeginOf(n)
  <2>1. Taken <= BeginOf(n) /\ n \in 1 .. Len(frames)
    BY <1>1, <1>3, WrittenIndex DEF Framed
  <2>2. CASE Taken' = Taken
    BY <2>1, <2>2
  <2>3. CASE KindOf(frames[k]) # "misframed"
    <3>1. n # k
      BY <1>3, <2>3
    <3>2. /\ BeginOf(n) \in Nat /\ BodyAt(n) \in Nat /\ ends[n] \in Nat
          /\ BeginOf(n) < BodyAt(n) /\ BodyAt(n) <= ends[n]
      BY <1>1, <2>1, Places
    <3>3. (n < k => ends[n] <= BeginOf(k)) /\ (k < n => ends[k] <= BeginOf(n))
      BY <1>1, <2>1 DEF Layout
    <3>4. ~(n < k)
      BY <1>1, <2>1, <3>2, <3>3
    <3>5. k < n
      BY <1>1, <2>1, <3>1, <3>4
    <3> QED BY <1>1, <1>2, <3>2, <3>3, <3>5
  <2> QED BY <2>2, <2>3
<1>4. frames' = frames /\ Written' = Written /\ \A n : BeginOf(n)' = BeginOf(n)
  BY ClientStays DEF clientVars
<1> QED BY <1>3, <1>4 DEF Framed

\* What any step does to what FrameReader sees.
LEMMA StepSeen ==
    ASSUME ReaderInv, ReaderNext
    PROVE  /\ pc # "ended" /\ (pc' = "ended" => LoopEnds) /\ disturbed' \in BOOLEAN
           /\ delivered \in Seq(Seq(Symbol))
           /\ delivered' = delivered \/ \E c \in Seq(Symbol) : delivered' = Append(delivered, c)
           /\ disturbed' /\ ~disturbed => delivered' = delivered /\ pc' # "ended"
           /\ rest = <<>> => delivered' = delivered
<1>1. /\ delivered \in Seq(Seq(Symbol)) /\ rest \in Seq(Symbol) /\ disturbed' \in BOOLEAN
      /\ delivered' \in Seq(Seq(Symbol)) /\ content_length \in Nat
  <2>1. ReaderInv'
    BY NextReaderInv
  <2> QED BY <2>1, LimitsAssumption DEF ReaderInv, ReaderTypeOK
<1>2. pc # "ended"
  BY ReaderAdvances DEF Live
<1>3. CASE ReadContent
  <2>1. /\ disturbed' = disturbed /\ pc' = "call"
        /\ \/ delivered' = delivered
           \/ /\ content_length \in 1 .. Limit /\ content_length <= Len(rest)
              /\ delivered' = Append(delivered, SubSeq(rest, 1, content_length))
    BY <1>3 DEF ReadContent, faultVars
  <2>2. ASSUME content_length \in 1 .. Limit, content_length <= Len(rest)
        PROVE  SubSeq(rest, 1, content_length) \in Seq(Symbol) /\ rest # <<>>
    <3>1. content_length \in 1 .. Len(rest) /\ Len(rest) \in Nat
      BY <1>1, <2>2, LenProperties
    <3>2. \A i \in 1 .. content_length : rest[i] \in Symbol
      BY <1>1, <3>1, ElementOfSeq
    <3> QED BY <1>1, <3>1, <3>2, SubSeqProperties
  <2> QED BY <1>1, <1>2, <2>1, <2>2
<1>4. CASE InterruptLine \/ InterruptContent
  <2>1. delivered' = delivered /\ pc' # "ended"
    BY <1>4 DEF InterruptLine, InterruptContent
  <2> QED BY <1>1, <1>2, <2>1
<1>5. CASE \/ Call \/ LoopEnds \/ ReadLine \/ ReadLastLine \/ ReadLastLineAgain
           \/ BackOfEmptyLine \/ HeaderEnds \/ TooBig \/ NoContent
  <2>1. delivered' = delivered /\ disturbed' = disturbed
    BY <1>5 DEF Call, LoopEnds, ReadLine, ReadLastLine, ReadLastLineAgain, BackOfEmptyLine,
                HeaderEnds, TooBig, NoContent, faultVars
  <2>2. pc' = "ended" => LoopEnds
    BY <1>2, <1>5 DEF Call, ReadLine, ReadLastLine, ReadLastLineAgain, BackOfEmptyLine,
                      HeaderEnds, TooBig, NoContent, TestLine
  <2> QED BY <1>1, <1>2, <2>1, <2>2
<1> QED BY <1>3, <1>4, <1>5 DEF ReaderNext, ReaderStep

LEMMA GuessRefines ==
    ASSUME ReaderInv, Layout, ReaderNext, ~Framed
    PROVE  Promise!Guess
<1>1. ~Framed' /\ UNCHANGED clientVars /\ (disturbed => disturbed')
  BY FramedBefore, ReaderAdvances
<1>2. FramesLeft = <<>> /\ FramesLeft' = <<>>
  BY <1>1, LeftNow, LeftNext
<1>3. delivered = SubSeq(delivered', 1, Len(delivered))
  <2>1. delivered \in Seq(Seq(Symbol)) /\ Len(delivered) \in Nat
    BY StepSeen, LenProperties
  <2>2. ASSUME NEW s \in Seq(Seq(Symbol)), Len(delivered) <= Len(s),
               \A i \in 1 .. Len(delivered) : s[i] = delivered[i]
        PROVE  delivered = SubSeq(s, 1, Len(delivered))
    <3>1. \A i \in 1 .. Len(delivered) : s[i] \in Seq(Symbol)
      BY <2>1, <2>2, ElementOfSeq
    <3>2. /\ SubSeq(s, 1, Len(delivered)) \in Seq(Seq(Symbol))
          /\ Len(SubSeq(s, 1, Len(delivered))) = Len(delivered)
          /\ \A i \in 1 .. Len(delivered) : SubSeq(s, 1, Len(delivered))[i] = s[i]
      BY <2>1, <2>2, <3>1
    <3> QED BY <2>1, <2>2, <3>2, SeqEqual
  <2>3. CASE delivered' = delivered
    BY <2>1, <2>2, <2>3
  <2>4. CASE \E c \in Seq(Symbol) : delivered' = Append(delivered, c)
    <3>1. PICK c \in Seq(Symbol) : delivered' = Append(delivered, c)
      BY <2>4
    <3>2. /\ Append(delivered, c) \in Seq(Seq(Symbol))
          /\ Len(delivered) <= Len(Append(delivered, c))
          /\ \A i \in 1 .. Len(delivered) : Append(delivered, c)[i] = delivered[i]
      BY <2>1
    <3> QED BY <2>2, <3>1, <3>2
  <2> QED BY <2>3, <2>4, StepSeen
<1>4. pc # "ended"
  BY StepSeen
<1>5. Framed' = Framed
  <2>1. Framed = FALSE
    BY DEF Framed
  <2>2. Framed' = FALSE
    BY <1>1 DEF Framed
  <2> QED BY <2>1, <2>2
<1>6. UNCHANGED <<FramesLeft, Framed>>
  BY <1>2, <1>5
<1>7. pc = "ended" => (pc = "ended")'
  BY <1>4
<1> QED BY <1>1, <1>3, <1>6, <1>7, Zenon DEF Promise!Guess

LEMMA InterruptRefines ==
    ASSUME ReaderInv, Layout, ReaderNext, Framed, disturbed'
    PROVE  Promise!Interrupt
<1>1. ~Framed' /\ UNCHANGED clientVars /\ ~disturbed
  BY ReaderAdvances DEF Framed
<1>2. FramesLeft' = <<>>
  BY <1>1, LeftNext
<1>3. delivered' = delivered /\ pc' # "ended" /\ pc # "ended" /\ disturbed' = TRUE
  BY <1>1, StepSeen
<1>4. Framed' = FALSE
  BY <1>1
<1> QED BY <1>2, <1>3, <1>4 DEF Promise!Interrupt

LEMMA EndRefines ==
    ASSUME ReaderInv, Layout, ReaderNext, Framed, ~disturbed', rest = <<>>
    PROVE  Promise!End \/ UNCHANGED Promise!frameVars
<1>1. /\ UNCHANGED clientVars /\ ~disturbed /\ rest' \in Seq(Symbol)
      /\ Len(rest') <= Len(rest) /\ Len(rest') \in Nat /\ Len(rest) \in Nat
  BY ReaderAdvances DEF Framed
<1>2. rest' = <<>>
  <2>1. Len(rest') = 0
    BY <1>1
  <2> QED BY <1>1, <2>1, EmptySeq
<1>3. frames' = frames /\ input' = input /\ Written' = Written /\ \A n : BeginOf(n)' = BeginOf(n)
  BY <1>1, ClientStays DEF clientVars
<1>4. Taken' = Taken
  BY <1>2, <1>3 DEF Taken
<1>5. Framed'
  BY <1>3, <1>4 DEF Framed
<1>6. Cardinality(Written) \in Nat
  BY WrittenShape DEF Layout
<1>7. FramesLeft = <<>> /\ FramesLeft' = <<>>
  BY <1>1, <1>2, <1>5, <1>6, LeftNow, LeftNext, NoneLeft
<1>8. delivered' = delivered /\ pc # "ended"
  BY StepSeen
<1>9. Framed' = Framed
  BY <1>5
<1>10. disturbed' = disturbed
  <2>1. disturbed' \in BOOLEAN /\ disturbed \in BOOLEAN
    BY StepSeen DEF ReaderInv, ReaderTypeOK
  <2> QED BY <1>1, <2>1
<1>11. CASE pc' = "ended"
  <2>1. (pc' = "ended") = TRUE
    BY <1>11
  <2> QED BY <1>7, <1>8, <1>9, <1>10, <2>1 DEF Promise!End
<1>12. CASE pc' # "ended"
  <2>1. (pc' = "ended") = (pc = "ended")
    BY <1>8, <1>12
  <2> QED BY <1>7, <1>8, <1>9, <1>10, <2>1 DEF Promise!frameVars
<1> QED BY <1>11, <1>12

LEMMA HereRefines ==
    ASSUME NEW k \in Written, Here(k), ReaderNext, ~disturbed'
    PROVE  Promise!Take \/ Promise!Lose \/ UNCHANGED Promise!frameVars
<1> DEFINE w == Cardinality(Written)
<1>1. /\ Layout /\ ReaderInv /\ Framed /\ rest # <<>> /\ ~disturbed /\ good = TRUE
      /\ k \in 1 .. Len(frames) /\ frames[k] \in Frame
      /\ BeginOf(k) \in Nat /\ ends[k] \in Nat /\ Taken \in Nat /\ Len(input) \in Nat
      /\ BeginOf(k) <= Taken /\ Taken <= ends[k] /\ BeginOf(k) < ends[k]
      /\ Len(input) = Taken + Len(rest) /\ Len(rest) \in Nat
      /\ BeginOf(k) < Taken => KindOf(frames[k]) # "misframed"
  <2>1. /\ Layout /\ rest # <<>> /\ ~disturbed /\ good = TRUE
        /\ k \in 1 .. Len(frames) /\ frames[k] \in Frame
        /\ BeginOf(k) \in Nat /\ ends[k] \in Nat /\ Taken \in Nat /\ Len(input) \in Nat
        /\ BeginOf(k) <= Taken /\ Taken <= ends[k]
        /\ BodyAt(k) \in Nat /\ BeginOf(k) < BodyAt(k) /\ BodyAt(k) <= ends[k]
        /\ Len(input) = Taken + Len(rest) /\ Len(rest) \in Nat
        /\ BeginOf(k) < Taken => KindOf(frames[k]) # "misframed"
    BY HereFacts
  <2>2. ReaderInv /\ Framed
    BY DEF Here
  <2>3. BeginOf(k) < ends[k]
    BY <2>1
  <2> QED BY <2>1, <2>2, <2>3
<1>2. UNCHANGED clientVars /\ rest' \in Seq(Symbol) /\ Len(rest') \in Nat
  BY <1>1, ReaderAdvances
<1>3. Goes(k)
  BY StepGoes
<1>4. Taken' = Len(input) - Len(rest') /\ Taken <= Taken' /\ Taken' <= ends[k]
  BY <1>2, <1>3 DEF Taken, clientVars, Goes
<1>5. w \in Nat /\ k \in 1 .. w
  BY <1>1, WrittenShape DEF Layout
<1>6. FramesLeft = LeftOf(w, IF Taken < ends[k] THEN k - 1 ELSE k)
  BY LeftHere
<1>7. Framed' => FramesLeft' = LeftOf(w, IF Taken' < ends[k] /\ rest' # <<>> THEN k - 1 ELSE k)
  BY <1>2, <1>3, LeftBehind
<1>8. /\ LeftOf(w, k - 1) # <<>> /\ Head(LeftOf(w, k - 1)) = AbstractFrame(k)
      /\ Tail(LeftOf(w, k - 1)) = LeftOf(w, k)
  BY <1>5, LeftTakes
<1>9. (pc' = "ended") = (pc = "ended")
  <2>1. pc # "ended" /\ pc' # "ended"
    BY <1>1, StepSeen DEF LoopEnds
  <2> QED BY <2>1
<1>10. disturbed' = disturbed
  <2>1. disturbed' \in BOOLEAN /\ disturbed \in BOOLEAN
    BY <1>1, StepSeen DEF ReaderInv, ReaderTypeOK
  <2> QED BY <1>1, <2>1
<1>11. delivered' = IF IsContent(k) /\ Taken < ends[k] /\ Taken' = ends[k]
                    THEN Append(delivered, Body(k)) ELSE delivered
  BY <1>3 DEF Goes
<1>12. rest' = <<>> <=> Taken' = Len(input)
  <2>1. rest' = <<>> <=> Len(rest') = 0
    BY <1>2, EmptySeq
  <2> QED BY <1>1, <1>2, <1>4, <2>1
<1>13. Taken # Len(input)
  BY <1>1 , EmptySeq DEF Here, ReaderInv, ReaderTypeOK
<1>14. KindOf(frames[k]) \in {"content", "skipped", "misframed"}
  BY <1>1, Kinds, LengthOfType
<1> HIDE DEF w
<1>15. CASE Taken' = Taken
  <2>1. Framed' /\ Framed' = Framed
    BY <1>1, <1>2, <1>3, <1>15, KeepsFraming
  <2>2. rest' # <<>>
    BY <1>12, <1>13, <1>15
  <2>3. FramesLeft' = FramesLeft
    BY <1>6, <1>7, <1>15, <2>1, <2>2
  <2>4. delivered' = delivered
    <3>1. ~(Taken < ends[k] /\ Taken' = ends[k])
      BY <1>1, <1>15
    <3> QED BY <1>11, <3>1
  <2> QED BY <1>9, <1>10, <2>1, <2>3, <2>4 DEF Promise!frameVars
<1>16. CASE Taken' # Taken /\ KindOf(frames[k]) = "misframed"
  <2>1. Taken = BeginOf(k) /\ BeginOf(k) < Taken' /\ Taken < ends[k]
    BY <1>1, <1>2, <1>4, <1>16
  <2>2. ~Framed'
    <3>1. BeginOf(k)' = BeginOf(k) /\ Written' = Written /\ frames' = frames
      BY <1>2, ClientStays DEF clientVars
    <3>2. Framed' => Taken' <= BeginOf(k)
      BY <1>16, <3>1 DEF Framed
    <3> QED BY <1>1, <1>2, <1>4, <2>1, <3>2
  <2>3. FramesLeft' = <<>> /\ Framed' = FALSE
    BY <1>2, <2>2, LeftNext
  <2>4. FramesLeft # <<>> /\ Head(FramesLeft).kind = "misframed"
    <3>1. AbstractFrame(k).kind = "misframed"
      BY <1>16 DEF AbstractFrame
    <3> QED BY <1>6, <1>8, <2>1, <3>1
  <2>5. delivered' = delivered
    BY <1>11, <1>16 DEF IsContent
  <2> QED BY <1>1, <1>9, <1>10, <2>3, <2>4, <2>5 DEF Promise!Lose
<1>17. CASE Taken' # Taken /\ KindOf(frames[k]) # "misframed"
  <2>1. Framed' /\ Framed' = Framed
    BY <1>1, <1>2, <1>3, <1>17, KeepsFraming
  <2>2. Taken < ends[k]
    BY <1>1, <1>2, <1>4, <1>17
  <2>3. FramesLeft = LeftOf(w, k - 1)
    BY <1>6, <2>2
  <2>4. CASE Taken' < ends[k] /\ rest' # <<>>
    <3>1. FramesLeft' = FramesLeft
      BY <1>7, <2>1, <2>3, <2>4
    <3>2. delivered' = delivered
      BY <1>1, <1>2, <1>4, <1>11, <2>4
    <3> QED BY <1>9, <1>10, <2>1, <3>1, <3>2 DEF Promise!frameVars
  <2>5. CASE ~(Taken' < ends[k] /\ rest' # <<>>)
    <3>1. FramesLeft' = Tail(FramesLeft)
      BY <1>7, <1>8, <2>1, <2>3, <2>5
    <3>2. AbstractFrame(k).kind # "misframed"
      BY <1>17 DEF AbstractFrame
    <3>3. delivered' = delivered \o AbstractFrame(k).content
      <4>1. delivered \in Seq(Seq(Symbol)) /\ Body(k) \in Seq(Symbol)
        BY <1>1, StepSeen, FrameTyped DEF Body
      <4>2. delivered \o <<Body(k)>> = Append(delivered, Body(k)) /\ delivered \o <<>> = delivered
        BY <4>1
      <4>3. AbstractFrame(k).content =
              IF IsContent(k) /\ ~(ends[k] > Len(input)) THEN <<Body(k)>> ELSE <<>>
        BY DEF AbstractFrame, IsContent, Body
      <4>4. ends[k] > Len(input) <=> Taken' # ends[k]
        BY <1>1, <1>2, <1>4, <1>12, <2>5
      <4> QED BY <1>11, <2>2, <4>2, <4>3, <4>4
    <3> QED BY <1>1, <1>8, <1>9, <1>10, <2>1, <2>3, <3>1, <3>2, <3>3 DEF Promise!Take
  <2> QED BY <2>4, <2>5
<1> QED BY <1>15, <1>16, <1>17

LEMMA StepRefines ==
    ASSUME ReaderInv, Layout, ReaderPlace, [ReaderNext]_vars
    PROVE  [Promise!FrameNext]_(Promise!frameVars)
<1>1. CASE UNCHANGED vars
  <2>1. /\ UNCHANGED clientVars /\ UNCHANGED <<frames, input, rest, pc, disturbed, delivered>>
    BY <1>1 DEF vars, clientVars, faultVars
  <2>2. Taken' = Taken /\ Written' = Written /\ \A n : BeginOf(n)' = BeginOf(n)
    BY <2>1, ClientStays DEF Taken
  <2>3. Framed' = Framed
    BY <2>1, <2>2 DEF Framed
  <2>4. FramesLeft' = FramesLeft
    BY <2>1, <2>2, <2>3, LeftNow, LeftNext
  <2> QED BY <2>1, <2>3, <2>4 DEF Promise!frameVars
<1>2. CASE ReaderNext /\ ~Framed
  BY <1>2, GuessRefines DEF Promise!FrameNext
<1>3. CASE ReaderNext /\ Framed /\ disturbed'
  BY <1>3, InterruptRefines DEF Promise!FrameNext
<1>4. CASE ReaderNext /\ Framed /\ ~disturbed' /\ rest = <<>>
  BY <1>4, EndRefines DEF Promise!FrameNext
<1>5. CASE ReaderNext /\ Framed /\ ~disturbed' /\ rest # <<>>
  <2>1. Live
    BY <1>5, ReaderAdvances
  <2>2. PICK k \in Written : Here(k)
    BY <1>5, <2>1 DEF ReaderPlace, Here
  <2> QED BY <1>5, <2>2, HereRefines DEF Promise!FrameNext
<1> QED BY <1>1, <1>2, <1>3, <1>4, <1>5

LEMMA InitRefines ==
    ASSUME ReaderInit
    PROVE  Promise!FrameInit
<1>1. Layout /\ Len(input) \in Nat
  BY InitLayout, LenProperties DEF Layout
<1>2. rest = input /\ pc = "call" /\ delivered = <<>> /\ disturbed = FALSE
  BY DEF ReaderInit
<1>3. Taken = 0
  BY <1>1, <1>2 DEF Taken
<1>4. Framed = TRUE
  <2>1. \A n \in Written : BeginOf(n) \in Nat
    BY <1>1, WrittenIndex, Places
  <2>2. Framed
    BY <1>2, <1>3, <2>1 DEF Framed
  <2> QED BY <2>2
<1>5. Cardinality(Passed) \in Nat /\ Cardinality(Passed) <= Cardinality(Written)
  <2>1. Cardinality(Written) \in Nat
    BY <1>1, WrittenShape DEF Layout
  <2>2. Cardinality({ n \in Written : ends[n] <= Taken }) \in 0 .. Cardinality(Written)
    BY <1>1, <1>3, PassedShape
  <2>3. Passed = Written \/ Passed = { n \in Written : ends[n] <= Taken }
    BY LeftNow
  <2> QED BY <2>1, <2>2, <2>3
<1>6. FramesLeft \in Seq(Promise!Frame)
  BY <1>1, <1>4, <1>5, LeftNow, LeftType
<1>7. (pc = "ended") = FALSE
  BY <1>2
<1> QED BY <1>2, <1>4, <1>6, <1>7 DEF Promise!FrameInit

-----------------------------------------------------------------------------
(***************************************************************************)
(* Whatever the client writes, run() does not give up in front of any of   *)
(* it, unless a signal interrupted the read of a content.                  *)
(***************************************************************************)
THEOREM ReaderStaysToTheEnd == ReaderSpec => []StaysToTheEnd
<1>1. ReaderSpec => []ReaderInv
  BY InitReaderInv, NextReaderInv, PTL DEF ReaderSpec
<1>2. ReaderInv => StaysToTheEnd
  BY DEF ReaderInv, FailsAtTheEnd, StaysToTheEnd
<1> QED BY <1>1, <1>2, PTL

(***************************************************************************)
(* When the process dies in the reader, it is of a length that does not    *)
(* fit, of a signal, or of a bare new line: whoever writes \r\n and        *)
(* contents without new lines is read to the end.                          *)
(***************************************************************************)
THEOREM ReaderAbortsExplained == ReaderSpec => []AbortsExplained
<1> DEFINE Inv == ReaderInv /\ Layout /\ ReaderPlace /\ RestWritten /\ AbortsExplained
<1>1. ReaderInit => Inv
  <2>1. ReaderInit => AbortsExplained
    BY DEF ReaderInit, AbortsExplained
  <2> QED BY <2>1, InitReaderInv, InitLayout, InitPlace, InitWritten
<1>2. Inv /\ [ReaderNext]_vars => Inv'
  BY NextReaderInv, NextPlace, NextWritten, NextAborts
<1> QED BY <1>1, <1>2, PTL DEF ReaderSpec

(***************************************************************************)
(* The reader implements FrameReader: whatever the headers, the ends of    *)
(* lines, the contents, the place where the input is cut and the signals   *)
(* that come, each content is handed on once and in order until a length   *)
(* is wrong or a read is interrupted, and the reader ends behind them all. *)
(***************************************************************************)
THEOREM ReaderReadsFrames == ReaderSpec => ReadsFrames
<1> DEFINE Inv == ReaderInv /\ Layout /\ ReaderPlace
<1>1. ReaderInit => Inv /\ Promise!FrameInit
  BY InitReaderInv, InitLayout, InitPlace, InitRefines
<1>2. Inv /\ [ReaderNext]_vars => Inv' /\ [Promise!FrameNext]_(Promise!frameVars)
  BY NextReaderInv, NextPlace, StepRefines
<1> QED BY <1>1, <1>2, PTL DEF ReaderSpec, ReadsFrames, Promise!FrameSpec

=============================================================================
