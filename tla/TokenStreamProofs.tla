------------------------- MODULE TokenStreamProofs --------------------------
(***************************************************************************)
(* Proofs about TokenStream, for any pieces, texts of any length and any   *)
(* line numbers that directives give.                                      *)
(***************************************************************************)
EXTENDS TokenStream, SequenceLemmas

Ids == {"name", "comment", "newline", "contline", "other"}
EndIds == {"T_EOF", "T_EOI"}
Directives(k) == [place : 1 .. k, number : Nat]

StreamTypeOK ==
    /\ Len(pieces) \in Nat /\ pieces \in [1 .. Len(pieces) -> Pieces]
    /\ next \in 1 .. Len(pieces) + 1 /\ line \in Nat
    /\ at_eof \in BOOLEAN /\ looping \in BOOLEAN
    /\ token \in [id : Ids \cup EndIds \cup {"none"}, line : Nat, lf : BOOLEAN, ends : BOOLEAN,
                  place : 1 .. Len(pieces) + 1]
    /\ returned \in Seq(Ids \cup EndIds)
    /\ directives \in Seq(Directives(Len(pieces)))

(***************************************************************************)
(* The token that the iterator stands on is one of the text, before first, *)
(* or one of the end, which the functor knows about.                       *)
(***************************************************************************)
StandsOnToken ==
    /\ token.place <= next
    /\ token.id \in Ids =>
         /\ token.place \in 1 .. Len(pieces)
         /\ token.lf = pieces[token.place].lf /\ token.ends = pieces[token.place].ends
    /\ token.id \notin Ids => ~token.ends
    /\ at_eof <=> token.id \in EndIds
    /\ at_eof => next = Len(pieces) + 1

\* Directives are behind the reader.
DirectivesPassed ==
    \A n \in DOMAIN directives : directives[n].place < next /\ directives[n].place <= token.place

StreamInv == StreamTypeOK /\ StandsOnToken /\ DirectivesPassed /\ TokensInOrder /\ LinesAsDirected

-----------------------------------------------------------------------------
(***************************************************************************)
(* The functions that the properties define by recursion over a text.      *)
(***************************************************************************)
LEMMA TokensOfRecursion ==
    ASSUME NEW k \in Nat, NEW text \in [1 .. k -> Piece]
    PROVE  /\ TokensOf(text)[0] = <<>>
           /\ \A n \in 1 .. k : TokensOf(text)[n] =
                IF text[n].valid THEN Append(TokensOf(text)[n - 1], text[n].id)
                ELSE TokensOf(text)[n - 1]
           /\ \A n \in 0 .. k : TokensOf(text)[n] \in Seq(Ids)
<1> DEFINE S == Seq(Ids)
           Extended(n, s) == IF text[n].valid THEN Append(s, text[n].id) ELSE s
           Recursive(f) == f = [n \in 0 .. Len(text) |->
                                  IF n = 0 THEN <<>>
                                  ELSE IF text[n].valid THEN Append(f[n - 1], text[n].id)
                                  ELSE f[n - 1]]
           step == [p \in Nat \X S |-> IF p[1] \in 1 .. k THEN Extended(p[1], p[2]) ELSE <<>>]
           ids == CHOOSE f : Recursive(f)
<1>1. Len(text) = k /\ <<>> \in S /\ \A n \in 1 .. k : text[n].id \in Ids
  BY DEF Piece, Ids
<1>2. ASSUME NEW n \in 1 .. k, NEW s \in S
      PROVE  Extended(n, s) \in S
  <2>1. text[n].id \in Ids
    BY <1>1
  <2> QED BY <2>1, AppendProperties
<1> HIDE DEF S
<1>3. step \in [Nat \X S -> S]
  <2> HIDE DEF Extended
  <2> QED BY <1>1, <1>2
<1>4. PICK f \in [0 .. k -> S] : f[0] = <<>> /\ \A i \in 1 .. k : f[i] = step[<<i, f[i - 1]>>]
  <2> HIDE DEF step
  <2>1. <<>> \in S
    BY <1>1
  <2>2. \E f : IsRecursion(f, S, <<>>, step, k)
    BY <2>1, <1>3, RecursionExists
  <2> QED BY <2>2 DEF IsRecursion
<1>5. ASSUME NEW i \in 1 .. k
      PROVE  f[i] = Extended(i, f[i - 1])
  <2>1. i \in Nat /\ i - 1 \in 0 .. k
    OBVIOUS
  <2>2. f[i - 1] \in S
    BY <2>1
  <2>3. step[<<i, f[i - 1]>>] = Extended(i, f[i - 1])
    BY <2>1, <2>2
  <2> QED BY <1>4, <2>3
<1>6. Recursive(f)
  <2> DEFINE g == [n \in 0 .. Len(text) |->
                     IF n = 0 THEN <<>>
                     ELSE IF text[n].valid THEN Append(f[n - 1], text[n].id) ELSE f[n - 1]]
  <2>1. ASSUME NEW n \in 0 .. k
        PROVE  f[n] = g[n]
    <3>1. CASE n = 0
      BY <1>1, <1>4, <3>1
    <3>2. CASE n # 0
      <4>1. n \in 1 .. k
        BY <3>2
      <4>2. g[n] = IF text[n].valid THEN Append(f[n - 1], text[n].id) ELSE f[n - 1]
        BY <1>1, <3>2
      <4> HIDE DEF g
      <4> QED BY <1>5, <4>1, <4>2
    <3> QED BY <3>1, <3>2
  <2>2. g = [n \in 0 .. k |-> g[n]] /\ f = [n \in 0 .. k |-> f[n]]
    BY <1>1
  <2> HIDE DEF g
  <2>3. f = g
    BY <2>1, <2>2
  <2> QED BY <2>3 DEF g
<1>7. Recursive(ids)
  <2> HIDE DEF Recursive
  <2> QED BY <1>6, Zenon
<1>8. TokensOf(text) = ids
  BY DEF TokensOf
<1> HIDE DEF ids
<1>9. ASSUME NEW n \in 0 .. k
      PROVE  ids[n] = IF n = 0 THEN <<>>
                      ELSE IF text[n].valid THEN Append(ids[n - 1], text[n].id) ELSE ids[n - 1]
  <2> DEFINE g == [i \in 0 .. Len(text) |->
                     IF i = 0 THEN <<>>
                     ELSE IF text[i].valid THEN Append(ids[i - 1], text[i].id) ELSE ids[i - 1]]
  <2>1. ids = g
    BY <1>7, Zenon
  <2>2. g[n] = IF n = 0 THEN <<>>
               ELSE IF text[n].valid THEN Append(ids[n - 1], text[n].id) ELSE ids[n - 1]
    BY <1>1
  <2> HIDE DEF g
  <2> QED BY <2>1, <2>2
<1>10. ids[0] = <<>> /\ \A n \in 1 .. k : ids[n] = Extended(n, ids[n - 1])
  <2>1. ids[0] = <<>>
    BY <1>9
  <2>2. ASSUME NEW n \in 1 .. k
        PROVE  ids[n] = Extended(n, ids[n - 1])
    <3>1. n \in 0 .. k /\ n # 0
      OBVIOUS
    <3> QED BY <1>9, <3>1
  <2> QED BY <2>1, <2>2
<1> HIDE DEF Extended
<1>11. \A n \in Nat : n \in 0 .. k => ids[n] \in S
  <2> DEFINE N == { n \in Nat : n \in 0 .. k => ids[n] \in S }
  <2>1. 0 \in N
    BY <1>1, <1>10
  <2>2. ASSUME NEW n \in Nat, n \in N
        PROVE  n + 1 \in N
    <3>1. CASE n + 1 \in 1 .. k
      <4>1. n \in 0 .. k /\ n + 1 - 1 = n
        BY <3>1
      <4>2. ids[n] \in S
        BY <2>2, <4>1
      <4>3. ids[n + 1] = Extended(n + 1, ids[n])
        BY <1>10, <3>1, <4>1
      <4> QED BY <1>2, <3>1, <4>2, <4>3
    <3> QED BY <3>1
  <2> HIDE DEF N
  <2>3. \A n \in Nat : n \in N
    BY <2>1, <2>2, Induction
  <2> QED BY <2>3 DEF N
<1> QED BY <1>8, <1>10, <1>11 DEF S, Extended

LEMMA LineEndsOfRecursion ==
    ASSUME NEW k \in Nat, NEW text \in [1 .. k -> Piece]
    PROVE  /\ LineEndsOf(text)[0] = 0
           /\ \A n \in 1 .. k : LineEndsOf(text)[n] = LineEndsOf(text)[n - 1] + text[n].lines
           /\ \A n \in 0 .. k : LineEndsOf(text)[n] \in Nat
<1> DEFINE Recursive(f) == f = [n \in 0 .. Len(text) |->
                                  IF n = 0 THEN 0 ELSE f[n - 1] + text[n].lines]
           step == [p \in Nat \X Nat |-> IF p[1] \in 1 .. k THEN p[2] + text[p[1]].lines ELSE 0]
           count == CHOOSE f : Recursive(f)
<1>1. Len(text) = k /\ \A n \in 1 .. k : text[n].lines \in Nat
  BY DEF Piece
<1>2. step \in [Nat \X Nat -> Nat]
  BY <1>1
<1>3. PICK f \in [0 .. k -> Nat] : f[0] = 0 /\ \A i \in 1 .. k : f[i] = step[<<i, f[i - 1]>>]
  <2> HIDE DEF step
  <2>1. 0 \in Nat
    OBVIOUS
  <2>2. \E f : IsRecursion(f, Nat, 0, step, k)
    BY <2>1, <1>2, RecursionExists
  <2> QED BY <2>2 DEF IsRecursion
<1>4. ASSUME NEW i \in 1 .. k
      PROVE  f[i] = f[i - 1] + text[i].lines
  <2>1. i \in Nat /\ f[i - 1] \in Nat
    OBVIOUS
  <2>2. step[<<i, f[i - 1]>>] = f[i - 1] + text[i].lines
    BY <2>1
  <2> QED BY <1>3, <2>2
<1>5. Recursive(f)
  <2> DEFINE g == [n \in 0 .. Len(text) |-> IF n = 0 THEN 0 ELSE f[n - 1] + text[n].lines]
  <2>1. ASSUME NEW n \in 0 .. k
        PROVE  f[n] = g[n]
    <3>1. CASE n = 0
      BY <1>1, <1>3, <3>1
    <3>2. CASE n # 0
      <4>1. n \in 1 .. k
        BY <3>2
      <4> QED BY <1>1, <1>4, <4>1
    <3> QED BY <3>1, <3>2
  <2>2. g = [n \in 0 .. k |-> g[n]] /\ f = [n \in 0 .. k |-> f[n]]
    BY <1>1
  <2> HIDE DEF g
  <2>3. f = g
    BY <2>1, <2>2
  <2> QED BY <2>3 DEF g
<1>6. Recursive(count)
  <2> HIDE DEF Recursive
  <2> QED BY <1>5, Zenon
<1>7. LineEndsOf(text) = count
  BY DEF LineEndsOf
<1> HIDE DEF count
<1>8. count[0] = 0 /\ \A n \in 1 .. k : count[n] = count[n - 1] + text[n].lines
  <2> DEFINE g == [n \in 0 .. Len(text) |-> IF n = 0 THEN 0 ELSE count[n - 1] + text[n].lines]
  <2>1. count = g
    BY <1>6, Zenon
  <2>2. g[0] = 0 /\ \A n \in 1 .. k : g[n] = count[n - 1] + text[n].lines
    BY <1>1
  <2> HIDE DEF g
  <2> QED BY <2>1, <2>2
<1>9. \A n \in Nat : n \in 0 .. k => count[n] \in Nat
  <2> DEFINE N == { n \in Nat : n \in 0 .. k => count[n] \in Nat }
  <2>1. 0 \in N
    BY <1>8
  <2>2. ASSUME NEW n \in Nat, n \in N
        PROVE  n + 1 \in N
    <3>1. CASE n + 1 \in 1 .. k
      <4>1. count[n] \in Nat /\ count[n + 1] = count[n] + text[n + 1].lines
        BY <1>8, <2>2, <3>1
      <4> QED BY <1>1, <3>1, <4>1
    <3> QED BY <3>1
  <2> HIDE DEF N
  <2>3. \A n \in Nat : n \in N
    BY <2>1, <2>2, Induction
  <2> QED BY <2>3 DEF N
<1> QED BY <1>7, <1>8, <1>9

-----------------------------------------------------------------------------
(***************************************************************************)
(* The number of a line that no directive is behind: counted from the last *)
(* directive, or from the beginning.                                       *)
(***************************************************************************)
Counted(text, given, place) ==
    IF given = <<>> THEN 1 + (LineEndsOf(text)[place - 1] - LineEndsOf(text)[1 - 1])
    ELSE given[Len(given)].number
           + (LineEndsOf(text)[place - 1] - LineEndsOf(text)[given[Len(given)].place - 1])

LEMMA LastBefore ==
    ASSUME NEW D, NEW given \in Seq(D), NEW place \in Nat,
           \A n \in DOMAIN given : given[n].place <= place
    PROVE  LET before == { n \in DOMAIN given : given[n].place <= place }
           IN  /\ given = <<>> => before = {}
               /\ given # <<>> => before # {} /\ Max(before) = Len(given)
<1> DEFINE before == { n \in DOMAIN given : given[n].place <= place }
<1>1. before = 1 .. Len(given)
  OBVIOUS
<1> HIDE DEF before
<1>2. given = <<>> => before = {}
  BY <1>1
<1>3. ASSUME given # <<>>
      PROVE  before # {} /\ Max(before) = Len(given)
  <2>1. Len(given) \in 1 .. Len(given)
    BY <1>3
  <2>2. ASSUME NEW x \in before, \A y \in before : x >= y
        PROVE  x = Len(given)
    BY <1>1, <2>1, <2>2
  <2>3. \A y \in before : Len(given) >= y
    BY <1>1
  <2>4. Max(before) = Len(given)
    BY <1>1, <2>1, <2>2, <2>3 DEF Max
  <2> QED BY <1>1, <2>1, <2>4
<1> QED BY <1>2, <1>3 DEF before

\* NumberAt, of a text and the directives in it.
NumberIn(text, given, place) ==
    LET before == { n \in DOMAIN given : given[n].place <= place }
        last   == given[Max(before)]
    IN  IF before = {} THEN 1 + (LineEndsOf(text)[place - 1] - LineEndsOf(text)[1 - 1])
        ELSE last.number + (LineEndsOf(text)[place - 1] - LineEndsOf(text)[last.place - 1])

LEMMA NumberIsCounted ==
    ASSUME NEW k \in Nat, NEW text \in [1 .. k -> Piece], NEW given \in Seq(Directives(k)),
           NEW place \in Nat, \A n \in DOMAIN given : given[n].place <= place
    PROVE  NumberIn(text, given, place) = Counted(text, given, place)
<1> DEFINE before == { n \in DOMAIN given : given[n].place <= place }
<1>1. /\ given = <<>> => before = {}
      /\ given # <<>> => before # {} /\ Max(before) = Len(given)
  BY LastBefore
<1>2. NumberIn(text, given, place) =
        IF before = {} THEN 1 + (LineEndsOf(text)[place - 1] - LineEndsOf(text)[1 - 1])
        ELSE given[Max(before)].number
               + (LineEndsOf(text)[place - 1] - LineEndsOf(text)[given[Max(before)].place - 1])
  BY DEF NumberIn
<1> HIDE DEF before
<1> QED BY <1>1, <1>2 DEF Counted

\* Over a piece, the number goes on by the ends of lines in it.
LEMMA CountedOn ==
    ASSUME NEW k \in Nat, NEW text \in [1 .. k -> Piece], NEW given \in Seq(Directives(k)),
           NEW place \in 1 .. k
    PROVE  Counted(text, given, place + 1) = Counted(text, given, place) + text[place].lines
<1> DEFINE ends   == LineEndsOf(text)
           last   == given[Len(given)]
           behind == ends[place]
           before == ends[place - 1]
           lines  == text[place].lines
           first  == ends[1 - 1]
           mark   == ends[last.place - 1]
           number == last.number
<1>1. \A n \in 0 .. k : ends[n] \in Nat
  BY LineEndsOfRecursion
<1>2. behind = before + lines /\ lines \in Nat
  BY LineEndsOfRecursion DEF Piece
<1>3. before \in Nat /\ first \in Nat
  BY <1>1
<1>4. ASSUME given # <<>>
      PROVE  number \in Nat /\ mark \in Nat
  <2>1. last \in Directives(k)
    BY <1>4
  <2>2. last.number \in Nat /\ last.place - 1 \in 0 .. k
    BY <2>1 DEF Directives
  <2> QED BY <1>1, <2>2
<1>5. place + 1 - 1 = place
  OBVIOUS
<1>6. CASE given = <<>>
  <2>1. Counted(text, given, place) = 1 + (before - first)
    BY <1>6 DEF Counted
  <2>2. Counted(text, given, place + 1) = 1 + (behind - first)
    BY <1>5, <1>6 DEF Counted
  <2> HIDE DEF before, behind, first, lines
  <2>3. Counted(text, given, place + 1) = Counted(text, given, place) + lines
    BY <1>2, <1>3, <2>1, <2>2
  <2> QED BY <2>3 DEF lines
<1>7. CASE given # <<>>
  <2>1. Counted(text, given, place) = number + (before - mark)
    BY <1>7 DEF Counted
  <2>2. Counted(text, given, place + 1) = number + (behind - mark)
    BY <1>5, <1>7 DEF Counted
  <2> HIDE DEF before, behind, mark, number, lines
  <2>3. Counted(text, given, place + 1) = Counted(text, given, place) + lines
    BY <1>2, <1>3, <1>4, <1>7, <2>1, <2>2
  <2> QED BY <2>3 DEF lines
<1> QED BY <1>6, <1>7

\* After a directive, the number counts from the line that it gives.
WithDirective(given, place, number) == Append(given, [place |-> place, number |-> number])

LEMMA CountedFrom ==
    ASSUME NEW k \in Nat, NEW text \in [1 .. k -> Piece], NEW given \in Seq(Directives(k)),
           NEW place \in 1 .. k, NEW number \in Nat
    PROVE  /\ Counted(text, WithDirective(given, place, number), place) = number
           /\ Counted(text, WithDirective(given, place, number), place + 1)
                = number + text[place].lines
<1> DEFINE more == WithDirective(given, place, number)
<1>1. more \in Seq(Directives(k)) /\ more # <<>>
      /\ more[Len(more)] = [place |-> place, number |-> number]
  <2>1. [place |-> place, number |-> number] \in Directives(k)
    BY DEF Directives
  <2>2. Len(more) = Len(given) + 1 /\ Len(given) \in Nat /\ Len(<<>>) = 0
    BY DEF WithDirective
  <2> QED BY <2>1, <2>2, AppendProperties DEF WithDirective
<1> HIDE DEF more
<1>2. LineEndsOf(text)[place - 1] \in Nat
  BY LineEndsOfRecursion
<1>3. Counted(text, more, place) = number
  BY <1>1, <1>2 DEF Counted
<1>4. Counted(text, more, place + 1) = number + text[place].lines
  BY <1>1, <1>3, CountedOn
<1> QED BY <1>3, <1>4 DEF more

\* A sequence is followed by nothing, or by one more element.
LEMMA ConcatShapes ==
    ASSUME NEW S, NEW s \in Seq(S), NEW a \in S
    PROVE  s \o <<>> = s /\ s \o <<a>> = Append(s, a) /\ <<>> \in Seq(S) /\ <<a>> \in Seq(S)
OBVIOUS

-----------------------------------------------------------------------------
LEMMA StreamInvInit == ASSUME StreamInit PROVE StreamInv
<1>1. PICK k \in 0 .. MaxPieces : pieces \in [1 .. k -> Pieces]
  BY DEF StreamInit
<1>2. k \in Nat /\ Len(pieces) = k /\ pieces \in [1 .. k -> Piece]
  BY <1>1, PiecesAssumption, TokenBoundsAssumption
<1>3. StreamTypeOK
  <2>1. Len(pieces) \in Nat /\ pieces \in [1 .. Len(pieces) -> Pieces]
    BY <1>1, <1>2
  <2>2. next \in 1 .. Len(pieces) + 1 /\ 1 \in 1 .. Len(pieces) + 1
    BY <1>2 DEF StreamInit
  <2>3. token \in [id : Ids \cup EndIds \cup {"none"}, line : Nat, lf : BOOLEAN,
                   ends : BOOLEAN, place : 1 .. Len(pieces) + 1]
    BY <2>2 DEF StreamInit
  <2>4. returned \in Seq(Ids \cup EndIds)
        /\ directives \in Seq(Directives(Len(pieces)))
    BY DEF StreamInit
  <2> QED BY <2>1, <2>2, <2>3, <2>4 DEF StreamInit, StreamTypeOK
<1>4. StandsOnToken /\ DirectivesPassed
  BY DEF StreamInit, StandsOnToken, DirectivesPassed, Ids, EndIds
<1>5. TokensInOrder
  <2>1. TokensOf(pieces)[next - 1] = <<>>
    BY <1>2, TokensOfRecursion DEF StreamInit
  <2> QED BY <2>1 DEF StreamInit, TokensInOrder
<1>6. LinesAsDirected
  <2>1. LineEndsOf(pieces)[next - 1] = 0 /\ LineEndsOf(pieces)[1 - 1] = 0
    BY <1>2, LineEndsOfRecursion DEF StreamInit
  <2>2. directives = <<>> /\ DOMAIN directives = {}
    BY DEF StreamInit
  <2> QED BY <2>1, <2>2 DEF StreamInit, LinesAsDirected, NumberAt, LinesBetween
<1> QED BY <1>3, <1>4, <1>5, <1>6 DEF StreamInv

-----------------------------------------------------------------------------
\* What the type says of the text.
LEMMA TextTyped ==
    ASSUME StreamTypeOK
    PROVE  /\ Len(pieces) \in Nat /\ pieces \in [1 .. Len(pieces) -> Piece]
           /\ \A n \in 1 .. Len(pieces) :
                /\ pieces[n] \in Pieces
                /\ pieces[n].id \in Ids /\ pieces[n].lines \in Nat
                /\ pieces[n].lf \in BOOLEAN /\ pieces[n].ends \in BOOLEAN
<1>1. Len(pieces) \in Nat /\ pieces \in [1 .. Len(pieces) -> Pieces]
  BY DEF StreamTypeOK
<1>2. ASSUME NEW n \in 1 .. Len(pieces)
      PROVE  /\ pieces[n] \in Pieces
             /\ pieces[n].id \in Ids /\ pieces[n].lines \in Nat
             /\ pieces[n].lf \in BOOLEAN /\ pieces[n].ends \in BOOLEAN
  <2>1. pieces[n] \in Pieces
    BY <1>1
  <2>2. pieces[n] \in Piece
    BY <2>1, PiecesAssumption
  <2> QED BY <2>1, <2>2 DEF Piece, Ids
<1>3. pieces \in [1 .. Len(pieces) -> Piece]
  BY <1>1, PiecesAssumption
<1> QED BY <1>1, <1>2, <1>3

\* What the invariant says of the line number before a piece.
LEMMA LineBefore ==
    ASSUME StreamInv, \A n \in DOMAIN directives : pieces[directives[n].place].lf
    PROVE  /\ line = Counted(pieces, directives, next)
           /\ token.id # "none" => token.line = Counted(pieces, directives, token.place)
<1>1. Len(pieces) \in Nat /\ pieces \in [1 .. Len(pieces) -> Piece]
      /\ directives \in Seq(Directives(Len(pieces))) /\ next \in Nat /\ token.place \in Nat
  BY TextTyped DEF StreamInv, StreamTypeOK
<1>2. \A n \in DOMAIN directives :
        directives[n].place \in Nat /\ directives[n].place <= next
        /\ directives[n].place <= token.place
  <2>1. ASSUME NEW n \in DOMAIN directives
        PROVE  directives[n].place \in Nat
    <3>1. directives[n] \in Directives(Len(pieces))
      BY <1>1
    <3> QED BY <3>1 DEF Directives
  <2> QED BY <1>1, <2>1 DEF StreamInv, DirectivesPassed
<1>3. \A place : NumberAt(place) = NumberIn(pieces, directives, place)
  BY DEF NumberAt, NumberIn, LinesBetween
<1>4. NumberIn(pieces, directives, next) = Counted(pieces, directives, next)
  BY <1>1, <1>2, NumberIsCounted
<1>5. NumberIn(pieces, directives, token.place) = Counted(pieces, directives, token.place)
  BY <1>1, <1>2, NumberIsCounted
<1> QED BY <1>3, <1>4, <1>5 DEF StreamInv, LinesAsDirected

\* And how it follows again after a step.
LEMMA LineAfter ==
    ASSUME StreamTypeOK', DirectivesPassed',
           (\A n \in DOMAIN directives' : pieces'[directives'[n].place].lf) =>
             /\ line' = Counted(pieces', directives', next')
             /\ token'.id # "none" => token'.line = Counted(pieces', directives', token'.place)
    PROVE  LinesAsDirected'
<1>1. Len(pieces') \in Nat /\ pieces' \in [1 .. Len(pieces') -> Piece]
      /\ directives' \in Seq(Directives(Len(pieces'))) /\ next' \in Nat /\ token'.place \in Nat
  BY PiecesAssumption DEF StreamTypeOK
<1>2. \A n \in DOMAIN directives' :
        directives'[n].place \in Nat /\ directives'[n].place <= next'
        /\ directives'[n].place <= token'.place
  <2>1. ASSUME NEW n \in DOMAIN directives'
        PROVE  directives'[n].place \in Nat
    <3>1. directives'[n] \in Directives(Len(pieces'))
      BY <1>1
    <3> QED BY <3>1 DEF Directives
  <2> QED BY <1>1, <2>1 DEF DirectivesPassed
<1>3. NumberIn(pieces', directives', next') = Counted(pieces', directives', next')
  BY <1>1, <1>2, NumberIsCounted
<1>4. NumberIn(pieces', directives', token'.place) = Counted(pieces', directives', token'.place)
  BY <1>1, <1>2, NumberIsCounted
<1>5. NumberAt(next)' = NumberIn(pieces', directives', next')
      /\ NumberAt(token.place)' = NumberIn(pieces', directives', token'.place)
  BY DEF NumberAt, NumberIn, LinesBetween
<1> QED BY <1>3, <1>4, <1>5 DEF LinesAsDirected

-----------------------------------------------------------------------------
(***************************************************************************)
(* One lemma per action.                                                   *)
(***************************************************************************)
LEMMA GetTokenStep == ASSUME StreamInv, GetToken PROVE StreamInv'
<1>1. StreamTypeOK /\ StandsOnToken /\ DirectivesPassed /\ TokensInOrder
  BY DEF StreamInv
<1>2. Len(pieces) \in Nat /\ next \in 1 .. Len(pieces) /\ ~at_eof /\ pieces[next].valid
  BY <1>1 DEF GetToken, Found, StreamTypeOK
<1>3. /\ token' = TokenAt(next) /\ returned' = Append(returned, pieces[next].id)
      /\ next' = next + 1 /\ line' = line + pieces[next].lines
      /\ pieces' = pieces /\ at_eof' = at_eof /\ looping' = looping /\ directives' = directives
  BY DEF GetToken, Return, Advance, TokenAt
<1>4. /\ pieces \in [1 .. Len(pieces) -> Piece]
      /\ pieces[next].id \in Ids /\ pieces[next].lines \in Nat
      /\ pieces[next].lf \in BOOLEAN /\ pieces[next].ends \in BOOLEAN
  BY <1>1, <1>2, TextTyped
<1>5. token' \in [id : Ids \cup EndIds \cup {"none"}, line : Nat, lf : BOOLEAN, ends : BOOLEAN,
                  place : 1 .. Len(pieces) + 1]
  BY <1>1, <1>2, <1>3, <1>4 DEF TokenAt, StreamTypeOK
<1>6. StreamTypeOK'
  <2>1. returned' \in Seq(Ids \cup EndIds)
    BY <1>1, <1>3, <1>4, AppendProperties DEF StreamTypeOK
  <2>2. next' \in 1 .. Len(pieces') + 1 /\ line' \in Nat
    BY <1>1, <1>2, <1>3, <1>4 DEF StreamTypeOK
  <2> QED BY <1>1, <1>3, <1>5, <2>1, <2>2 DEF StreamTypeOK
<1>7. StandsOnToken'
  BY <1>1, <1>2, <1>3, <1>4 DEF StandsOnToken, TokenAt, Ids, EndIds
<1>8. \A n \in DOMAIN directives : directives[n].place \in Nat
  <2>1. ASSUME NEW n \in DOMAIN directives
        PROVE  directives[n].place \in Nat
    <3>1. directives[n] \in Directives(Len(pieces))
      BY <1>1 DEF StreamTypeOK
    <3> QED BY <3>1 DEF Directives
  <2> QED BY <2>1
<1>9. DirectivesPassed'
  BY <1>1, <1>2, <1>3, <1>8 DEF DirectivesPassed, TokenAt
<1>10. TokensInOrder'
  <2> DEFINE before == TokensOf(pieces)[next - 1]
  <2>1. before \in Seq(Ids \cup EndIds)
    <3>1. next - 1 \in 0 .. Len(pieces)
      BY <1>2
    <3>2. TokensOf(pieces)[next - 1] \in Seq(Ids)
      BY <1>2, <1>4, <3>1, TokensOfRecursion
    <3> QED BY <3>2
  <2>2. TokensOf(pieces)[next] = Append(before, pieces[next].id)
    BY <1>2, <1>4, TokensOfRecursion
  <2>3. token.id # "T_EOI" /\ token'.id # "T_EOI"
    BY <1>1, <1>2, <1>3, <1>4 DEF StandsOnToken, EndIds, Ids, TokenAt
  <2> HIDE DEF before
  <2>4. returned = before \o <<>> \o <<>>
    BY <1>1, <1>2, <2>3 DEF TokensInOrder, before
  <2>5. returned = before
    BY <2>1, <2>4, ConcatShapes
  <2>6. TokensOf(pieces)[next' - 1] = returned'
    BY <1>2, <1>3, <2>2, <2>5
  <2>7. returned' \in Seq(Ids \cup EndIds)
    BY <1>6 DEF StreamTypeOK
  <2>8. returned' = returned' \o <<>> \o <<>>
    BY <2>7, ConcatShapes
  <2> QED BY <1>2, <1>3, <2>3, <2>6, <2>8 DEF TokensInOrder
<1>11. LinesAsDirected'
  <2>1. ASSUME \A n \in DOMAIN directives : pieces[directives[n].place].lf
        PROVE  /\ line' = Counted(pieces, directives, next + 1)
               /\ token'.line = Counted(pieces, directives, next)
    <3>1. line = Counted(pieces, directives, next)
      BY <2>1, LineBefore
    <3>2. Counted(pieces, directives, next + 1)
            = Counted(pieces, directives, next) + pieces[next].lines
      <4>1. directives \in Seq(Directives(Len(pieces)))
        BY <1>1 DEF StreamTypeOK
      <4> QED BY <1>2, <1>4, <4>1, CountedOn
    <3> QED BY <1>3, <3>1, <3>2 DEF TokenAt
  <2>2. token'.place = next
    BY <1>3 DEF TokenAt
  <2> QED BY <1>3, <1>6, <1>9, <2>1, <2>2, LineAfter
<1> QED BY <1>6, <1>7, <1>9, <1>10, <1>11 DEF StreamInv

LEMMA GetInvalidStep == ASSUME StreamInv, GetInvalid PROVE StreamInv'
<1>1. StreamTypeOK /\ StandsOnToken /\ DirectivesPassed /\ TokensInOrder
  BY DEF StreamInv
<1>2. Len(pieces) \in Nat /\ next \in 1 .. Len(pieces) /\ ~at_eof /\ ~pieces[next].valid
  BY <1>1 DEF GetInvalid, Found, StreamTypeOK
<1>3. /\ token' = token /\ returned' = returned
      /\ next' = next + 1 /\ line' = line + pieces[next].lines
      /\ pieces' = pieces /\ at_eof' = at_eof /\ looping' = looping /\ directives' = directives
  BY DEF GetInvalid, Advance
<1>4. pieces \in [1 .. Len(pieces) -> Piece] /\ pieces[next].lines \in Nat
  BY <1>1, <1>2, TextTyped
<1>5. StreamTypeOK'
  <2>1. next' \in 1 .. Len(pieces') + 1 /\ line' \in Nat
    BY <1>1, <1>2, <1>3, <1>4 DEF StreamTypeOK
  <2> QED BY <1>1, <1>3, <2>1 DEF StreamTypeOK
<1>6. StandsOnToken'
  <2>1. token.place \in Nat
    BY <1>1 DEF StreamTypeOK
  <2> QED BY <1>1, <1>2, <1>3, <2>1 DEF StandsOnToken
<1>7. \A n \in DOMAIN directives : directives[n].place \in Nat
  <2>1. ASSUME NEW n \in DOMAIN directives
        PROVE  directives[n].place \in Nat
    <3>1. directives[n] \in Directives(Len(pieces))
      BY <1>1 DEF StreamTypeOK
    <3> QED BY <3>1 DEF Directives
  <2> QED BY <2>1
<1>8. DirectivesPassed'
  BY <1>1, <1>2, <1>3, <1>7 DEF DirectivesPassed
<1>9. TokensInOrder'
  <2>1. TokensOf(pieces)[next' - 1] = TokensOf(pieces)[next - 1]
    BY <1>2, <1>3, <1>4, TokensOfRecursion
  <2> QED BY <1>1, <1>3, <2>1 DEF TokensInOrder
<1>10. LinesAsDirected'
  <2>1. ASSUME \A n \in DOMAIN directives : pieces[directives[n].place].lf
        PROVE  /\ line' = Counted(pieces, directives, next + 1)
               /\ token.id # "none" => token.line = Counted(pieces, directives, token.place)
    <3>1. line = Counted(pieces, directives, next)
          /\ (token.id # "none" => token.line = Counted(pieces, directives, token.place))
      BY <2>1, LineBefore
    <3>2. Counted(pieces, directives, next + 1)
            = Counted(pieces, directives, next) + pieces[next].lines
      <4>1. directives \in Seq(Directives(Len(pieces)))
        BY <1>1 DEF StreamTypeOK
      <4> QED BY <1>2, <1>4, <4>1, CountedOn
    <3>3. line' = line + pieces[next].lines
      BY <1>3
    <3> QED BY <3>1, <3>2, <3>3
  <2> QED BY <1>3, <1>5, <1>8, <2>1, LineAfter
<1> QED BY <1>5, <1>6, <1>8, <1>9, <1>10 DEF StreamInv

\* The two tokens at the end: nothing is read, and they have the last line.
LEMMA EndStep ==
    ASSUME StreamInv, NEW id \in EndIds, Return(EndToken(id)), next = Len(pieces) + 1,
           at_eof' = TRUE, UNCHANGED <<pieces, next, line, looping, directives>>
    PROVE  StreamTypeOK' /\ StandsOnToken' /\ DirectivesPassed' /\ LinesAsDirected'
<1>1. StreamTypeOK /\ StandsOnToken /\ DirectivesPassed /\ TokensInOrder
  BY DEF StreamInv
<1>2. /\ token' = EndToken(id) /\ returned' = Append(returned, id)
      /\ next' = next /\ line' = line
      /\ pieces' = pieces /\ looping' = looping /\ directives' = directives
  BY DEF Return, EndToken
<1>3. Len(pieces) \in Nat
  BY <1>1 DEF StreamTypeOK
<1>4. token' \in [id : Ids \cup EndIds \cup {"none"}, line : Nat, lf : BOOLEAN, ends : BOOLEAN,
                  place : 1 .. Len(pieces) + 1]
  BY <1>1, <1>2 DEF EndToken, StreamTypeOK
<1>5. StreamTypeOK'
  <2>1. returned' \in Seq(Ids \cup EndIds)
    BY <1>1, <1>2, AppendProperties DEF StreamTypeOK
  <2> QED BY <1>1, <1>2, <1>4, <2>1 DEF StreamTypeOK
<1>6. StandsOnToken'
  <2>1. token'.id = id /\ token'.place = next /\ token'.ends = FALSE
    BY <1>2 DEF EndToken
  <2>2. id \notin Ids
    BY DEF Ids, EndIds
  <2>3. next \in Nat
    BY <1>1 DEF StreamTypeOK
  <2> QED BY <1>2, <2>1, <2>2, <2>3 DEF StandsOnToken
<1>7. \A n \in DOMAIN directives : directives[n].place \in Nat
  <2>1. ASSUME NEW n \in DOMAIN directives
        PROVE  directives[n].place \in Nat
    <3>1. directives[n] \in Directives(Len(pieces))
      BY <1>1 DEF StreamTypeOK
    <3> QED BY <3>1 DEF Directives
  <2> QED BY <2>1
<1>8. DirectivesPassed'
  BY <1>1, <1>2, <1>3, <1>7 DEF DirectivesPassed, EndToken
<1>9. LinesAsDirected'
  <2>1. ASSUME \A n \in DOMAIN directives : pieces[directives[n].place].lf
        PROVE  line = Counted(pieces, directives, next)
    BY <2>1, LineBefore
  <2>2. token'.line = line /\ token'.place = next
    BY <1>2 DEF EndToken
  <2> QED BY <1>2, <1>5, <1>8, <2>1, <2>2, LineAfter
<1> QED BY <1>5, <1>6, <1>8, <1>9

LEMMA GetEofStep == ASSUME StreamInv, GetEof PROVE StreamInv'
<1>1. StreamTypeOK /\ StandsOnToken /\ DirectivesPassed /\ TokensInOrder
  BY DEF StreamInv
<1>2. Len(pieces) \in Nat /\ next = Len(pieces) + 1 /\ ~at_eof
  BY <1>1 DEF GetEof, StreamTypeOK
<1>3. /\ Return(EndToken("T_EOF")) /\ at_eof' = TRUE
      /\ UNCHANGED <<pieces, next, line, looping, directives>>
  BY DEF GetEof
<1>4. StreamTypeOK' /\ StandsOnToken' /\ DirectivesPassed' /\ LinesAsDirected'
  BY <1>2, <1>3, EndStep DEF EndIds
<1>5. TokensInOrder'
  <2> DEFINE before == TokensOf(pieces)[next - 1]
             S == Ids \cup EndIds
  <2>1. before \in Seq(S)
    <3>1. next - 1 \in 0 .. Len(pieces) /\ pieces \in [1 .. Len(pieces) -> Piece]
      BY <1>1, <1>2, TextTyped
    <3>2. TokensOf(pieces)[next - 1] \in Seq(Ids)
      BY <1>2, <3>1, TokensOfRecursion
    <3> QED BY <3>2
  <2>2. token.id # "T_EOI" /\ token'.id = "T_EOF"
    BY <1>1, <1>2, <1>3 DEF StandsOnToken, EndIds, Return, EndToken
  <2>3. "T_EOF" \in S
    BY DEF EndIds
  <2> HIDE DEF before, S
  <2>4. returned = before \o <<>> \o <<>>
    BY <1>1, <1>2, <2>2 DEF TokensInOrder, before
  <2>5. returned' = before \o <<"T_EOF">>
    <3>1. returned = before
      BY <2>1, <2>3, <2>4, ConcatShapes
    <3> QED BY <1>3, <2>1, <2>3, <3>1, ConcatShapes DEF Return, EndToken
  <2>6. before \o <<"T_EOF">> \in Seq(S)
    BY <2>1, <2>3, ConcatShapes, AppendProperties
  <2>7. returned' = before \o <<"T_EOF">> \o <<>>
    BY <2>3, <2>5, <2>6, ConcatShapes
  <2> QED BY <1>3, <2>2, <2>7 DEF TokensInOrder, before
<1> QED BY <1>4, <1>5 DEF StreamInv

LEMMA GetEoiStep == ASSUME StreamInv, GetEoi PROVE StreamInv'
<1>1. StreamTypeOK /\ StandsOnToken /\ DirectivesPassed /\ TokensInOrder
  BY DEF StreamInv
<1>2. Len(pieces) \in Nat /\ next = Len(pieces) + 1 /\ at_eof /\ token.id # "T_EOI"
  BY <1>1 DEF GetEoi, StreamTypeOK, StandsOnToken
<1>3. /\ Return(EndToken("T_EOI")) /\ at_eof' = TRUE
      /\ UNCHANGED <<pieces, next, line, looping, directives>>
  BY <1>1, <1>2 DEF GetEoi, StreamTypeOK
<1>4. StreamTypeOK' /\ StandsOnToken' /\ DirectivesPassed' /\ LinesAsDirected'
  BY <1>2, <1>3, EndStep DEF EndIds
<1>5. TokensInOrder'
  <2> DEFINE before == TokensOf(pieces)[next - 1]
             S == Ids \cup EndIds
  <2>1. before \in Seq(S)
    <3>1. next - 1 \in 0 .. Len(pieces) /\ pieces \in [1 .. Len(pieces) -> Piece]
      BY <1>1, <1>2, TextTyped
    <3>2. TokensOf(pieces)[next - 1] \in Seq(Ids)
      BY <1>2, <3>1, TokensOfRecursion
    <3> QED BY <3>2
  <2>2. token'.id = "T_EOI"
    BY <1>3 DEF Return, EndToken
  <2>3. "T_EOF" \in S /\ "T_EOI" \in S
    BY DEF EndIds
  <2> HIDE DEF before, S
  <2>4. returned = before \o <<"T_EOF">> \o <<>>
    BY <1>1, <1>2 DEF TokensInOrder, before
  <2>5. before \o <<"T_EOF">> \in Seq(S)
    BY <2>1, <2>3, ConcatShapes, AppendProperties
  <2>6. returned = before \o <<"T_EOF">>
    BY <2>3, <2>4, <2>5, ConcatShapes
  <2>7. returned' = before \o <<"T_EOF">> \o <<"T_EOI">>
    <3>1. returned' = Append(returned, "T_EOI")
      BY <1>3 DEF Return, EndToken
    <3> QED BY <2>3, <2>5, <2>6, <3>1, ConcatShapes
  <2> QED BY <1>3, <2>2, <2>7 DEF TokensInOrder, before
<1> QED BY <1>4, <1>5 DEF StreamInv

LEMMA SetPositionStep ==
    ASSUME StreamInv, NEW number \in Directed, SetPosition(number)
    PROVE  StreamInv'
<1>1. StreamTypeOK /\ StandsOnToken /\ DirectivesPassed /\ TokensInOrder
  BY DEF StreamInv
<1>2. number \in Nat
  BY TokenBoundsAssumption
<1>3. /\ token.ends /\ next = token.place + 1
      /\ token' = [token EXCEPT !.line = number] /\ line' = FutureLine(number)
      /\ directives' = Append(directives, [place |-> token.place, number |-> number])
      /\ pieces' = pieces /\ next' = next /\ at_eof' = at_eof
      /\ looping' = looping /\ returned' = returned
  BY DEF SetPosition
<1>4. /\ Len(pieces) \in Nat /\ pieces \in [1 .. Len(pieces) -> Piece]
      /\ token.id \in Ids /\ token.place \in 1 .. Len(pieces)
      /\ token.lf = pieces[token.place].lf
  BY <1>1, <1>3, TextTyped DEF StandsOnToken
<1>5. pieces[token.place].lines = 1
  <2>1. pieces[token.place] \in Pieces /\ pieces[token.place].ends
    BY <1>1, <1>3, <1>4, TextTyped DEF StandsOnToken
  <2> QED BY <2>1, PiecesAssumption
<1>6. token' \in [id : Ids \cup EndIds \cup {"none"}, line : Nat, lf : BOOLEAN, ends : BOOLEAN,
                  place : 1 .. Len(pieces) + 1]
      /\ token'.line = number /\ token'.place = token.place /\ token'.id = token.id
      /\ token'.lf = token.lf /\ token'.ends = token.ends
  BY <1>1, <1>2, <1>3 DEF StreamTypeOK
<1>7. StreamTypeOK'
  <2>1. [place |-> token.place, number |-> number] \in Directives(Len(pieces))
    BY <1>2, <1>4 DEF Directives
  <2>2. directives' \in Seq(Directives(Len(pieces)))
    BY <1>1, <1>3, <2>1, AppendProperties DEF StreamTypeOK
  <2>3. line' \in Nat
    BY <1>2, <1>3 DEF FutureLine
  <2> QED BY <1>1, <1>3, <1>6, <2>2, <2>3 DEF StreamTypeOK
<1>8. StandsOnToken'
  BY <1>1, <1>3, <1>6 DEF StandsOnToken
<1>9. DirectivesPassed'
  <2>1. ASSUME NEW n \in DOMAIN directives'
        PROVE  directives'[n].place < next /\ directives'[n].place <= token.place
    <3>1. CASE n \in DOMAIN directives
      <4>1. directives'[n] = directives[n]
        BY <1>1, <1>3, <3>1 DEF StreamTypeOK
      <4> QED BY <1>1, <3>1, <4>1 DEF DirectivesPassed
    <3>2. CASE n \notin DOMAIN directives
      <4>1. directives'[n] = [place |-> token.place, number |-> number]
        BY <1>1, <1>3, <2>1, <3>2 DEF StreamTypeOK
      <4> QED BY <1>3, <1>4, <4>1
    <3> QED BY <3>1, <3>2
  <2> QED BY <1>3, <1>6, <2>1 DEF DirectivesPassed
<1>10. TokensInOrder'
  BY <1>1, <1>3, <1>6 DEF TokensInOrder
<1>11. LinesAsDirected'
  <2>1. ASSUME \A n \in DOMAIN directives' : pieces[directives'[n].place].lf
        PROVE  line' = number + 1
    <3>1. Len(directives') \in DOMAIN directives'
          /\ directives'[Len(directives')] = [place |-> token.place, number |-> number]
      BY <1>1, <1>3 DEF StreamTypeOK
    <3>2. pieces[token.place].lf
      BY <2>1, <3>1
    <3> QED BY <1>3, <1>4, <3>2 DEF FutureLine
  <2>2. /\ Counted(pieces, directives', token.place) = number
        /\ Counted(pieces, directives', token.place + 1) = number + pieces[token.place].lines
    <3>1. directives \in Seq(Directives(Len(pieces)))
      BY <1>1 DEF StreamTypeOK
    <3>2. directives' = WithDirective(directives, token.place, number)
      BY <1>3 DEF WithDirective
    <3>3. pieces \in [1 .. Len(pieces) -> Piece] /\ Len(pieces) \in Nat
          /\ token.place \in 1 .. Len(pieces)
      BY <1>4
    <3> DEFINE more == WithDirective(directives, token.place, number)
    <3>4. Counted(pieces, more, token.place) = number
      BY <1>2, <3>1, <3>3, CountedFrom
    <3>5. Counted(pieces, more, token.place + 1) = number + pieces[token.place].lines
      BY <1>2, <3>1, <3>3, CountedFrom, SMTT(40)
    <3> QED BY <3>2, <3>4, <3>5
  <2> QED BY <1>3, <1>5, <1>6, <1>7, <1>9, <2>1, <2>2, LineAfter
<1> QED BY <1>7, <1>8, <1>9, <1>10, <1>11 DEF StreamInv

-----------------------------------------------------------------------------
\* A step that leaves all but the loop alone.
LEMMA OtherStep ==
    ASSUME StreamInv, looping' \in BOOLEAN,
           UNCHANGED <<pieces, next, line, at_eof, token, returned, directives>>
    PROVE  StreamInv'
BY DEF StreamInv, StreamTypeOK, StandsOnToken, DirectivesPassed, TokensInOrder,
       LinesAsDirected, NumberAt, LinesBetween

LEMMA StreamInvStep == ASSUME StreamInv, [StreamNext]_vars PROVE StreamInv'
<1>1. CASE GetToken
  BY <1>1, GetTokenStep
<1>2. CASE GetInvalid
  BY <1>2, GetInvalidStep
<1>3. CASE GetEof
  BY <1>3, GetEofStep
<1>4. CASE GetEoi
  BY <1>4, GetEoiStep
<1>5. CASE LeaveLoop
  BY <1>5, OtherStep DEF LeaveLoop
<1>6. CASE \E number \in Directed : SetPosition(number)
  BY <1>6, SetPositionStep
<1>7. CASE UNCHANGED vars
  <2>1. looping' \in BOOLEAN
    BY <1>7 DEF vars, StreamInv, StreamTypeOK
  <2> QED BY <1>7, <2>1, OtherStep DEF vars
<1> QED BY <1>1, <1>2, <1>3, <1>4, <1>5, <1>6, <1>7 DEF StreamNext, Get

(***************************************************************************)
(* The invariant of the stream, for every text: the iterator stands on a   *)
(* token of the text behind which the functor goes on, or on one of the    *)
(* end, and the directives are behind both.                                *)
(***************************************************************************)
THEOREM StreamInvariant == StreamSpec => []StreamInv
<1>1. StreamInit => StreamInv
  BY StreamInvInit
<1>2. StreamInv /\ [StreamNext]_vars => StreamInv'
  BY StreamInvStep
<1> QED BY <1>1, <1>2, PTL DEF StreamSpec

(***************************************************************************)
(* Every valid piece of a text is returned once and in order, then T_EOF   *)
(* and T_EOI once each: an exception of the functor, which compile()       *)
(* catches, neither repeats nor skips another token.                       *)
(***************************************************************************)
THEOREM StreamTokensInOrder == StreamSpec => []TokensInOrder
<1>1. StreamInv => TokensInOrder
  BY DEF StreamInv
<1> QED BY <1>1, StreamInvariant, PTL

(***************************************************************************)
(* The token and the functor have the line numbers that the text and its   *)
(* #line directives give, so long as set_position is called on tokens with *)
(* a '\n' in them.                                                         *)
(***************************************************************************)
THEOREM StreamLinesAsDirected == StreamSpec => []LinesAsDirected
<1>1. StreamInv => LinesAsDirected
  BY DEF StreamInv
<1> QED BY <1>1, StreamInvariant, PTL

=============================================================================
