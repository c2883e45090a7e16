--------------------------- MODULE P4LexerProofs ----------------------------
(***************************************************************************)
(* Proofs about P4Lexer, for any texts, keywords and letters: where every  *)
(* loop of next() is in its text, that a plain text is split into the      *)
(* longest tokens of P4Tokens, and that a literal becomes what it denotes. *)
(***************************************************************************)
EXTENDS P4Tokens, SequenceLemmas

Lasts == Character \cup {EOF, " "}

Lexers == [rest : Seq(Character), fail : BOOLEAN, last : Lasts, row : Int, col : Int]

\* How many characters of a text were taken off the stream.
Taken(chars, l) == Len(chars) - Len(l.rest)

(***************************************************************************)
(* The stream holds the rest of the text, its failbit goes with EOF in     *)
(* last, and it fails in front of the end only if something is empty.      *)
(***************************************************************************)
Sound(chars, l) ==
    /\ l \in Lexers
    /\ Len(l.rest) <= Len(chars)
    /\ \A n \in 1 .. Len(l.rest) : l.rest[n] = chars[Taken(chars, l) + n]
    /\ l.last = EOF => l.fail = TRUE
    /\ l.last # EOF => l.fail = FALSE
    /\ l.last = EOF /\ l.rest # <<>> => EmptyLineComment(chars) \/ "#" \in Range(chars)

\* last is the last character taken, or EOF.
LastTaken(chars, l) ==
    l.last # EOF => Taken(chars, l) >= 1 /\ l.last = chars[Taken(chars, l)]

\* The new lines among the first characters of a text.
NewLinesTo(chars, n) == Cardinality({ i \in 1 .. n : chars[i] = "\n" })

\* The row, but for the new lines taken off the stream.
Uncounted(chars, l) == l.row - NewLinesTo(chars, Taken(chars, l))

\* One more character was taken, or there was none.
TookOne(chars, l, g) ==
    /\ Taken(chars, g) = Taken(chars, l) + 1 /\ g.last # EOF
    /\ g.last = chars[Taken(chars, g)] /\ Taken(chars, g) \in 1 .. Len(chars)

FoundEnd(l, g) == g.last = EOF /\ g.rest = <<>> /\ l.rest = <<>>

-----------------------------------------------------------------------------
LEMMA NoEndInText == EOF \notin Character
BY DEF Character

LEMMA LexerFields ==
    ASSUME NEW l \in Lexers
    PROVE  /\ l.rest \in Seq(Character) /\ l.fail \in BOOLEAN /\ l.last \in Lasts
           /\ l.row \in Int /\ l.col \in Int /\ Len(l.rest) \in Nat
BY LenProperties DEF Lexers

LEMMA TakenType ==
    ASSUME NEW chars \in Seq(Character), NEW l, Sound(chars, l)
    PROVE  Taken(chars, l) \in 0 .. Len(chars) /\ Len(chars) \in Nat
           /\ Len(l.rest) = Len(chars) - Taken(chars, l)
<1>1. Len(chars) \in Nat /\ Len(l.rest) \in Nat /\ Len(l.rest) <= Len(chars)
  BY LexerFields, LenProperties DEF Sound
<1> QED BY <1>1 DEF Taken

LEMMA NewLinesType ==
    ASSUME NEW chars, NEW n \in Nat
    PROVE  NewLinesTo(chars, n) \in Nat /\ IsFiniteSet({ i \in 1 .. n : chars[i] = "\n" })
<1>1. IsFiniteSet(1 .. n)
  BY FS_Interval
<1>2. IsFiniteSet({ i \in 1 .. n : chars[i] = "\n" })
  BY <1>1, FS_Subset
<1> QED BY <1>2, FS_CardinalityType DEF NewLinesTo

LEMMA UncountedType ==
    ASSUME NEW chars \in Seq(Character), NEW l, Sound(chars, l)
    PROVE  Uncounted(chars, l) \in Int
<1>1. l.row \in Int /\ Taken(chars, l) \in Nat
  <2>1. Taken(chars, l) \in 0 .. Len(chars) /\ Len(chars) \in Nat
    BY TakenType
  <2> QED BY <2>1, LexerFields DEF Sound
<1>2. NewLinesTo(chars, Taken(chars, l)) \in Nat
  BY <1>1, NewLinesType
<1> QED BY <1>1, <1>2 DEF Uncounted

LEMMA NewLinesOneMore ==
    ASSUME NEW chars, NEW n \in Nat
    PROVE  NewLinesTo(chars, n + 1) =
             IF chars[n + 1] = "\n" THEN NewLinesTo(chars, n) + 1 ELSE NewLinesTo(chars, n)
<1> DEFINE S == { i \in 1 .. n : chars[i] = "\n" }
           R == { i \in 1 .. n + 1 : chars[i] = "\n" }
<1>1. \A i : i \in 1 .. n + 1 <=> i \in 1 .. n \/ i = n + 1
  OBVIOUS
<1>2. CASE chars[n + 1] = "\n"
  <2>1. R = S \cup {n + 1} /\ n + 1 \notin S
    BY <1>1, <1>2
  <2>2. IsFiniteSet(S) /\ Cardinality(S) \in Nat
    BY NewLinesType, FS_CardinalityType
  <2> HIDE DEF S, R
  <2>3. Cardinality(R) = Cardinality(S) + 1
    BY <2>1, <2>2, FS_AddElement
  <2> QED BY <1>2, <2>3 DEF NewLinesTo, S, R
<1>3. CASE chars[n + 1] # "\n"
  <2>1. R = S
    BY <1>1, <1>3
  <2> QED BY <1>3, <2>1 DEF NewLinesTo
<1> QED BY <1>2, <1>3

LEMMA NoNewLinesMore ==
    ASSUME NEW chars, NEW m \in Nat, NEW n \in Nat, m <= n,
           \A i \in m + 1 .. n : chars[i] # "\n"
    PROVE  NewLinesTo(chars, n) = NewLinesTo(chars, m)
<1>1. { i \in 1 .. n : chars[i] = "\n" } = { i \in 1 .. m : chars[i] = "\n" }
  <2>1. \A i \in 1 .. n : i \in 1 .. m \/ i \in m + 1 .. n
    OBVIOUS
  <2>2. \A i \in 1 .. m : i \in 1 .. n
    OBVIOUS
  <2> QED BY <2>1, <2>2
<1> QED BY <1>1 DEF NewLinesTo

LEMMA NewLinesInFirst ==
    ASSUME NEW chars \in Seq(Character), NEW n \in 0 .. Len(chars)
    PROVE  NewLinesIn(SubSeq(chars, 1, n)) = NewLinesTo(chars, n)
<1> DEFINE first == SubSeq(chars, 1, n)
<1>1. Len(chars) \in Nat
  BY LenProperties
<1>2. DOMAIN first = 1 .. n /\ \A i \in 1 .. n : first[i] = chars[i]
  BY <1>1
<1> HIDE DEF first
<1>3. { i \in DOMAIN first : first[i] = "\n" } = { i \in 1 .. n : chars[i] = "\n" }
  BY <1>2
<1> QED BY <1>3 DEF NewLinesIn, NewLinesTo, first

-----------------------------------------------------------------------------
(***************************************************************************)
(* What is.get() and advance do to a stream that has not failed.           *)
(***************************************************************************)
LEMMA GetFields ==
    ASSUME NEW l \in Lexers
    PROVE  LET g == Get(l)
           IN  /\ g \in Lexers /\ g.row = l.row /\ g.col = l.col
               /\ l.fail = TRUE \/ l.rest = <<>> => g.last = EOF /\ g.fail = TRUE /\ g.rest = l.rest
               /\ l.fail = FALSE /\ l.rest # <<>> =>
                    /\ g.last = Head(l.rest) /\ g.last \in Character
                    /\ g.fail = FALSE /\ g.rest = Tail(l.rest)
<1>1. CASE l.fail = TRUE \/ l.rest = <<>>
  <2>1. Get(l) = [l EXCEPT !.last = EOF, !.fail = TRUE]
    BY <1>1 DEF Get
  <2> QED BY <1>1, <2>1 DEF Lexers, Lasts
<1>2. CASE l.fail = FALSE /\ l.rest # <<>>
  <2>1. Get(l) = [l EXCEPT !.last = Head(l.rest), !.rest = Tail(l.rest)]
    BY <1>2, Zenon DEF Get
  <2>2. l.rest \in Seq(Character)
    BY LexerFields
  <2>3. Head(l.rest) \in Character /\ Tail(l.rest) \in Seq(Character)
    BY <1>2, <2>2, HeadTailProperties
  <2> DEFINE head == Head(l.rest)
             tail == Tail(l.rest)
  <2>4. [l EXCEPT !.last = head, !.rest = tail] \in Lexers
    <3> HIDE DEF head, tail
    <3>1. head \in Lasts /\ tail \in Seq(Character)
      BY <2>3 DEF Lasts, head, tail
    <3> QED BY <3>1 DEF Lexers
  <2>5. LET g == [l EXCEPT !.last = head, !.rest = tail]
        IN  g.row = l.row /\ g.col = l.col /\ g.last = head /\ g.fail = l.fail /\ g.rest = tail
    <3> HIDE DEF head, tail
    <3> QED BY DEF Lexers
  <2> QED BY <1>2, <2>1, <2>3, <2>4, <2>5
<1> QED BY <1>1, <1>2, LexerFields

LEMMA Gets ==
    ASSUME NEW chars \in Seq(Character), NEW l, Sound(chars, l), l.last # EOF
    PROVE  LET g == Get(l)
           IN  /\ Sound(chars, g) /\ g.row = l.row /\ g.col = l.col
               /\ TookOne(chars, l, g) \/ FoundEnd(l, g)
<1> DEFINE g == Get(l)
<1>1. l \in Lexers /\ l.fail = FALSE
  BY DEF Sound
<1>2. g \in Lexers /\ g.row = l.row /\ g.col = l.col
  BY <1>1, GetFields
<1>3. Taken(chars, l) \in 0 .. Len(chars) /\ Len(chars) \in Nat
      /\ Len(l.rest) = Len(chars) - Taken(chars, l)
  BY TakenType
<1>4. CASE l.rest = <<>>
  <2>1. g.last = EOF /\ g.fail = TRUE /\ g.rest = <<>>
    BY <1>1, <1>4, GetFields
  <2> HIDE DEF g
  <2>2. Len(g.rest) = 0
    BY <2>1
  <2> QED BY <1>2, <1>3, <1>4, <2>1, <2>2 DEF Sound, FoundEnd, g
<1>5. CASE l.rest # <<>>
  <2>1. /\ g.last = Head(l.rest) /\ g.last \in Character
        /\ g.fail = FALSE /\ g.rest = Tail(l.rest)
    BY <1>1, <1>5, GetFields
  <2> HIDE DEF g
  <2>2. l.rest \in Seq(Character)
    BY <1>1, LexerFields
  <2>3. /\ Len(l.rest) \in Nat /\ Len(l.rest) >= 1 /\ Head(l.rest) = l.rest[1]
        /\ Len(Tail(l.rest)) = Len(l.rest) - 1
        /\ \A n \in 1 .. Len(l.rest) - 1 : Tail(l.rest)[n] = l.rest[n + 1]
    BY <1>5, <2>2
  <2>4. Taken(chars, g) = Taken(chars, l) + 1 /\ Taken(chars, g) \in 1 .. Len(chars)
    <3>1. Len(g.rest) = Len(l.rest) - 1
      BY <2>1, <2>3
    <3>2. Taken(chars, g) = Len(chars) - Len(g.rest)
      BY DEF Taken
    <3> DEFINE p == Taken(chars, l)
               q == Taken(chars, g)
               here == Len(l.rest)
               there == Len(g.rest)
    <3>3. /\ p \in 0 .. Len(chars) /\ Len(chars) \in Nat /\ here = Len(chars) - p
          /\ there = here - 1 /\ q = Len(chars) - there /\ here \in Nat /\ here >= 1
      BY <1>3, <2>3, <3>1, <3>2
    <3> HIDE DEF p, q, here, there
    <3>4. q = p + 1 /\ q \in 1 .. Len(chars)
      BY <3>3
    <3> QED BY <3>4 DEF p, q
  <2>5. g.last = chars[Taken(chars, g)] /\ g.last # EOF
    <3>1. l.rest[1] = chars[Taken(chars, l) + 1]
      BY <2>3 DEF Sound
    <3> QED BY <2>1, <2>3, <2>4, <3>1, NoEndInText
  <2>6. \A n \in 1 .. Len(g.rest) : g.rest[n] = chars[Taken(chars, g) + n]
    <3> SUFFICES ASSUME NEW n \in 1 .. Len(g.rest)
                 PROVE  g.rest[n] = chars[Taken(chars, g) + n]
      OBVIOUS
    <3>1. n + 1 \in 1 .. Len(l.rest) /\ g.rest[n] = l.rest[n + 1]
      BY <2>1, <2>3
    <3>2. l.rest[n + 1] = chars[Taken(chars, l) + (n + 1)]
      BY <3>1 DEF Sound
    <3>3. Taken(chars, l) + (n + 1) = Taken(chars, g) + n
      BY <1>3, <2>4
    <3> QED BY <3>1, <3>2, <3>3
  <2>7. Len(g.rest) <= Len(chars)
    BY <1>3, <2>1, <2>3
  <2>8. Sound(chars, g)
    BY <1>2, <2>1, <2>5, <2>6, <2>7 DEF Sound
  <2>9. TookOne(chars, l, g)
    BY <2>4, <2>5 DEF TookOne
  <2> QED BY <1>2, <2>8, <2>9 DEF g
<1> QED BY <1>4, <1>5

LEMMA AdvanceFields ==
    ASSUME NEW l \in Lexers, l.last # EOF
    PROVE  LET a == advance(l)
               g == Get(l)
           IN  /\ a \in Lexers /\ a.last = g.last /\ a.fail = g.fail /\ a.rest = g.rest
               /\ a.row = IF g.last = "\n" THEN g.row + 1 ELSE g.row
<1> DEFINE g == Get(l)
<1>1. g \in Lexers
  BY GetFields
<1>2. advance(l) = IF g.last = "\n" THEN [g EXCEPT !.row = @ + 1, !.col = 0]
                   ELSE [g EXCEPT !.col = @ + 1]
  BY DEF advance
<1> HIDE DEF g
<1>3. ASSUME g.last = "\n"
      PROVE  LET a == advance(l)
             IN  /\ a \in Lexers /\ a.last = g.last /\ a.fail = g.fail /\ a.rest = g.rest
                 /\ a.row = IF g.last = "\n" THEN g.row + 1 ELSE g.row
  <2>1. advance(l) = [g EXCEPT !.row = g.row + 1, !.col = 0]
    BY <1>2, <1>3
  <2>2. LET a == [g EXCEPT !.row = g.row + 1, !.col = 0]
        IN  /\ a \in Lexers /\ a.last = g.last /\ a.fail = g.fail /\ a.rest = g.rest
            /\ a.row = g.row + 1
    <3> DEFINE r == g.row + 1
               a == [g EXCEPT !.row = r, !.col = 0]
    <3>1. r \in Int /\ 0 \in Int
      BY <1>1 DEF Lexers
    <3> HIDE DEF r
    <3>2. a \in Lexers
      BY <1>1, <3>1 DEF Lexers
    <3>3. a.last = g.last /\ a.fail = g.fail /\ a.rest = g.rest /\ a.row = r
      BY <1>1 DEF Lexers
    <3> QED BY <3>2, <3>3 DEF r
  <2> QED BY <1>3, <2>1, <2>2
<1>4. ASSUME g.last # "\n"
      PROVE  LET a == advance(l)
             IN  /\ a \in Lexers /\ a.last = g.last /\ a.fail = g.fail /\ a.rest = g.rest
                 /\ a.row = IF g.last = "\n" THEN g.row + 1 ELSE g.row
  <2>1. advance(l) = [g EXCEPT !.col = g.col + 1]
    BY <1>2, <1>4
  <2>2. LET a == [g EXCEPT !.col = g.col + 1]
        IN  /\ a \in Lexers /\ a.last = g.last /\ a.fail = g.fail /\ a.rest = g.rest
            /\ a.row = g.row
    BY <1>1 DEF Lexers
  <2> QED BY <1>4, <2>1, <2>2
<1>5. LET a == advance(l)
      IN  /\ a \in Lexers /\ a.last = g.last /\ a.fail = g.fail /\ a.rest = g.rest
          /\ a.row = IF g.last = "\n" THEN g.row + 1 ELSE g.row
  BY <1>3, <1>4
<1> QED BY <1>5 DEF g

\* What makes a stream sound does not look at its row and column.
LEMMA SoundAlike ==
    ASSUME NEW chars, NEW l \in Lexers, NEW g, Sound(chars, g),
           l.rest = g.rest, l.fail = g.fail, l.last = g.last
    PROVE  Sound(chars, l) /\ Taken(chars, l) = Taken(chars, g)
BY DEF Sound, Taken

LEMMA Advances ==
    ASSUME NEW chars \in Seq(Character), NEW l, Sound(chars, l), l.last # EOF
    PROVE  LET a == advance(l)
           IN  /\ Sound(chars, a) /\ Uncounted(chars, a) = Uncounted(chars, l)
               /\ TookOne(chars, l, a) \/ FoundEnd(l, a)
<1> DEFINE g == Get(l)
           a == advance(l)
<1>1. l \in Lexers /\ l.row \in Int
  BY LexerFields DEF Sound
<1>2. /\ Sound(chars, g) /\ g.row = l.row
      /\ TookOne(chars, l, g) \/ FoundEnd(l, g)
  BY Gets
<1>3. /\ a \in Lexers /\ a.last = g.last /\ a.fail = g.fail /\ a.rest = g.rest
      /\ a.row = IF g.last = "\n" THEN g.row + 1 ELSE g.row
  BY <1>1, AdvanceFields
<1> HIDE DEF g, a
<1>4. Sound(chars, a) /\ Taken(chars, a) = Taken(chars, g)
  BY <1>2, <1>3, SoundAlike
<1>5. Taken(chars, l) \in Nat /\ NewLinesTo(chars, Taken(chars, l)) \in Nat
  <2>1. Taken(chars, l) \in 0 .. Len(chars) /\ Len(chars) \in Nat
    BY TakenType
  <2>2. Taken(chars, l) \in Nat
    BY <2>1
  <2> QED BY <2>2, NewLinesType
<1>6. CASE TookOne(chars, l, g)
  <2>1. /\ Taken(chars, a) = Taken(chars, l) + 1
        /\ a.last = chars[Taken(chars, l) + 1] /\ TookOne(chars, l, a)
    BY <1>3, <1>4, <1>6 DEF TookOne
  <2>2. NewLinesTo(chars, Taken(chars, a)) =
          IF a.last = "\n" THEN NewLinesTo(chars, Taken(chars, l)) + 1
          ELSE NewLinesTo(chars, Taken(chars, l))
    BY <1>5, <2>1, NewLinesOneMore
  <2>3. Uncounted(chars, a) = Uncounted(chars, l)
    <3> DEFINE before == NewLinesTo(chars, Taken(chars, l))
               after == NewLinesTo(chars, Taken(chars, a))
    <3>1. /\ after = IF a.last = "\n" THEN before + 1 ELSE before
          /\ a.row = IF a.last = "\n" THEN l.row + 1 ELSE l.row
          /\ before \in Nat /\ l.row \in Int
      BY <1>1, <1>2, <1>3, <1>5, <2>2
    <3> HIDE DEF before, after
    <3>2. a.row - after = l.row - before
      BY <3>1
    <3> QED BY <3>2 DEF Uncounted, before, after
  <2> QED BY <1>4, <2>1, <2>3 DEF a
<1>7. CASE FoundEnd(l, g)
  <2>1. FoundEnd(l, a) /\ a.last # "\n"
    BY <1>3, <1>7 DEF FoundEnd, EOF
  <2>2. a.row = l.row
    BY <1>2, <1>3, <2>1
  <2>3. Taken(chars, a) = Taken(chars, l)
    BY <2>1 DEF FoundEnd, Taken
  <2> QED BY <1>4, <2>1, <2>2, <2>3 DEF Uncounted, a
<1> QED BY <1>2, <1>6, <1>7

\* advance at the end stays there.
LEMMA AdvanceAtEnd == ASSUME NEW l, l.last = EOF PROVE advance(l) = l
BY DEF advance

\* A '/' that became a NUL goes like any other character.
LEMMA AdvancePastNul ==
    ASSUME NEW l \in Lexers, l.last # EOF
    PROVE  advance([l EXCEPT !.last = NUL]) = advance(l)
<1> DEFINE n == [l EXCEPT !.last = NUL]
<1>1. n.last = NUL /\ n.fail = l.fail /\ n.rest = l.rest /\ NUL # EOF
  BY DEF Lexers, NUL, EOF
<1>2. Get(n) = Get(l)
  <2>1. CASE l.fail \/ l.rest = <<>>
    <3>1. [n EXCEPT !.last = EOF, !.fail = TRUE] = [l EXCEPT !.last = EOF, !.fail = TRUE]
      BY DEF Lexers
    <3> HIDE DEF n
    <3> QED BY <1>1, <2>1, <3>1 DEF Get
  <2>2. CASE ~(l.fail \/ l.rest = <<>>)
    <3>1. \A head, tail : [n EXCEPT !.last = head, !.rest = tail]
                          = [l EXCEPT !.last = head, !.rest = tail]
      BY DEF Lexers
    <3>2. ~(n.fail \/ n.rest = <<>>)
      BY <1>1, <2>2
    <3> HIDE DEF n
    <3>3. /\ Get(n) = [n EXCEPT !.last = Head(n.rest), !.rest = Tail(n.rest)]
          /\ Get(l) = [l EXCEPT !.last = Head(l.rest), !.rest = Tail(l.rest)]
      BY <2>2, <3>2, Zenon DEF Get
    <3> QED BY <1>1, <3>1, <3>3
  <2> QED BY <2>1, <2>2
<1> HIDE DEF n
<1>3. advance(n) = advance(l)
  BY <1>1, <1>2 DEF advance
<1> QED BY <1>3 DEF n

(***************************************************************************)
(* is.get(sb) takes the rest of the line, or fails when that is empty.     *)
(***************************************************************************)
LEMMA GetLineTakes ==
    ASSUME NEW l \in Lexers, l.fail = FALSE
    PROVE  \/ /\ l.rest = <<>> \/ l.rest[1] = "\n"
              /\ GetLine(l) = [l EXCEPT !.fail = TRUE]
           \/ \E n \in 1 .. Len(l.rest) :
                /\ \A m \in 1 .. n : l.rest[m] # "\n"
                /\ n = Len(l.rest) \/ l.rest[n + 1] = "\n"
                /\ GetLine(l) = [l EXCEPT !.rest = SubSeq(l.rest, n + 1, Len(l.rest))]
<1> DEFINE rest == l.rest
           IsLine(k) == /\ \A m \in 1 .. k : rest[m] # "\n"
                        /\ k = Len(rest) \/ rest[k + 1] = "\n"
           n == CHOOSE k \in 0 .. Len(rest) : IsLine(k)
<1>1. Len(rest) \in Nat
  BY LexerFields
<1>2. \E k \in 0 .. Len(rest) : IsLine(k)
  <2> DEFINE S == { k \in Nat : k = Len(rest) \/ (k < Len(rest) /\ rest[k + 1] = "\n") }
  <2>1. Len(rest) \in S /\ S \subseteq Nat
    BY <1>1
  <2>2. PICK k \in S : \A i \in S : ~(i < k)
    <3> HIDE DEF S
    <3> QED BY <2>1, LeastIndex
  <2>3. k \in 0 .. Len(rest) /\ (k = Len(rest) \/ rest[k + 1] = "\n")
    BY <1>1
  <2>4. ASSUME NEW m \in 1 .. k, rest[m] = "\n"
        PROVE  FALSE
    <3>1. m - 1 \in S
      BY <1>1, <2>3, <2>4
    <3>2. m - 1 < k
      BY <2>3
    <3> QED BY <2>2, <3>1, <3>2
  <2> QED BY <2>3, <2>4
<1>3. n \in 0 .. Len(rest) /\ IsLine(n)
  <2> HIDE DEF IsLine
  <2> QED BY <1>2
<1>4. GetLine(l) = IF l.fail \/ n = 0 THEN [l EXCEPT !.fail = TRUE]
                   ELSE [l EXCEPT !.rest = SubSeq(@, n + 1, Len(@))]
  BY DEF GetLine
<1> HIDE DEF n
<1>5. CASE n = 0
  <2>1. rest = <<>> \/ rest[1] = "\n"
    <3>1. Len(rest) = 0 => rest = <<>>
      BY LexerFields
    <3> QED BY <1>3, <1>5, <3>1
  <2>2. GetLine(l) = [l EXCEPT !.fail = TRUE]
    BY <1>4, <1>5
  <2> QED BY <2>1, <2>2
<1>6. CASE n # 0
  <2>1. GetLine(l) = [l EXCEPT !.rest = SubSeq(@, n + 1, Len(@))]
    BY <1>4, <1>6, Zenon
  <2>2. GetLine(l) = [l EXCEPT !.rest = SubSeq(l.rest, n + 1, Len(l.rest))]
    BY <2>1
  <2>3. n \in 1 .. Len(rest)
    BY <1>1, <1>3, <1>6
  <2> QED BY <1>3, <2>2, <2>3
<1> QED BY <1>5, <1>6

LEMMA GetLineAtEnd ==
    ASSUME NEW chars, NEW l, Sound(chars, l), l.last = EOF
    PROVE  GetLine(l) = l
<1>1. l.fail = TRUE /\ l \in Lexers
  BY DEF Sound
<1>2. GetLine(l) = [l EXCEPT !.fail = TRUE]
  BY <1>1, Zenon DEF GetLine
<1> QED BY <1>1, <1>2 DEF Lexers

\* A line that is not empty is taken.
LEMMA LineTaken ==
    ASSUME NEW chars \in Seq(Character), NEW l, Sound(chars, l), l.last # EOF,
           NEW n \in 1 .. Len(l.rest), \A m \in 1 .. n : l.rest[m] # "\n"
    PROVE  LET p == Taken(chars, l)
               g == [l EXCEPT !.rest = SubSeq(l.rest, n + 1, Len(l.rest))]
           IN  /\ Sound(chars, g) /\ g.last = l.last /\ g.row = l.row
               /\ Taken(chars, g) = p + n
               /\ \A i \in p + 1 .. p + n : chars[i] # "\n"
<1>1. l \in Lexers /\ l.fail = FALSE /\ l.rest \in Seq(Character) /\ Len(l.rest) \in Nat
  BY LexerFields DEF Sound
<1>2. Taken(chars, l) \in 0 .. Len(chars) /\ Len(chars) \in Nat
      /\ Len(l.rest) = Len(chars) - Taken(chars, l)
  BY TakenType
<1> DEFINE tail == SubSeq(l.rest, n + 1, Len(l.rest))
           g == [l EXCEPT !.rest = tail]
<1>3. /\ tail \in Seq(Character) /\ Len(tail) = Len(l.rest) - n
      /\ \A i \in 1 .. Len(l.rest) - n : tail[i] = l.rest[n + i]
  BY <1>1
<1> HIDE DEF tail
<1>4. g \in Lexers /\ g.fail = FALSE /\ g.last = l.last /\ g.rest = tail /\ g.row = l.row
  BY <1>1, <1>3 DEF Lexers
<1> HIDE DEF g
<1> DEFINE p == Taken(chars, l)
           here == Len(l.rest)
<1>5. Taken(chars, g) = p + n
  <2>1. Taken(chars, g) = Len(chars) - Len(tail)
    BY <1>4 DEF Taken
  <2> HIDE DEF p, here
  <2>2. n \in 1 .. here /\ here \in Nat /\ Len(tail) = here - n /\ p \in 0 .. Len(chars) /\ here = Len(chars) - p
    BY <1>1, <1>2, <1>3 DEF p, here
  <2> QED BY <1>2, <2>1, <2>2
<1>6. Sound(chars, g)
  <2>1. \A i \in 1 .. Len(g.rest) : g.rest[i] = chars[Taken(chars, g) + i]
    <3> SUFFICES ASSUME NEW i \in 1 .. Len(g.rest)
                 PROVE  g.rest[i] = chars[Taken(chars, g) + i]
      OBVIOUS
    <3>1. i \in 1 .. Len(l.rest) - n /\ n + i \in 1 .. Len(l.rest) /\ g.rest[i] = l.rest[n + i]
      BY <1>1, <1>3, <1>4
    <3>2. l.rest[n + i] = chars[p + (n + i)]
      BY <3>1 DEF Sound
    <3>3. p + (n + i) = Taken(chars, g) + i
      BY <1>2, <1>5
    <3> QED BY <3>1, <3>2, <3>3
  <2>2. Len(g.rest) <= Len(chars)
    BY <1>1, <1>2, <1>3, <1>4
  <2> QED BY <1>4, <2>1, <2>2 DEF Sound
<1>7. \A i \in p + 1 .. p + n : chars[i] # "\n"
  <2> SUFFICES ASSUME NEW i \in p + 1 .. p + n
               PROVE  chars[i] # "\n"
    OBVIOUS
  <2>1. i - p \in 1 .. n /\ i - p \in 1 .. Len(l.rest) /\ p + (i - p) = i
    BY <1>1, <1>2
  <2>2. l.rest[i - p] = chars[p + (i - p)]
    BY <2>1 DEF Sound
  <2> QED BY <2>1, <2>2
<1> QED BY <1>4, <1>5, <1>6, <1>7 DEF g, tail

\* What ReadLocation and LineComment do with a line.
LEMMA TakesLine ==
    ASSUME NEW chars \in Seq(Character), NEW l, Sound(chars, l), l.last # EOF,
           l.rest # <<>> /\ l.rest[1] = "\n" => EmptyLineComment(chars) \/ "#" \in Range(chars)
    PROVE  LET a == advance(GetLine(l))
           IN  Sound(chars, a) /\ LastTaken(chars, a) /\ Uncounted(chars, a) = Uncounted(chars, l)
<1> DEFINE g == GetLine(l)
           a == advance(g)
<1>1. l \in Lexers /\ l.fail = FALSE /\ l.rest \in Seq(Character) /\ Len(l.rest) \in Nat
  BY LexerFields DEF Sound
<1>2. Taken(chars, l) \in 0 .. Len(chars) /\ Len(chars) \in Nat
      /\ Len(l.rest) = Len(chars) - Taken(chars, l)
  BY TakenType
<1>3. CASE (l.rest = <<>> \/ l.rest[1] = "\n") /\ g = [l EXCEPT !.fail = TRUE]
  <2>1. g \in Lexers /\ g.fail = TRUE /\ g.last = l.last /\ g.rest = l.rest /\ g.row = l.row
    BY <1>1, <1>3 DEF Lexers
  <2> HIDE DEF g
  <2>2. /\ a \in Lexers /\ a.last = EOF /\ a.fail = TRUE /\ a.rest = l.rest /\ a.row = l.row
    <3>1. /\ Get(g).last = EOF /\ Get(g).fail = TRUE /\ Get(g).rest = l.rest /\ Get(g).row = l.row
      BY <2>1, GetFields
    <3>2. EOF # "\n"
      BY DEF EOF
    <3> QED BY <2>1, <3>1, <3>2, AdvanceFields
  <2> HIDE DEF a
  <2>3. Taken(chars, a) = Taken(chars, l)
    BY <2>2 DEF Taken
  <2>4. Sound(chars, a)
    BY <1>3, <2>2, <2>3 DEF Sound
  <2> QED BY <2>2, <2>3, <2>4 DEF LastTaken, Uncounted, a, g
<1>4. ASSUME NEW n \in 1 .. Len(l.rest), \A m \in 1 .. n : l.rest[m] # "\n",
             g = [l EXCEPT !.rest = SubSeq(l.rest, n + 1, Len(l.rest))]
      PROVE  Sound(chars, a) /\ LastTaken(chars, a) /\ Uncounted(chars, a) = Uncounted(chars, l)
  <2> DEFINE p == Taken(chars, l)
  <2>1. /\ Sound(chars, g) /\ g.last = l.last /\ g.row = l.row
        /\ Taken(chars, g) = p + n
        /\ \A i \in p + 1 .. p + n : chars[i] # "\n"
    <3> DEFINE taken == [l EXCEPT !.rest = SubSeq(l.rest, n + 1, Len(l.rest))]
    <3>1. /\ Sound(chars, taken) /\ taken.last = l.last /\ taken.row = l.row
          /\ Taken(chars, taken) = p + n
          /\ \A i \in p + 1 .. p + n : chars[i] # "\n"
      BY <1>4, LineTaken
    <3> HIDE DEF taken, g
    <3>2. g = taken
      BY <1>4 DEF g, taken
    <3> QED BY <3>1, <3>2
  <2> HIDE DEF g
  <2>2. Uncounted(chars, g) = Uncounted(chars, l)
    <3>1. p \in Nat /\ p + n \in Nat /\ p <= p + n
      BY <1>2
    <3>2. NewLinesTo(chars, p + n) = NewLinesTo(chars, p)
      BY <2>1, <3>1, NoNewLinesMore
    <3> QED BY <2>1, <3>2 DEF Uncounted
  <2>3. /\ Sound(chars, a) /\ Uncounted(chars, a) = Uncounted(chars, g)
        /\ TookOne(chars, g, a) \/ FoundEnd(g, a)
    BY <2>1, Advances
  <2>4. LastTaken(chars, a)
    BY <2>3 DEF TookOne, FoundEnd, LastTaken
  <2> QED BY <2>2, <2>3, <2>4
<1> QED BY <1>1, <1>3, <1>4, GetLineTakes

-----------------------------------------------------------------------------
(***************************************************************************)
(* What the reading functions leave behind.                                *)
(***************************************************************************)
Follows(chars, l, a) ==
    Sound(chars, a) /\ LastTaken(chars, a) /\ Uncounted(chars, a) = Uncounted(chars, l)

LEMMA TookOneIsTaken ==
    ASSUME NEW chars, NEW l, NEW g, TookOne(chars, l, g) \/ FoundEnd(l, g)
    PROVE  LastTaken(chars, g)
BY DEF TookOne, FoundEnd, LastTaken

LEMMA AdvanceFollows ==
    ASSUME NEW chars \in Seq(Character), NEW l, Sound(chars, l)
    PROVE  Follows(chars, l, advance(l))
<1>1. CASE l.last = EOF
  BY <1>1, AdvanceAtEnd DEF Follows, LastTaken
<1>2. CASE l.last # EOF
  BY <1>2, Advances, TookOneIsTaken DEF Follows
<1> QED BY <1>1, <1>2

\* The tokens that are not names.
OperatorTokens ==
    {"T_NE", "T_NOT", "T_BIT_AND", "T_MASK", "T_AND", "T_PP", "T_PLUS", "T_RANGE", "T_DOT",
     "T_DIV", "T_SHL", "T_LE", "T_L_ANGLE", "T_EQ", "T_ASSIGN", "T_GE", "T_R_ANGLE",
     "T_END_PRAGMA", "T_AT", "T_PLUS_SAT", "T_MINUS_SAT", "T_OR", "T_BIT_OR"}
SingleTokens ==
    {"T_MOD", "T_L_PAREN", "T_R_PAREN", "T_MUL", "T_COMMA", "T_MINUS", "T_COLON", "T_SEMICOLON",
     "T_QUESTION", "T_L_BRACKET", "T_R_BRACKET", "T_BIT_XOR", "T_L_BRACE", "T_R_BRACE",
     "T_COMPLEMENT"}
OtherTokens == {"T_NUMBER", "T_STRING_LITERAL", "T_UNKNOWN", "T_END", "exception"}

Nameless == OperatorTokens \cup SingleTokens \cup OtherTokens

Reads(chars, l, read) == Follows(chars, l, read.lexer) /\ read.token \in Nameless

LEMMA NamelessApart == Nameless \cap Names = {}
<1>1. OperatorTokens \cap Names = {}
  BY DEF OperatorTokens, Names
<1>2. SingleTokens \cap Names = {}
  BY DEF SingleTokens, Names
<1>3. OtherTokens \cap Names = {}
  BY DEF OtherTokens, Names
<1> QED BY <1>1, <1>2, <1>3 DEF Nameless

LEMMA SingleNames == \A c \in DOMAIN Singles : Singles[c] \in Nameless
<1>1. \A c \in DOMAIN Singles : Singles[c] \in SingleTokens
  BY DEF Singles, SingleTokens
<1> QED BY <1>1 DEF Nameless

LEMMA TokenReads ==
    ASSUME NEW chars, NEW l, NEW a, NEW token \in Nameless, Follows(chars, l, a)
    PROVE  Reads(chars, l, Token(a, token))
BY DEF Reads, Token

LEMMA DoubledReads ==
    ASSUME NEW chars \in Seq(Character), NEW l, NEW a, NEW second,
           NEW token \in Nameless, NEW single \in Nameless, Follows(chars, l, a)
    PROVE  Reads(chars, l, Doubled(a, second, token, single))
<1>1. Follows(chars, l, advance(a))
  BY AdvanceFollows DEF Follows
<1> QED BY <1>1, TokenReads DEF Doubled, One, Two

LEMMA SinglesApart ==
    \A first \in {"!", "&", "+", ".", "/", "<", "=", ">", "@", "|"} : first \notin DOMAIN Singles
<1>1. DOMAIN Singles = {"%", "(", ")", "*", ",", "-", ":", ";", "?", "[", "]", "^", "{", "}", "~"}
  BY DEF Singles
<1> QED BY <1>1

LEMMA OperatorReads ==
    ASSUME NEW chars \in Seq(Character), NEW l, NEW first,
           Sound(chars, l), LastTaken(chars, l)
    PROVE  Reads(chars, l, Operator(l, first))
<1> DEFINE a == advance(l)
<1>1. Follows(chars, l, l) /\ Follows(chars, l, a)
  BY AdvanceFollows DEF Follows
<1> HIDE DEF a
<1>2. \A second : \A token, single \in Nameless :
        /\ Reads(chars, l, Doubled(l, second, token, single))
        /\ Reads(chars, l, Doubled(a, second, token, single))
  BY <1>1, DoubledReads
<1>3. \A token \in Nameless : Reads(chars, l, One(l, token)) /\ Reads(chars, l, Two(l, token))
  BY <1>1, TokenReads DEF One, Two, a
<1>4. ASSUME first \in {"!", "+", ".", "="}
      PROVE  \E token, single \in Nameless :
               Operator(l, first) = Doubled(l, IF first = "!" THEN "=" ELSE first, token, single)
  <2>1. CASE first = "!"
    <3>1. Operator(l, first) = Doubled(l, "=", "T_NE", "T_NOT")
      BY <2>1, SinglesApart DEF Operator
    <3> QED BY <2>1, <3>1 DEF Nameless, OperatorTokens, OtherTokens
  <2>2. CASE first = "+"
    <3>1. Operator(l, first) = Doubled(l, "+", "T_PP", "T_PLUS")
      BY <2>2, SinglesApart DEF Operator
    <3> QED BY <2>2, <3>1 DEF Nameless, OperatorTokens, OtherTokens
  <2>3. CASE first = "."
    <3>1. Operator(l, first) = Doubled(l, ".", "T_RANGE", "T_DOT")
      BY <2>3, SinglesApart DEF Operator
    <3> QED BY <2>3, <3>1 DEF Nameless, OperatorTokens, OtherTokens
  <2>4. CASE first = "="
    <3>1. Operator(l, first) = Doubled(l, "=", "T_EQ", "T_ASSIGN")
      BY <2>4, SinglesApart DEF Operator
    <3> QED BY <2>4, <3>1 DEF Nameless, OperatorTokens, OtherTokens
  <2> QED BY <1>4, <2>1, <2>2, <2>3, <2>4
<1>5. CASE first \in {"!", "+", ".", "="}
  BY <1>2, <1>4, <1>5
<1>6. CASE first = "&"
  <2>1. Operator(l, first) = IF l.last # "&" THEN One(l, "T_BIT_AND")
                             ELSE Doubled(a, "&", "T_MASK", "T_AND")
    BY <1>6, SinglesApart DEF Operator, a
  <2>2. Reads(chars, l, One(l, "T_BIT_AND")) /\ Reads(chars, l, Doubled(a, "&", "T_MASK", "T_AND"))
    BY <1>2, <1>3 DEF Nameless, OperatorTokens, OtherTokens
  <2> QED BY <2>1, <2>2
<1>7. CASE first = "/"
  <2>1. Operator(l, first) = One(l, "T_DIV")
    BY <1>7, SinglesApart DEF Operator
  <2> QED BY <1>3, <2>1 DEF Nameless, OperatorTokens, OtherTokens
<1>8. CASE first = "<"
  <2>1. Operator(l, first) = IF l.last = "<" THEN Two(l, "T_SHL")
                             ELSE Doubled(l, "=", "T_LE", "T_L_ANGLE")
    BY <1>8, SinglesApart DEF Operator
  <2>2. Reads(chars, l, Two(l, "T_SHL")) /\ Reads(chars, l, Doubled(l, "=", "T_LE", "T_L_ANGLE"))
    BY <1>2, <1>3 DEF Nameless, OperatorTokens, OtherTokens
  <2> QED BY <2>1, <2>2
<1>9. CASE first = ">"
  <2>1. Operator(l, first) = Doubled(l, "=", "T_GE", "T_R_ANGLE")
    BY <1>9, SinglesApart DEF Operator
  <2> QED BY <1>2, <2>1 DEF Nameless, OperatorTokens, OtherTokens
<1>10. CASE first = "@"
  <2>1. Operator(l, first) = IF l.last = "p" THEN One(l, "T_END_PRAGMA") ELSE One(l, "T_AT")
    BY <1>10, SinglesApart DEF Operator
  <2>2. Reads(chars, l, One(l, "T_END_PRAGMA")) /\ Reads(chars, l, One(l, "T_AT"))
    BY <1>3 DEF Nameless, OperatorTokens, OtherTokens
  <2> QED BY <2>1, <2>2
<1>11. CASE first = "|"
  <2>1. Operator(l, first) = IF l.last = "+" THEN Doubled(a, "|", "T_PLUS_SAT", "T_UNKNOWN")
                             ELSE IF l.last = "-" THEN Doubled(a, "|", "T_MINUS_SAT", "T_UNKNOWN")
                             ELSE Doubled(l, "|", "T_OR", "T_BIT_OR")
    BY <1>11, SinglesApart DEF Operator, a
  <2>2. /\ Reads(chars, l, Doubled(a, "|", "T_PLUS_SAT", "T_UNKNOWN"))
        /\ Reads(chars, l, Doubled(a, "|", "T_MINUS_SAT", "T_UNKNOWN"))
        /\ Reads(chars, l, Doubled(l, "|", "T_OR", "T_BIT_OR"))
    BY <1>2 DEF Nameless, OperatorTokens, OtherTokens
  <2> QED BY <2>1, <2>2
<1>12. CASE first \notin {"!", "&", "+", ".", "/", "<", "=", ">", "@", "|"}
  <2>1. Operator(l, first) = IF first \in DOMAIN Singles THEN One(l, Singles[first])
                             ELSE One(l, "T_UNKNOWN")
    BY <1>12 DEF Operator
  <2>2. "T_UNKNOWN" \in Nameless
    BY DEF Nameless, OtherTokens
  <2>3. Reads(chars, l, One(l, "T_UNKNOWN"))
    BY <1>3, <2>2
  <2>4. first \in DOMAIN Singles => Reads(chars, l, One(l, Singles[first]))
    BY <1>3, SingleNames
  <2> QED BY <2>1, <2>3, <2>4, Zenon
<1> QED BY <1>5, <1>6, <1>7, <1>8, <1>9, <1>10, <1>11, <1>12

LEMMA NumberToken ==
    ASSUME NEW chars, NEW v, NEW w
    PROVE  read_number(chars, v, w).token \in Nameless
<1>1. \A x, y : Number(x, y).token = "T_NUMBER" /\ Unknown(x, y).token = "T_UNKNOWN"
  BY DEF Number, Unknown
<1>2. \A y : Exception(y).token = "exception"
  BY DEF Exception
<1>3. read_number(chars, v, w).token \in {"T_NUMBER", "T_UNKNOWN", "exception"}
  <2> DEFINE prefixed == Marks(chars) # {}
             width_ == IF prefixed THEN stoi(WidthText(chars), 10) ELSE w
             rest == AfterMark(chars)
             number == stoi(Digits(rest), Base(rest))
             masked == IF prefixed THEN number % TwoTo[width_] ELSE number
             bad == \E n \in DOMAIN Digits(rest) :
                      Digits(rest)[n] \notin DigitsOf(Base(rest)) \cup {"_"}
  <2>1. read_number(chars, v, w) =
          IF ~Matches(chars) THEN Unknown(v, w)
          ELSE IF width_ = Thrown THEN Exception(w)
          ELSE IF (IsSigned(chars) /\ width_ < 2) \/ bad THEN Unknown(v, width_)
          ELSE IF number = Thrown THEN Exception(width_)
          ELSE IF IsSigned(chars) THEN Number(SignExtend(masked, width_), width_)
          ELSE Number(masked, width_)
    BY DEF read_number
  <2> HIDE DEF prefixed, width_, rest, number, masked, bad
  <2> QED BY <1>1, <1>2, <2>1
<1> QED BY <1>3 DEF Nameless, OperatorTokens, OtherTokens

(***************************************************************************)
(* is.get() behind a name: a new line is taken and not counted.            *)
(***************************************************************************)
LEMMA NameGets ==
    ASSUME NEW chars \in Seq(Character), NEW l, Sound(chars, l), l.last # EOF
    PROVE  LET g == [Get(l) EXCEPT !.col = @ + 1]
           IN  /\ Sound(chars, g) /\ LastTaken(chars, g)
               /\ TookOne(chars, l, g) \/ FoundEnd(l, g)
               /\ Uncounted(chars, g) = Uncounted(chars, l) - (IF g.last = "\n" THEN 1 ELSE 0)
<1> DEFINE h == Get(l)
           g == [h EXCEPT !.col = h.col + 1]
<1>1. /\ Sound(chars, h) /\ h.row = l.row /\ h \in Lexers /\ l.row \in Int
      /\ TookOne(chars, l, h) \/ FoundEnd(l, h)
  BY Gets, LexerFields DEF Sound
<1>2. [Get(l) EXCEPT !.col = @ + 1] = g
  OBVIOUS
<1> HIDE DEF h
<1>3. g \in Lexers /\ g.rest = h.rest /\ g.fail = h.fail /\ g.last = h.last /\ g.row = h.row
  BY <1>1 DEF Lexers
<1> HIDE DEF g
<1>4. Sound(chars, g) /\ Taken(chars, g) = Taken(chars, h)
  BY <1>1, <1>3, SoundAlike
<1>5. LastTaken(chars, g) /\ (TookOne(chars, l, g) \/ FoundEnd(l, g))
  <2>1. TookOne(chars, l, g) \/ FoundEnd(l, g)
    BY <1>1, <1>3, <1>4 DEF TookOne, FoundEnd
  <2> QED BY <2>1, TookOneIsTaken
<1>6. Uncounted(chars, g) = Uncounted(chars, l) - (IF g.last = "\n" THEN 1 ELSE 0)
  <2> DEFINE before == NewLinesTo(chars, Taken(chars, l))
             after == NewLinesTo(chars, Taken(chars, g))
  <2>1. Taken(chars, l) \in Nat /\ before \in Nat
    <3>1. Taken(chars, l) \in 0 .. Len(chars) /\ Len(chars) \in Nat
      BY TakenType
    <3>2. Taken(chars, l) \in Nat
      BY <3>1
    <3> QED BY <3>2, NewLinesType
  <2>2. after = before + (IF g.last = "\n" THEN 1 ELSE 0)
    <3>1. CASE TookOne(chars, l, h)
      <4>1. Taken(chars, g) = Taken(chars, l) + 1 /\ g.last = chars[Taken(chars, l) + 1]
        BY <1>3, <1>4, <3>1 DEF TookOne
      <4>2. after = IF chars[Taken(chars, l) + 1] = "\n" THEN before + 1 ELSE before
        BY <2>1, <4>1, NewLinesOneMore
      <4> QED BY <2>1, <4>1, <4>2
    <3>2. CASE FoundEnd(l, h)
      <4>1. Taken(chars, g) = Taken(chars, l) /\ g.last # "\n"
        BY <1>3, <3>2 DEF FoundEnd, Taken, EOF
      <4> QED BY <2>1, <4>1
    <3> QED BY <1>1, <3>1, <3>2
  <2> HIDE DEF before, after
  <2>3. g.row - after = (l.row - before) - (IF g.last = "\n" THEN 1 ELSE 0)
    BY <1>1, <1>3, <2>1, <2>2
  <2> QED BY <2>3 DEF Uncounted, before, after
<1> QED BY <1>2, <1>4, <1>5, <1>6
-----------------------------------------------------------------------------
AllTokens == Names \cup Nameless
Returned == [token : AllTokens, last : Lasts]
Places == {"idle", "space", "name", "number", "other", "string", "block", "stars"}

\* The names that took a new line with them.
LineNames(returned) ==
    Cardinality({ n \in DOMAIN returned :
                    returned[n].token \in Names /\ returned[n].last = "\n" })

LineName(token, last) == IF token \in Names /\ last = "\n" THEN 1 ELSE 0

Quoted(chars) == "\"" \in Range(chars)

(***************************************************************************)
(* A block comment begins at i and did not end in what was taken.  The     *)
(* outer loop is at a star only at the comment's first one; at the end of  *)
(* the input nothing is left.                                              *)
(***************************************************************************)
InComment(chars, l, where, i) ==
    /\ Stands(chars, i, <<"/", "*">>)
    /\ i + 1 <= Taken(chars, l)
    /\ \A k \in i + 2 .. Taken(chars, l) - 1 : ~Stands(chars, k, <<"*", "/">>)
    /\ where = "stars" => l.last = "*" /\ i + 2 <= Taken(chars, l)
    /\ where = "block" /\ l.last = "*" => Taken(chars, l) = i + 1
    /\ l.last = EOF => l.rest = <<>>

\* prev is a character of the text, and the one in front of last.
OtherAt(chars, l, first) ==
    /\ first \in Range(chars)
    /\ l.last # EOF => Taken(chars, l) >= 2 /\ first = chars[Taken(chars, l) - 1]

Positioned(chars, l, where, first) ==
    /\ LastTaken(chars, l) \/ (where \in {"idle", "space"} /\ l.last = " ")
    /\ where = "name" => l.last \in NameChar
    /\ where = "other" => OtherAt(chars, l, first)
    /\ where = "string" => Quoted(chars)
    /\ where \in {"block", "stars"} => \E i \in DOMAIN chars : InComment(chars, l, where, i)

Counted(chars, l, returned) ==
    ~Quoted(chars) => Uncounted(chars, l) = 1 - LineNames(returned)

LexerInv ==
    /\ input \in Seq(Character)
    /\ tokens \in Seq(Returned)
    /\ pc \in Places
    /\ Sound(input, lexer)
    /\ Positioned(input, lexer, pc, prev)
    /\ Counted(input, lexer, tokens)

-----------------------------------------------------------------------------
LEMMA StandsPair ==
    ASSUME NEW chars \in Seq(Character), NEW i \in Nat \ {0}, NEW a, NEW b
    PROVE  Stands(chars, i, <<a, b>>) <=> i + 1 <= Len(chars) /\ chars[i] = a /\ chars[i + 1] = b
<1>1. Len(chars) \in Nat /\ Len(<<a, b>>) = 2 /\ i + 2 - 1 = i + 1
  BY LenProperties
<1> DEFINE part == SubSeq(chars, i, i + 1)
<1>2. Stands(chars, i, <<a, b>>) <=> i + 1 <= Len(chars) /\ part = <<a, b>>
  BY <1>1 DEF Stands
<1>3. ASSUME i + 1 <= Len(chars)
      PROVE  part = <<chars[i], chars[i + 1]>>
  <2>1. part \in Seq(Character) /\ Len(part) = 2 /\ part[1] = chars[i] /\ part[2] = chars[i + 1]
    BY <1>1, <1>3
  <2> HIDE DEF part
  <2> QED BY <2>1
<1> HIDE DEF part
<1> QED BY <1>2, <1>3

LEMMA LineNamesType ==
    ASSUME NEW returned \in Seq(Returned)
    PROVE  LineNames(returned) \in Nat
<1>1. Len(returned) \in Nat /\ DOMAIN returned = 1 .. Len(returned)
  BY LenProperties
<1>2. IsFiniteSet(DOMAIN returned)
  BY <1>1, FS_Interval
<1>3. IsFiniteSet({ n \in DOMAIN returned :
                      returned[n].token \in Names /\ returned[n].last = "\n" })
  BY <1>2, FS_Subset
<1> QED BY <1>3, FS_CardinalityType DEF LineNames

LEMMA LineNamesAppend ==
    ASSUME NEW returned \in Seq(Returned), NEW entry \in Returned
    PROVE  LineNames(Append(returned, entry)) =
             LineNames(returned) + LineName(entry.token, entry.last)
<1> DEFINE IsOne(e) == e.token \in Names /\ e.last = "\n"
           longer == Append(returned, entry)
           S == { n \in DOMAIN returned : IsOne(returned[n]) }
           R == { n \in DOMAIN longer : IsOne(longer[n]) }
           k == Len(returned) + 1
<1>1. Len(returned) \in Nat /\ DOMAIN returned = 1 .. Len(returned)
  BY LenProperties
<1>2. /\ DOMAIN longer = 1 .. k /\ longer[k] = entry
      /\ \A n \in 1 .. Len(returned) : longer[n] = returned[n]
  BY <1>1
<1>3. IsFiniteSet(S) /\ Cardinality(S) \in Nat
  <2>1. IsFiniteSet(DOMAIN returned)
    BY <1>1, FS_Interval
  <2>2. IsFiniteSet(S)
    BY <2>1, FS_Subset
  <2> QED BY <2>2, FS_CardinalityType
<1>4. k \notin S /\ k \in 1 .. k /\ \A n : n \in 1 .. k <=> n \in 1 .. Len(returned) \/ n = k
  BY <1>1
<1>5. LineNames(returned) = Cardinality(S) /\ LineNames(longer) = Cardinality(R)
  BY DEF LineNames
<1> HIDE DEF longer, k, IsOne
<1>6. CASE IsOne(entry)
  <2>1. R = S \cup {k}
    BY <1>1, <1>2, <1>4, <1>6
  <2> HIDE DEF R, S
  <2>2. Cardinality(R) = Cardinality(S) + 1
    BY <1>3, <1>4, <2>1, FS_AddElement
  <2>3. LineName(entry.token, entry.last) = 1
    BY <1>6 DEF LineName, IsOne
  <2> QED BY <1>5, <2>2, <2>3 DEF longer
<1>7. CASE ~IsOne(entry)
  <2>1. R = S
    BY <1>1, <1>2, <1>4, <1>7
  <2>2. LineName(entry.token, entry.last) = 0
    BY <1>7 DEF LineName, IsOne
  <2> HIDE DEF R, S
  <2> QED BY <1>3, <1>5, <2>1, <2>2 DEF longer
<1> QED BY <1>6, <1>7

-----------------------------------------------------------------------------
(***************************************************************************)
(* The two ends of a step: next() returns, or goes on somewhere.           *)
(***************************************************************************)
LEMMA ReturnKeeps ==
    ASSUME LexerInv, input' = input, NEW l, NEW token \in AllTokens, Return(l, token),
           Sound(input, l), LastTaken(input, l),
           ~Quoted(input) =>
             Uncounted(input, l) = Uncounted(input, lexer) - LineName(token, l.last)
    PROVE  LexerInv'
<1> DEFINE entry == [token |-> token, last |-> l.last]
<1>1. lexer' = l /\ pc' = "idle" /\ tokens' = Append(tokens, entry)
  BY DEF Return
<1>2. entry \in Returned /\ entry.token = token /\ entry.last = l.last
  BY LexerFields DEF Sound, Returned
<1>3. tokens \in Seq(Returned) /\ input \in Seq(Character) /\ Counted(input, lexer, tokens)
  BY DEF LexerInv
<1> HIDE DEF entry
<1>4. tokens' \in Seq(Returned)
  BY <1>1, <1>2, <1>3, AppendProperties
<1>5. Positioned(input, l, "idle", prev')
  BY DEF Positioned
<1>6. Counted(input, l, tokens')
  <2> SUFFICES ASSUME ~Quoted(input)
               PROVE  Uncounted(input, l) = 1 - LineNames(tokens')
    BY DEF Counted
  <2>1. Uncounted(input, lexer) = 1 - LineNames(tokens) /\ LineNames(tokens) \in Nat
    BY <1>3, LineNamesType DEF Counted
  <2>2. LineNames(tokens') = LineNames(tokens) + LineName(token, l.last)
    BY <1>1, <1>2, <1>3, LineNamesAppend
  <2>3. LineName(token, l.last) \in Nat
    BY DEF LineName
  <2>4. Uncounted(input, l) = Uncounted(input, lexer) - LineName(token, l.last)
    OBVIOUS
  <2> QED BY <2>1, <2>2, <2>3, <2>4
<1> QED BY <1>1, <1>3, <1>4, <1>5, <1>6 DEF LexerInv, Places

LEMMA GoOnKeeps ==
    ASSUME LexerInv, input' = input, NEW l, NEW where \in Places, GoOn(l, where),
           Sound(input, l), Positioned(input, l, where, prev'),
           ~Quoted(input) => Uncounted(input, l) = Uncounted(input, lexer)
    PROVE  LexerInv'
<1>1. lexer' = l /\ pc' = where /\ tokens' = tokens
  BY DEF GoOn
<1>2. Counted(input, l, tokens)
  BY DEF LexerInv, Counted
<1> QED BY <1>1, <1>2 DEF LexerInv

\* A place that asks nothing but what follows from having read.
LEMMA PlainPlace ==
    ASSUME NEW chars, NEW l, NEW where \in {"idle", "space", "number"}, NEW first, LastTaken(chars, l)
    PROVE  Positioned(chars, l, where, first)
BY DEF Positioned

LEMMA GoesOnReading ==
    ASSUME LexerInv, input' = input, NEW l, NEW where \in {"space", "number"}, GoOn(l, where),
           Follows(input, lexer, l)
    PROVE  LexerInv'
<1>1. Positioned(input, l, where, prev')
  BY PlainPlace DEF Follows
<1> QED BY <1>1, GoOnKeeps DEF Follows, Places

LEMMA ReturnsNameless ==
    ASSUME LexerInv, input' = input, NEW l, NEW token \in Nameless, Return(l, token),
           Follows(input, lexer, l)
    PROVE  LexerInv'
<1>1. token \in AllTokens /\ LineName(token, l.last) = 0
  BY NamelessApart DEF AllTokens, LineName
<1>2. Uncounted(input, l) = Uncounted(input, lexer) /\ Uncounted(input, lexer) \in Int
  BY UncountedType DEF Follows, LexerInv
<1>3. Uncounted(input, l) = Uncounted(input, lexer) - LineName(token, l.last)
  BY <1>1, <1>2
<1> QED BY <1>1, <1>3, ReturnKeeps DEF Follows

-----------------------------------------------------------------------------
LEMMA InvParts ==
    ASSUME LexerInv
    PROVE  /\ input \in Seq(Character) /\ Sound(input, lexer)
           /\ Positioned(input, lexer, pc, prev) /\ lexer \in Lexers
BY DEF LexerInv, Sound

LEMMA InvInit == LexerInit => LexerInv
<1> SUFFICES ASSUME LexerInit PROVE LexerInv
  OBVIOUS
<1>1. input \in Seq(Character) /\ Len(input) \in Nat
  <2>1. input \in Seq(Character)
    BY InputsAssumption DEF LexerInit
  <2> QED BY <2>1, LenProperties
<1> DEFINE blank == " "
<1>2. /\ lexer = [rest |-> input, fail |-> FALSE, last |-> blank, row |-> 1, col |-> 0]
      /\ pc = "idle" /\ tokens = <<>>
  BY Zenon DEF LexerInit, NewLexer
<1>3. blank \in Lasts /\ blank # EOF
  BY Zenon DEF Lasts, EOF
<1> HIDE DEF blank
<1>4. /\ lexer \in Lexers /\ lexer.last # EOF /\ lexer.last = blank
      /\ lexer.rest = input /\ lexer.fail = FALSE /\ lexer.row = 1
  BY <1>1, <1>2, <1>3 DEF Lexers
<1>5. Taken(input, lexer) = 0
  BY <1>1, <1>4 DEF Taken
<1>6. Sound(input, lexer)
  BY <1>1, <1>4, <1>5 DEF Sound
<1>7. tokens \in Seq(Returned)
  BY <1>2
<1>8. Positioned(input, lexer, pc, prev)
  BY <1>2, <1>4, Zenon DEF Positioned, blank
<1>9. Counted(input, lexer, tokens)
  <2>1. { i \in 1 .. 0 : input[i] = "\n" } = {}
    OBVIOUS
  <2>2. NewLinesTo(input, 0) = 0
    BY <2>1, FS_EmptySet DEF NewLinesTo
  <2>3. Uncounted(input, lexer) = 1
    BY <1>4, <1>5, <2>2 DEF Uncounted
  <2>4. { n \in DOMAIN tokens : tokens[n].token \in Names /\ tokens[n].last = "\n" } = {}
    BY <1>2
  <2>5. LineNames(tokens) = 0
    BY <2>4, FS_EmptySet DEF LineNames
  <2> QED BY <2>3, <2>5 DEF Counted
<1> QED BY <1>1, <1>2, <1>6, <1>7, <1>8, <1>9 DEF LexerInv, Places

-----------------------------------------------------------------------------
(***************************************************************************)
(* Between tokens, and where a token begins.                               *)
(***************************************************************************)
LEMMA CallKeeps == ASSUME LexerInv, Call PROVE LexerInv'
<1>1. input' = input /\ prev' = prev /\ GoOn(lexer, "space") /\ pc = "idle"
  BY DEF Call, locals
<1>2. Positioned(input, lexer, "space", prev')
  BY <1>1, InvParts DEF Positioned
<1> QED BY <1>1, <1>2, InvParts, GoOnKeeps DEF Places

LEMMA SkipSpaceKeeps == ASSUME LexerInv, SkipSpace PROVE LexerInv'
<1>1. input' = input /\ GoOn(advance(lexer), "space")
  BY DEF SkipSpace
<1>2. Follows(input, lexer, advance(lexer))
  BY InvParts, AdvanceFollows
<1> QED BY <1>1, <1>2, GoesOnReading

LEMMA EndOfInputKeeps == ASSUME LexerInv, EndOfInput PROVE LexerInv'
<1>1. input' = input /\ lexer.last = EOF /\ Return(lexer, "T_END")
  BY DEF EndOfInput
<1>2. Follows(input, lexer, lexer)
  BY <1>1, InvParts DEF Follows, LastTaken
<1> QED BY <1>1, <1>2, ReturnsNameless DEF Nameless, OtherTokens

\* Where a token begins, last was taken off the stream.
LEMMA TakenUnlessSpace ==
    ASSUME LexerInv, lexer.last \notin Space \/ pc \notin {"idle", "space"}
    PROVE  LastTaken(input, lexer)
BY InvParts DEF Positioned, Space

LEMMA BeginNameKeeps == ASSUME LexerInv, BeginName PROVE LexerInv'
<1>1. input' = input /\ lexer.last \in NameChar /\ GoOn(lexer, "name")
  BY DEF BeginName
<1>2. lexer.last \notin Space
  <2>1. "_" \notin Space
    BY DEF Space
  <2> QED BY <1>1, <2>1, AlnumAssumption DEF NameChar
<1>3. Positioned(input, lexer, "name", prev')
  BY <1>1, <1>2, TakenUnlessSpace DEF Positioned
<1> QED BY <1>1, <1>3, InvParts, GoOnKeeps DEF Places

LEMMA BeginNumberKeeps == ASSUME LexerInv, BeginNumber PROVE LexerInv'
<1>1. input' = input /\ lexer.last \in Decimal /\ GoOn(lexer, "number")
  BY DEF BeginNumber
<1>2. lexer.last \notin Space
  BY <1>1 DEF Decimal, Space
<1>3. Follows(input, lexer, lexer)
  BY <1>2, InvParts, TakenUnlessSpace DEF Follows
<1> QED BY <1>1, <1>3, GoesOnReading

LEMMA BeginOtherKeeps == ASSUME LexerInv, BeginOther PROVE LexerInv'
<1>1. /\ input' = input /\ prev' = lexer.last /\ GoOn(advance(lexer), "other")
      /\ lexer.last \notin Space /\ lexer.last # EOF
  BY DEF BeginOther
<1>2. LastTaken(input, lexer) /\ Sound(input, lexer) /\ input \in Seq(Character)
  BY <1>1, InvParts, TakenUnlessSpace
<1> DEFINE a == advance(lexer)
<1>3. /\ Sound(input, a) /\ Uncounted(input, a) = Uncounted(input, lexer)
      /\ TookOne(input, lexer, a) \/ FoundEnd(lexer, a)
  BY <1>1, <1>2, Advances, TookOneIsTaken
<1> HIDE DEF a
<1>4. Taken(input, lexer) \in 0 .. Len(input) /\ Len(input) \in Nat
  BY <1>2, TakenType
<1>5. Taken(input, lexer) \in 1 .. Len(input) /\ lexer.last = input[Taken(input, lexer)]
  BY <1>1, <1>2, <1>4 DEF LastTaken
<1>6. lexer.last \in Range(input)
  BY <1>2, <1>4, <1>5, LenProperties DEF Range
<1>7. OtherAt(input, a, lexer.last)
  <2>1. ASSUME TookOne(input, lexer, a)
        PROVE  Taken(input, a) >= 2 /\ lexer.last = input[Taken(input, a) - 1]
    BY <1>4, <1>5, <2>1 DEF TookOne
  <2> QED BY <1>3, <1>6, <2>1 DEF OtherAt, FoundEnd
<1>8. Positioned(input, a, "other", prev')
  <2>1. LastTaken(input, a)
    BY <1>3, TookOneIsTaken
  <2> QED BY <1>1, <1>7, <2>1 DEF Positioned
<1> QED BY <1>1, <1>3, <1>8, GoOnKeeps DEF Places, a

-----------------------------------------------------------------------------
(***************************************************************************)
(* Names, numbers, strings, operators.                                     *)
(***************************************************************************)
LEMMA NameCharIsNoEnd == EOF \notin NameChar /\ "\n" \notin NameChar
<1>1. EOF # "_" /\ "\n" # "_" /\ "\n" \in Space
  BY DEF EOF, Space
<1> QED BY <1>1, AlnumAssumption DEF NameChar

LEMMA ReadNameKeeps == ASSUME LexerInv, ReadName PROVE LexerInv'
<1> DEFINE l == [Get(lexer) EXCEPT !.col = @ + 1]
<1>1. input' = input /\ pc = "name" /\ lexer.last \in NameChar
  BY InvParts DEF ReadName, Positioned
<1>2. /\ Sound(input, l) /\ LastTaken(input, l)
      /\ Uncounted(input, l) = Uncounted(input, lexer) - (IF l.last = "\n" THEN 1 ELSE 0)
  BY <1>1, NameCharIsNoEnd, InvParts, NameGets
<1>3. \/ l.last \in NameChar /\ GoOn(l, "name")
      \/ Return(l, NameToken(text))
  BY DEF ReadName
<1> HIDE DEF l
<1>4. Uncounted(input, lexer) \in Int
  BY InvParts, UncountedType
<1>5. CASE l.last \in NameChar /\ GoOn(l, "name")
  <2>1. Uncounted(input, l) = Uncounted(input, lexer)
    BY <1>2, <1>4, <1>5, NameCharIsNoEnd
  <2>2. Positioned(input, l, "name", prev')
    BY <1>2, <1>5 DEF Positioned
  <2> QED BY <1>1, <1>2, <1>5, <2>1, <2>2, GoOnKeeps DEF Places
<1>6. CASE Return(l, NameToken(text))
  <2>1. NameToken(text) \in Names /\ NameToken(text) \in AllTokens
    BY DEF NameToken, Names, AllTokens
  <2>2. Uncounted(input, l) = Uncounted(input, lexer) - LineName(NameToken(text), l.last)
    BY <1>2, <2>1 DEF LineName
  <2> QED BY <1>1, <1>2, <1>6, <2>1, <2>2, ReturnKeeps
<1> QED BY <1>3, <1>5, <1>6

LEMMA ReadNumberKeeps == ASSUME LexerInv, ReadNumber PROVE LexerInv'
<1> DEFINE l == advance(lexer)
           token == read_number(numstr', value, width).token
<1>1. input' = input /\ (GoOn(l, "number") \/ Return(l, token))
  BY DEF ReadNumber
<1>2. Follows(input, lexer, l)
  BY InvParts, AdvanceFollows
<1>3. token \in Nameless
  BY NumberToken
<1> HIDE DEF l, token
<1> QED BY <1>1, <1>2, <1>3, GoesOnReading, ReturnsNameless

LEMMA BeginStringKeeps == ASSUME LexerInv, BeginString PROVE LexerInv'
<1>1. input' = input /\ pc = "other" /\ prev = "\"" /\ GoOn(lexer, "string")
  BY DEF BeginString
<1>2. Quoted(input)
  BY <1>1, InvParts, Zenon DEF Positioned, OtherAt, Quoted
<1>3. pc \notin {"idle", "space"}
  BY <1>1, Zenon
<1>4. LastTaken(input, lexer)
  BY <1>3, TakenUnlessSpace
<1>5. Positioned(input, lexer, "string", prev')
  BY <1>2, <1>4 DEF Positioned
<1>6. input' = input /\ GoOn(lexer, "string")
  BY <1>1, Zenon
<1> QED BY <1>5, <1>6, InvParts, GoOnKeeps DEF Places

LEMMA ReadStringKeeps == ASSUME LexerInv, ReadString PROVE LexerInv'
<1> DEFINE l == IF lexer.last = "\\" THEN Get(lexer) ELSE lexer
<1>1. /\ input' = input /\ pc = "string"
      /\ \/ Return(l, "T_STRING_LITERAL")
         \/ Return(l, "T_UNKNOWN")
         \/ l.last # EOF /\ GoOn(Get(l), "string")
  BY Zenon DEF ReadString
<1>2. Quoted(input) /\ LastTaken(input, lexer)
  BY <1>1, InvParts, TakenUnlessSpace DEF Positioned
<1>3. Sound(input, l) /\ LastTaken(input, l)
  <2>1. CASE lexer.last = "\\"
    <3>1. lexer.last # EOF
      BY <2>1, Zenon DEF EOF
    <3>2. l = Get(lexer)
      BY <2>1, Zenon
    <3> HIDE DEF l
    <3> QED BY <3>1, <3>2, InvParts, Gets, TookOneIsTaken
  <2>2. CASE lexer.last # "\\"
    <3>1. l = lexer
      BY <2>2, Zenon
    <3> HIDE DEF l
    <3> QED BY <1>2, <3>1, InvParts
  <2> QED BY <2>1, <2>2
<1> HIDE DEF l
<1>4. CASE Return(l, "T_STRING_LITERAL") \/ Return(l, "T_UNKNOWN")
  <2>1. "T_STRING_LITERAL" \in AllTokens /\ "T_UNKNOWN" \in AllTokens
    BY DEF AllTokens, Nameless, OtherTokens
  <2> QED BY <1>1, <1>2, <1>3, <1>4, <2>1, ReturnKeeps
<1>5. CASE l.last # EOF /\ GoOn(Get(l), "string")
  <2> DEFINE g == Get(l)
  <2>1. Sound(input, g) /\ LastTaken(input, g)
    BY <1>3, <1>5, InvParts, Gets, TookOneIsTaken
  <2> HIDE DEF g
  <2>2. Positioned(input, g, "string", prev')
    BY <1>2, <2>1 DEF Positioned
  <2> QED BY <1>1, <1>2, <1>5, <2>1, <2>2, GoOnKeeps DEF Places, g
<1> QED BY <1>1, <1>4, <1>5

LEMMA ReadOperatorKeeps == ASSUME LexerInv, ReadOperator PROVE LexerInv'
<1> DEFINE read == Operator(lexer, prev)
<1>1. input' = input /\ pc = "other" /\ Return(read.lexer, read.token)
  BY Zenon DEF ReadOperator
<1>2. LastTaken(input, lexer)
  BY <1>1, TakenUnlessSpace
<1>3. Reads(input, lexer, read)
  BY <1>2, InvParts, OperatorReads
<1> HIDE DEF read
<1> QED BY <1>1, <1>3, ReturnsNameless DEF Reads

-----------------------------------------------------------------------------
(***************************************************************************)
(* Lines that are skipped, and block comments.                             *)
(***************************************************************************)
LEMMA ReadLocationKeeps == ASSUME LexerInv, ReadLocation PROVE LexerInv'
<1> DEFINE l == advance(GetLine(lexer))
<1>1. /\ input' = input /\ pc = "other" /\ prev = "#"
      /\ Return(l, "T_END") \/ GoOn(l, "space")
  BY DEF ReadLocation
<1>2. "#" \in Range(input)
  BY <1>1, InvParts DEF Positioned, OtherAt
<1>3. Follows(input, lexer, l)
  <2>1. CASE lexer.last = EOF
    <3>1. GetLine(lexer) = lexer
      BY <2>1, InvParts, GetLineAtEnd
    <3> QED BY <2>1, <3>1, InvParts, AdvanceFollows
  <2>2. CASE lexer.last # EOF
    BY <1>2, <2>2, InvParts, TakesLine DEF Follows
  <2> QED BY <2>1, <2>2
<1>4. "T_END" \in Nameless
  BY DEF Nameless, OtherTokens
<1> HIDE DEF l
<1> QED BY <1>1, <1>3, <1>4, GoesOnReading, ReturnsNameless

LEMMA LineCommentKeeps == ASSUME LexerInv, LineComment PROVE LexerInv'
<1> DEFINE l == advance(GetLine(lexer))
           t == Taken(input, lexer)
<1>1. /\ input' = input /\ pc = "other" /\ prev = "/" /\ lexer.last = "/"
      /\ GoOn(l, "space")
  BY DEF LineComment
<1>2. lexer.last # EOF
  BY <1>1 DEF EOF
<1>3. t >= 2 /\ input[t - 1] = "/" /\ input[t] = "/"
  <2>1. LastTaken(input, lexer)
    BY <1>1, TakenUnlessSpace
  <2>2. OtherAt(input, lexer, prev)
    BY <1>1, InvParts DEF Positioned
  <2> QED BY <1>1, <1>2, <2>1, <2>2 DEF LastTaken, OtherAt
<1>4. t \in 0 .. Len(input) /\ Len(input) \in Nat /\ Len(lexer.rest) = Len(input) - t
  BY InvParts, TakenType
<1>5. lexer.rest # <<>> /\ lexer.rest[1] = "\n" => EmptyLineComment(input)
  <2> SUFFICES ASSUME lexer.rest # <<>>, lexer.rest[1] = "\n"
               PROVE  EmptyLineComment(input)
    OBVIOUS
  <2>1. 1 \in 1 .. Len(lexer.rest)
    <3>1. lexer.rest \in Seq(Character)
      BY InvParts, LexerFields
    <3> QED BY <3>1
  <2>2. input[t + 1] = "\n"
    BY <2>1, InvParts DEF Sound
  <2> HIDE DEF t
  <2>3. t - 1 \in Nat \ {0} /\ (t - 1) + 1 = t /\ (t - 1) + 2 = t + 1 /\ t - 1 \in 1 .. Len(input)
    BY <1>3, <1>4
  <2>4. Stands(input, t - 1, <<"/", "/">>)
    BY <1>3, <1>4, <2>3, InvParts, StandsPair
  <2>5. t - 1 \in DOMAIN input
    BY <2>3, InvParts, LenProperties
  <2> QED BY <2>2, <2>3, <2>4, <2>5 DEF EmptyLineComment
<1>6. Follows(input, lexer, l)
  BY <1>2, <1>5, InvParts, TakesLine DEF Follows
<1> HIDE DEF l
<1> QED BY <1>1, <1>6, GoesOnReading

LEMMA BeginBlockKeeps == ASSUME LexerInv, BeginBlock PROVE LexerInv'
<1> DEFINE t == Taken(input, lexer)
<1>1. /\ input' = input /\ pc = "other" /\ prev = "/" /\ lexer.last = "*"
      /\ GoOn(lexer, "block")
  BY DEF BeginBlock
<1>2. lexer.last # EOF /\ LastTaken(input, lexer)
  BY <1>1, TakenUnlessSpace DEF EOF
<1>3. t >= 2 /\ input[t - 1] = "/" /\ input[t] = "*"
  <2>1. OtherAt(input, lexer, prev)
    BY <1>1, InvParts DEF Positioned
  <2> QED BY <1>1, <1>2, <2>1 DEF LastTaken, OtherAt
<1>4. t \in 0 .. Len(input) /\ Len(input) \in Nat
  BY InvParts, TakenType
<1>5. t - 1 \in DOMAIN input /\ InComment(input, lexer, "block", t - 1)
  <2> HIDE DEF t
  <2>1. t - 1 \in Nat \ {0} /\ (t - 1) + 1 = t /\ t - 1 \in 1 .. Len(input)
        /\ (t - 1) + 2 .. t - 1 = {}
    BY <1>3, <1>4
  <2>2. Stands(input, t - 1, <<"/", "*">>)
    BY <1>3, <1>4, <2>1, InvParts, StandsPair
  <2>3. t - 1 \in DOMAIN input
    BY <2>1, InvParts, LenProperties
  <2>4. InComment(input, lexer, "block", t - 1)
    BY <1>2, <1>4, <2>1, <2>2 DEF InComment, t
  <2> QED BY <2>3, <2>4
<1>6. Positioned(input, lexer, "block", prev')
  BY <1>2, <1>5 DEF Positioned
<1> QED BY <1>1, <1>6, InvParts, GoOnKeeps DEF Places

\* A pass of either loop takes no end of the comment, if what was last is not
\* a star behind its beginning, or what follows is not a '/'.
LEMMA CommentGoesOn ==
    ASSUME NEW chars \in Seq(Character), NEW l, Sound(chars, l), NEW i \in DOMAIN chars,
           NEW where, NEW to \in {"block", "stars"}, InComment(chars, l, where, i),
           NEW a, a = advance(l), where \in {"block", "stars"}, LastTaken(chars, l),
           where = "block" \/ a.last # "/",
           to = "stars" <=> a.last = "*"
    PROVE  InComment(chars, a, to, i)
<1> DEFINE t == Taken(chars, l)
           u == Taken(chars, a)
<1>1. i \in Nat \ {0} /\ Len(chars) \in Nat /\ t \in 0 .. Len(chars)
  <2>1. i \in 1 .. Len(chars) /\ Len(chars) \in Nat
    BY LenProperties
  <2> QED BY <2>1, TakenType
<1>2. CASE l.last = EOF
  <2>1. a = l /\ a.last # "*"
    BY <1>2, AdvanceAtEnd DEF EOF
  <2> QED BY <2>1 DEF InComment
<1>3. ASSUME l.last # EOF, FoundEnd(l, a)
      PROVE  InComment(chars, a, to, i)
  <2>1. u = t /\ a.last = EOF /\ a.rest = <<>> /\ a.last # "*"
    BY <1>3 DEF FoundEnd, Taken, EOF
  <2> QED BY <2>1 DEF InComment
<1>4. ASSUME l.last # EOF, TookOne(chars, l, a)
      PROVE  InComment(chars, a, to, i)
  <2>1. u = t + 1 /\ a.last = chars[u] /\ a.last # EOF
    BY <1>4 DEF TookOne
  <2>2. l.last = chars[t]
    BY <1>4 DEF LastTaken
  <2>3. /\ i + 1 <= t /\ Stands(chars, i, <<"/", "*">>)
        /\ \A k \in i + 2 .. t - 1 : ~Stands(chars, k, <<"*", "/">>)
        /\ where = "stars" => l.last = "*" /\ i + 2 <= t
        /\ where = "block" /\ l.last = "*" => t = i + 1
    BY DEF InComment
  <2> HIDE DEF t, u
  <2>4. ASSUME i + 2 <= t
        PROVE  ~Stands(chars, t, <<"*", "/">>)
    <3>1. t \in Nat \ {0} /\ t # i + 1
      BY <1>1, <2>4
    <3>2. l.last # "*" \/ a.last # "/"
      BY <2>3, <3>1
    <3>3. chars[t] # "*" \/ chars[t + 1] # "/"
      BY <2>1, <2>2, <3>2
    <3> QED BY <3>1, <3>3, StandsPair
  <2>5. \A k \in i + 2 .. u - 1 : ~Stands(chars, k, <<"*", "/">>)
    <3> SUFFICES ASSUME NEW k \in i + 2 .. u - 1
                 PROVE  ~Stands(chars, k, <<"*", "/">>)
      OBVIOUS
    <3>1. (k = t /\ i + 2 <= t) \/ k \in i + 2 .. t - 1
      BY <1>1, <2>1
    <3> QED BY <2>3, <2>4, <3>1
  <2>6. i + 1 <= u /\ i + 2 <= u
    BY <1>1, <2>1, <2>3
  <2>7. to = "block" => a.last # "*"
    OBVIOUS
  <2> QED BY <2>1, <2>3, <2>5, <2>6, <2>7 DEF InComment, u
<1>5. l.last # EOF => TookOne(chars, l, a) \/ FoundEnd(l, a)
  BY Advances
<1> QED BY <1>2, <1>3, <1>4, <1>5

LEMMA InCommentKeeps ==
    ASSUME LexerInv, input' = input, pc \in {"block", "stars"}, NEW a, a = advance(lexer),
           NEW to \in {"block", "stars"}, GoOn(a, to),
           pc = "block" \/ a.last # "/", to = "stars" <=> a.last = "*"
    PROVE  LexerInv'
<1>1. Follows(input, lexer, a)
  BY InvParts, AdvanceFollows
<1>2. LastTaken(input, lexer)
  BY TakenUnlessSpace
<1>3. PICK i \in DOMAIN input : InComment(input, lexer, pc, i)
  BY InvParts DEF Positioned
<1>4. InComment(input, a, to, i)
  BY <1>2, <1>3, InvParts, CommentGoesOn
<1>5. Positioned(input, a, to, prev')
  BY <1>1, <1>4 DEF Positioned, Follows
<1> QED BY <1>1, <1>5, GoOnKeeps DEF Follows, Places

LEMMA BlockCommentKeeps == ASSUME LexerInv, BlockComment PROVE LexerInv'
<1> DEFINE a == advance(lexer)
           to == IF a.last = "*" THEN "stars" ELSE "block"
<1>1. input' = input /\ pc = "block" /\ GoOn(a, to)
  BY DEF BlockComment
<1>2. to \in {"block", "stars"} /\ (to = "stars" <=> a.last = "*")
  OBVIOUS
<1> HIDE DEF to
<1> QED BY <1>1, <1>2, InCommentKeeps

LEMMA StarsKeeps == ASSUME LexerInv, Stars PROVE LexerInv'
<1> DEFINE a == advance(lexer)
           out == advance([a EXCEPT !.last = NUL])
<1>1. /\ input' = input /\ pc = "stars"
      /\ \/ a.last = "*" /\ GoOn(a, "stars")
         \/ a.last = "/" /\ GoOn(out, "space")
         \/ a.last # "*" /\ a.last # "/" /\ GoOn(a, "block")
  BY DEF Stars
<1>2. Follows(input, lexer, a)
  BY InvParts, AdvanceFollows
<1>3. CASE a.last = "*" /\ GoOn(a, "stars")
  <2>1. a.last # "/"
    BY <1>3
  <2> QED BY <1>1, <1>3, <2>1, InCommentKeeps
<1>4. CASE a.last = "/" /\ GoOn(out, "space")
  <2>1. a.last # EOF /\ a \in Lexers
    BY <1>2, <1>4 DEF EOF, Follows, Sound
  <2> HIDE DEF a
  <2>2. out = advance(a)
    BY <2>1, AdvancePastNul
  <2>3. Follows(input, a, out)
    BY <1>2, <2>2, InvParts, AdvanceFollows DEF Follows
  <2>4. Follows(input, lexer, out)
    BY <1>2, <2>3 DEF Follows
  <2> HIDE DEF out
  <2> QED BY <1>1, <1>4, <2>4, GoesOnReading
<1>5. CASE a.last # "*" /\ a.last # "/" /\ GoOn(a, "block")
  BY <1>1, <1>5, InCommentKeeps
<1> QED BY <1>1, <1>3, <1>4, <1>5

-----------------------------------------------------------------------------
LEMMA InvNext == LexerInv /\ [LexerNext]_vars => LexerInv'
<1> SUFFICES ASSUME LexerInv, [LexerNext]_vars PROVE LexerInv'
  OBVIOUS
<1>1. CASE Call \/ SkipSpace \/ EndOfInput
  BY <1>1, CallKeeps, SkipSpaceKeeps, EndOfInputKeeps
<1>2. CASE BeginName \/ ReadName \/ BeginNumber \/ ReadNumber
  BY <1>2, BeginNameKeeps, ReadNameKeeps, BeginNumberKeeps, ReadNumberKeeps
<1>3. CASE BeginOther \/ ReadOperator \/ BeginString \/ ReadString
  BY <1>3, BeginOtherKeeps, ReadOperatorKeeps, BeginStringKeeps, ReadStringKeeps
<1>4. CASE ReadLocation \/ LineComment \/ BeginBlock \/ BlockComment \/ Stars
  BY <1>4, ReadLocationKeeps, LineCommentKeeps, BeginBlockKeeps, BlockCommentKeeps, StarsKeeps
<1>5. CASE UNCHANGED vars
  BY <1>5 DEF vars, locals, LexerInv
<1> QED BY <1>1, <1>2, <1>3, <1>4, <1>5 DEF LexerNext

(***************************************************************************)
(* The stream holds the rest of the text, last is the character in front   *)
(* of it, and every loop of next() is where its text says it is.           *)
(***************************************************************************)
THEOREM LexerInvariant == LexerSpec => []LexerInv
BY InvInit, InvNext, PTL DEF LexerSpec

(***************************************************************************)
(* The row counts every new line but those that a name took with it.       *)
(***************************************************************************)
THEOREM LexerRowsCounted == LexerSpec => []RowsCounted
<1>1. LexerInv => RowsCounted
  <2> SUFFICES ASSUME LexerInv, ~Quoted(input)
               PROVE  lexer.row = 1 + NewLinesIn(Consumed) - LineNames(tokens)
    BY Zenon DEF RowsCounted, Quoted, LineNames
  <2>1. Uncounted(input, lexer) = 1 - LineNames(tokens) /\ LineNames(tokens) \in Nat
    BY LineNamesType DEF LexerInv, Counted
  <2>2. Taken(input, lexer) \in 0 .. Len(input) /\ Len(input) \in Nat
    BY InvParts, TakenType
  <2>3. NewLinesIn(Consumed) = NewLinesTo(input, Taken(input, lexer))
    BY <2>2, InvParts, NewLinesInFirst DEF Consumed, Taken
  <2>4. Taken(input, lexer) \in Nat
    BY <2>2
  <2>5. NewLinesIn(Consumed) \in Nat /\ lexer.row \in Int
    BY <2>3, <2>4, InvParts, LexerFields, NewLinesType
  <2>6. lexer.row - NewLinesIn(Consumed) = 1 - LineNames(tokens)
    BY <2>1, <2>3 DEF Uncounted
  <2> QED BY <2>1, <2>5, <2>6
<1> QED BY <1>1, LexerInvariant, PTL

(***************************************************************************)
(* The end that the lexer sees is the end of the text, unless a location   *)
(* or a line comment was empty, and a block comment that is left there is  *)
(* not closed.                                                             *)
(***************************************************************************)
THEOREM LexerEndAtEnd == LexerSpec => []EndAtEnd
<1>1. LexerInv => EndAtEnd
  <2> SUFFICES ASSUME LexerInv, lexer.last = EOF
               PROVE  /\ lexer.rest # <<>> => EmptyLineComment(input) \/ "#" \in Range(input)
                      /\ pc \in {"block", "stars"} => Unterminated(input)
    BY DEF EndAtEnd
  <2>1. lexer.rest # <<>> => EmptyLineComment(input) \/ "#" \in Range(input)
    BY InvParts DEF Sound
  <2>2. ASSUME pc \in {"block", "stars"}
        PROVE  Unterminated(input)
    <3>1. PICK i \in DOMAIN input : InComment(input, lexer, pc, i)
      BY <2>2, InvParts DEF Positioned
    <3>2. lexer.rest = <<>> /\ Len(lexer.rest) = 0
      BY <3>1 DEF InComment
    <3>3. Taken(input, lexer) = Len(input)
      BY <3>2, InvParts, LenProperties DEF Taken
    <3> QED BY <3>1, <3>3 DEF InComment, Unterminated
  <2> QED BY <2>1, <2>2
<1> QED BY <1>1, LexerInvariant, PTL

-----------------------------------------------------------------------------
(***************************************************************************)
(* The table of the lexemes, and which of them begin with a character.     *)
(***************************************************************************)
LexemeNames ==
    {"T_NE", "T_NOT", "T_MOD", "T_MASK", "T_AND", "T_BIT_AND", "T_L_PAREN",
     "T_R_PAREN", "T_MUL", "T_PP", "T_PLUS", "T_COMMA", "T_MINUS", "T_RANGE",
     "T_DOT", "T_DIV", "T_COLON", "T_SEMICOLON", "T_SHL", "T_LE",
     "T_L_ANGLE", "T_EQ", "T_ASSIGN", "T_GE", "T_R_ANGLE", "T_QUESTION",
     "T_L_BRACKET", "T_R_BRACKET", "T_BIT_XOR", "T_L_BRACE", "T_R_BRACE",
     "T_PLUS_SAT", "T_MINUS_SAT", "T_OR", "T_BIT_OR", "T_COMPLEMENT"}

LEMMA LexemeTexts ==
    /\ DOMAIN Lexemes = LexemeNames
    /\ Lexemes["T_NE"] = <<"!", "=">>
    /\ Lexemes["T_NOT"] = <<"!">>
    /\ Lexemes["T_MOD"] = <<"%">>
    /\ Lexemes["T_MASK"] = <<"&", "&", "&">>
    /\ Lexemes["T_AND"] = <<"&", "&">>
    /\ Lexemes["T_BIT_AND"] = <<"&">>
    /\ Lexemes["T_L_PAREN"] = <<"(">>
    /\ Lexemes["T_R_PAREN"] = <<")">>
    /\ Lexemes["T_MUL"] = <<"*">>
    /\ Lexemes["T_PP"] = <<"+", "+">>
    /\ Lexemes["T_PLUS"] = <<"+">>
    /\ Lexemes["T_COMMA"] = <<",">>
    /\ Lexemes["T_MINUS"] = <<"-">>
    /\ Lexemes["T_RANGE"] = <<".", ".">>
    /\ Lexemes["T_DOT"] = <<".">>
    /\ Lexemes["T_DIV"] = <<"/">>
    /\ Lexemes["T_COLON"] = <<":">>
    /\ Lexemes["T_SEMICOLON"] = <<";">>
    /\ Lexemes["T_SHL"] = <<"<", "<">>
    /\ Lexemes["T_LE"] = <<"<", "=">>
    /\ Lexemes["T_L_ANGLE"] = <<"<">>
    /\ Lexemes["T_EQ"] = <<"=", "=">>
    /\ Lexemes["T_ASSIGN"] = <<"=">>
    /\ Lexemes["T_GE"] = <<">", "=">>
    /\ Lexemes["T_R_ANGLE"] = <<">">>
    /\ Lexemes["T_QUESTION"] = <<"?">>
    /\ Lexemes["T_L_BRACKET"] = <<"[">>
    /\ Lexemes["T_R_BRACKET"] = <<"]">>
    /\ Lexemes["T_BIT_XOR"] = <<"^">>
    /\ Lexemes["T_L_BRACE"] = <<"{">>
    /\ Lexemes["T_R_BRACE"] = <<"}">>
    /\ Lexemes["T_PLUS_SAT"] = <<"|", "+", "|">>
    /\ Lexemes["T_MINUS_SAT"] = <<"|", "-", "|">>
    /\ Lexemes["T_OR"] = <<"|", "|">>
    /\ Lexemes["T_BIT_OR"] = <<"|">>
    /\ Lexemes["T_COMPLEMENT"] = <<"~">>
BY DEF Lexemes, LexemeNames

Begins(t) == Lexemes[t][1]

SingleChars == {"%", "(", ")", "*", ",", "-", ":", ";", "?", "[", "]", "^", "{", "}", "~"}
LexemeStarts == SingleChars \cup {"!", "&", "+", ".", "/", "<", "=", ">", "|"}

LEMMA LexemeFirsts ==
    /\ Begins("T_NE") = "!"
    /\ Begins("T_NOT") = "!"
    /\ Begins("T_MOD") = "%"
    /\ Begins("T_MASK") = "&"
    /\ Begins("T_AND") = "&"
    /\ Begins("T_BIT_AND") = "&"
    /\ Begins("T_L_PAREN") = "("
    /\ Begins("T_R_PAREN") = ")"
    /\ Begins("T_MUL") = "*"
    /\ Begins("T_PP") = "+"
    /\ Begins("T_PLUS") = "+"
    /\ Begins("T_COMMA") = ","
    /\ Begins("T_MINUS") = "-"
    /\ Begins("T_RANGE") = "."
    /\ Begins("T_DOT") = "."
    /\ Begins("T_DIV") = "/"
    /\ Begins("T_COLON") = ":"
    /\ Begins("T_SEMICOLON") = ";"
    /\ Begins("T_SHL") = "<"
    /\ Begins("T_LE") = "<"
    /\ Begins("T_L_ANGLE") = "<"
    /\ Begins("T_EQ") = "="
    /\ Begins("T_ASSIGN") = "="
    /\ Begins("T_GE") = ">"
    /\ Begins("T_R_ANGLE") = ">"
    /\ Begins("T_QUESTION") = "?"
    /\ Begins("T_L_BRACKET") = "["
    /\ Begins("T_R_BRACKET") = "]"
    /\ Begins("T_BIT_XOR") = "^"
    /\ Begins("T_L_BRACE") = "{"
    /\ Begins("T_R_BRACE") = "}"
    /\ Begins("T_PLUS_SAT") = "|"
    /\ Begins("T_MINUS_SAT") = "|"
    /\ Begins("T_OR") = "|"
    /\ Begins("T_BIT_OR") = "|"
    /\ Begins("T_COMPLEMENT") = "~"
BY DEF Lexemes, Begins

LEMMA LexemesThatBegin ==
    \A t \in DOMAIN Lexemes :
        /\ Begins(t) = "!" => t \in {"T_NE", "T_NOT"}
        /\ Begins(t) = "%" => t \in {"T_MOD"}
        /\ Begins(t) = "&" => t \in {"T_MASK", "T_AND", "T_BIT_AND"}
        /\ Begins(t) = "(" => t \in {"T_L_PAREN"}
        /\ Begins(t) = ")" => t \in {"T_R_PAREN"}
        /\ Begins(t) = "*" => t \in {"T_MUL"}
        /\ Begins(t) = "+" => t \in {"T_PP", "T_PLUS"}
        /\ Begins(t) = "," => t \in {"T_COMMA"}
        /\ Begins(t) = "-" => t \in {"T_MINUS"}
        /\ Begins(t) = "." => t \in {"T_RANGE", "T_DOT"}
        /\ Begins(t) = "/" => t \in {"T_DIV"}
        /\ Begins(t) = ":" => t \in {"T_COLON"}
        /\ Begins(t) = ";" => t \in {"T_SEMICOLON"}
        /\ Begins(t) = "<" => t \in {"T_SHL", "T_LE", "T_L_ANGLE"}
        /\ Begins(t) = "=" => t \in {"T_EQ", "T_ASSIGN"}
        /\ Begins(t) = ">" => t \in {"T_GE", "T_R_ANGLE"}
        /\ Begins(t) = "?" => t \in {"T_QUESTION"}
        /\ Begins(t) = "[" => t \in {"T_L_BRACKET"}
        /\ Begins(t) = "]" => t \in {"T_R_BRACKET"}
        /\ Begins(t) = "^" => t \in {"T_BIT_XOR"}
        /\ Begins(t) = "{" => t \in {"T_L_BRACE"}
        /\ Begins(t) = "}" => t \in {"T_R_BRACE"}
        /\ Begins(t) = "|" => t \in {"T_PLUS_SAT", "T_MINUS_SAT", "T_OR", "T_BIT_OR"}
        /\ Begins(t) = "~" => t \in {"T_COMPLEMENT"}
        /\ Begins(t) \in LexemeStarts
<1> TAKE t \in DOMAIN Lexemes
<1> DEFINE Begun(c) == c \in LexemeStarts
<1>1. t \in LexemeNames
  BY LexemeTexts
<1>2. Begins(t) = "!" => t \in {"T_NE", "T_NOT"}
  BY <1>1, LexemeFirsts DEF LexemeNames
<1>3. Begins(t) = "%" => t \in {"T_MOD"}
  BY <1>1, LexemeFirsts DEF LexemeNames
<1>4. Begins(t) = "&" => t \in {"T_MASK", "T_AND", "T_BIT_AND"}
  BY <1>1, LexemeFirsts DEF LexemeNames
<1>5. Begins(t) = "(" => t \in {"T_L_PAREN"}
  BY <1>1, LexemeFirsts DEF LexemeNames
<1>6. Begins(t) = ")" => t \in {"T_R_PAREN"}
  BY <1>1, LexemeFirsts DEF LexemeNames
<1>7. Begins(t) = "*" => t \in {"T_MUL"}
  BY <1>1, LexemeFirsts DEF LexemeNames
<1>8. Begins(t) = "+" => t \in {"T_PP", "T_PLUS"}
  BY <1>1, LexemeFirsts DEF LexemeNames
<1>9. Begins(t) = "," => t \in {"T_COMMA"}
  BY <1>1, LexemeFirsts DEF LexemeNames
<1>10. Begins(t) = "-" => t \in {"T_MINUS"}
  BY <1>1, LexemeFirsts DEF LexemeNames
<1>11. Begins(t) = "." => t \in {"T_RANGE", "T_DOT"}
  BY <1>1, LexemeFirsts DEF LexemeNames
<1>12. Begins(t) = "/" => t \in {"T_DIV"}
  BY <1>1, LexemeFirsts DEF LexemeNames
<1>13. Begins(t) = ":" => t \in {"T_COLON"}
  BY <1>1, LexemeFirsts DEF LexemeNames
<1>14. Begins(t) = ";" => t \in {"T_SEMICOLON"}
  BY <1>1, LexemeFirsts DEF LexemeNames
<1>15. Begins(t) = "<" => t \in {"T_SHL", "T_LE", "T_L_ANGLE"}
  BY <1>1, LexemeFirsts DEF LexemeNames
<1>16. Begins(t) = "=" => t \in {"T_EQ", "T_ASSIGN"}
  BY <1>1, LexemeFirsts DEF LexemeNames
<1>17. Begins(t) = ">" => t \in {"T_GE", "T_R_ANGLE"}
  BY <1>1, LexemeFirsts DEF LexemeNames
<1>18. Begins(t) = "?" => t \in {"T_QUESTION"}
  BY <1>1, LexemeFirsts DEF LexemeNames
<1>19. Begins(t) = "[" => t \in {"T_L_BRACKET"}
  BY <1>1, LexemeFirsts DEF LexemeNames
<1>20. Begins(t) = "]" => t \in {"T_R_BRACKET"}
  BY <1>1, LexemeFirsts DEF LexemeNames
<1>21. Begins(t) = "^" => t \in {"T_BIT_XOR"}
  BY <1>1, LexemeFirsts DEF LexemeNames
<1>22. Begins(t) = "{" => t \in {"T_L_BRACE"}
  BY <1>1, LexemeFirsts DEF LexemeNames
<1>23. Begins(t) = "}" => t \in {"T_R_BRACE"}
  BY <1>1, LexemeFirsts DEF LexemeNames
<1>24. Begins(t) = "|" => t \in {"T_PLUS_SAT", "T_MINUS_SAT", "T_OR", "T_BIT_OR"}
  BY <1>1, LexemeFirsts DEF LexemeNames
<1>25. Begins(t) = "~" => t \in {"T_COMPLEMENT"}
  BY <1>1, LexemeFirsts DEF LexemeNames
<1>26. /\ Begun("!") /\ Begun("%") /\ Begun("&")
       /\ Begun("(") /\ Begun(")") /\ Begun("*")
       /\ Begun("+") /\ Begun(",") /\ Begun("-")
       /\ Begun(".") /\ Begun("/") /\ Begun(":")
       /\ Begun(";") /\ Begun("<") /\ Begun("=")
       /\ Begun(">") /\ Begun("?") /\ Begun("[")
       /\ Begun("]") /\ Begun("^") /\ Begun("{")
       /\ Begun("}") /\ Begun("|") /\ Begun("~")
  BY DEF LexemeStarts, SingleChars
<1> HIDE DEF Begun
<1>27. Begun(Begins(t))
  <2>1. /\ Begun(Begins("T_NE")) /\ Begun(Begins("T_NOT"))
        /\ Begun(Begins("T_MOD")) /\ Begun(Begins("T_MASK"))
        /\ Begun(Begins("T_AND")) /\ Begun(Begins("T_BIT_AND"))
        /\ Begun(Begins("T_L_PAREN")) /\ Begun(Begins("T_R_PAREN"))
        /\ Begun(Begins("T_MUL")) /\ Begun(Begins("T_PP"))
        /\ Begun(Begins("T_PLUS")) /\ Begun(Begins("T_COMMA"))
        /\ Begun(Begins("T_MINUS")) /\ Begun(Begins("T_RANGE"))
        /\ Begun(Begins("T_DOT")) /\ Begun(Begins("T_DIV"))
        /\ Begun(Begins("T_COLON")) /\ Begun(Begins("T_SEMICOLON"))
        /\ Begun(Begins("T_SHL")) /\ Begun(Begins("T_LE"))
        /\ Begun(Begins("T_L_ANGLE")) /\ Begun(Begins("T_EQ"))
        /\ Begun(Begins("T_ASSIGN")) /\ Begun(Begins("T_GE"))
        /\ Begun(Begins("T_R_ANGLE")) /\ Begun(Begins("T_QUESTION"))
        /\ Begun(Begins("T_L_BRACKET")) /\ Begun(Begins("T_R_BRACKET"))
        /\ Begun(Begins("T_BIT_XOR")) /\ Begun(Begins("T_L_BRACE"))
        /\ Begun(Begins("T_R_BRACE")) /\ Begun(Begins("T_PLUS_SAT"))
        /\ Begun(Begins("T_MINUS_SAT")) /\ Begun(Begins("T_OR"))
        /\ Begun(Begins("T_BIT_OR")) /\ Begun(Begins("T_COMPLEMENT"))
    BY <1>26, LexemeFirsts
  <2> QED BY <1>1, <2>1 DEF LexemeNames
<1> QED BY <1>2, <1>3, <1>4, <1>5, <1>6, <1>7, <1>8, <1>9, <1>10, <1>11, <1>12, <1>13, <1>14, <1>15, <1>16, <1>17, <1>18, <1>19, <1>20, <1>21, <1>22, <1>23, <1>24, <1>25, <1>27 DEF Begun

IsShort(s) ==
    \/ \E a : s = <<a>>
    \/ \E a, b : s = <<a, b>>
    \/ \E a, b, c : s = <<a, b, c>>

LEMMA LexemesAreShort == \A t \in DOMAIN Lexemes : IsShort(Lexemes[t])
<1>1. /\ \A a : IsShort(<<a>>)
      /\ \A a, b : IsShort(<<a, b>>)
      /\ \A a, b, c : IsShort(<<a, b, c>>)
  BY DEF IsShort
<1> DEFINE Short(t) == IsShort(Lexemes[t])
<1>2. /\ Short("T_NE") /\ Short("T_NOT") /\ Short("T_MOD")
      /\ Short("T_MASK") /\ Short("T_AND") /\ Short("T_BIT_AND")
  BY <1>1, LexemeTexts
<1>3. /\ Short("T_L_PAREN") /\ Short("T_R_PAREN") /\ Short("T_MUL")
      /\ Short("T_PP") /\ Short("T_PLUS") /\ Short("T_COMMA")
  BY <1>1, LexemeTexts
<1>4. /\ Short("T_MINUS") /\ Short("T_RANGE") /\ Short("T_DOT")
      /\ Short("T_DIV") /\ Short("T_COLON") /\ Short("T_SEMICOLON")
  BY <1>1, LexemeTexts
<1>5. /\ Short("T_SHL") /\ Short("T_LE") /\ Short("T_L_ANGLE")
      /\ Short("T_EQ") /\ Short("T_ASSIGN") /\ Short("T_GE")
  BY <1>1, LexemeTexts
<1>6. /\ Short("T_R_ANGLE") /\ Short("T_QUESTION") /\ Short("T_L_BRACKET")
      /\ Short("T_R_BRACKET") /\ Short("T_BIT_XOR") /\ Short("T_L_BRACE")
  BY <1>1, LexemeTexts
<1>7. /\ Short("T_R_BRACE") /\ Short("T_PLUS_SAT") /\ Short("T_MINUS_SAT")
      /\ Short("T_OR") /\ Short("T_BIT_OR") /\ Short("T_COMPLEMENT")
  BY <1>1, LexemeTexts
<1> HIDE DEF Short
<1>8. \A t \in LexemeNames : Short(t)
  BY <1>2, <1>3, <1>4, <1>5, <1>6, <1>7 DEF LexemeNames
<1> QED BY <1>8, LexemeTexts DEF Short

IsSingle(c, t) ==
    /\ t \in DOMAIN Lexemes /\ Lexemes[t] = <<c>>
    /\ \A u \in DOMAIN Lexemes : Begins(u) = c => u = t

LEMMA SingleLexemes ==
    /\ DOMAIN Singles = SingleChars
    /\ \A c \in SingleChars : IsSingle(c, Singles[c])
<1>1. DOMAIN Singles = SingleChars
  BY DEF Singles, SingleChars
<1>2. /\ Singles["%"] = "T_MOD"
      /\ Singles["("] = "T_L_PAREN"
      /\ Singles[")"] = "T_R_PAREN"
      /\ Singles["*"] = "T_MUL"
      /\ Singles[","] = "T_COMMA"
      /\ Singles["-"] = "T_MINUS"
      /\ Singles[":"] = "T_COLON"
      /\ Singles[";"] = "T_SEMICOLON"
      /\ Singles["?"] = "T_QUESTION"
      /\ Singles["["] = "T_L_BRACKET"
      /\ Singles["]"] = "T_R_BRACKET"
      /\ Singles["^"] = "T_BIT_XOR"
      /\ Singles["{"] = "T_L_BRACE"
      /\ Singles["}"] = "T_R_BRACE"
      /\ Singles["~"] = "T_COMPLEMENT"
  BY DEF Singles
<1>3. /\ IsSingle("%", "T_MOD")
      /\ IsSingle("(", "T_L_PAREN")
      /\ IsSingle(")", "T_R_PAREN")
      /\ IsSingle("*", "T_MUL")
      /\ IsSingle(",", "T_COMMA")
      /\ IsSingle("-", "T_MINUS")
      /\ IsSingle(":", "T_COLON")
      /\ IsSingle(";", "T_SEMICOLON")
      /\ IsSingle("?", "T_QUESTION")
      /\ IsSingle("[", "T_L_BRACKET")
      /\ IsSingle("]", "T_R_BRACKET")
      /\ IsSingle("^", "T_BIT_XOR")
      /\ IsSingle("{", "T_L_BRACE")
      /\ IsSingle("}", "T_R_BRACE")
      /\ IsSingle("~", "T_COMPLEMENT")
  BY LexemesThatBegin, LexemeTexts DEF IsSingle, LexemeNames
<1>4. /\ IsSingle("%", Singles["%"])
      /\ IsSingle("(", Singles["("])
      /\ IsSingle(")", Singles[")"])
      /\ IsSingle("*", Singles["*"])
      /\ IsSingle(",", Singles[","])
      /\ IsSingle("-", Singles["-"])
      /\ IsSingle(":", Singles[":"])
      /\ IsSingle(";", Singles[";"])
      /\ IsSingle("?", Singles["?"])
      /\ IsSingle("[", Singles["["])
      /\ IsSingle("]", Singles["]"])
      /\ IsSingle("^", Singles["^"])
      /\ IsSingle("{", Singles["{"])
      /\ IsSingle("}", Singles["}"])
      /\ IsSingle("~", Singles["~"])
  BY <1>2, <1>3
<1>5. \A c \in SingleChars : IsSingle(c, Singles[c])
  BY <1>4 DEF SingleChars
<1> QED BY <1>1, <1>5

-----------------------------------------------------------------------------
(***************************************************************************)
(* The place of last in the text, which is behind it at the end.           *)
(***************************************************************************)
StandsAt(chars, l, p) ==
    \/ p \in 1 .. Len(chars) /\ Taken(chars, l) = p /\ l.last = chars[p]
    \/ p = Len(chars) + 1 /\ l.last = EOF

LEMMA CharactersAreNoEnd ==
    ASSUME NEW chars \in Seq(Character), NEW p \in 1 .. Len(chars)
    PROVE  chars[p] # EOF /\ chars[p] # NUL
BY ElementOfSeq DEF Character

LEMMA StandsWhere ==
    ASSUME NEW chars \in Seq(Character), NEW l, NEW p, StandsAt(chars, l, p)
    PROVE  /\ p \in 1 .. Len(chars) + 1
           /\ l.last = EOF <=> p = Len(chars) + 1
           /\ p \in 1 .. Len(chars) => l.last = chars[p] /\ Taken(chars, l) = p
           /\ l.last # EOF => p \in 1 .. Len(chars)
<1>1. Len(chars) \in Nat
  BY LenProperties
<1>2. \A q \in 1 .. Len(chars) : chars[q] # EOF
  BY CharactersAreNoEnd
<1> QED BY <1>1, <1>2 DEF StandsAt

LEMMA OneFurther ==
    ASSUME NEW chars \in Seq(Character), NEW l, Sound(chars, l), NEW p, StandsAt(chars, l, p),
           NEW a, TookOne(chars, l, a) \/ FoundEnd(l, a), l.last # EOF
    PROVE  StandsAt(chars, a, p + 1)
<1>1. /\ p \in 1 .. Len(chars) /\ Taken(chars, l) = p /\ Len(chars) \in Nat
      /\ Len(l.rest) = Len(chars) - p
  BY StandsWhere, TakenType
<1>2. CASE TookOne(chars, l, a)
  BY <1>1, <1>2 DEF TookOne, StandsAt
<1>3. CASE FoundEnd(l, a)
  <2>1. Len(l.rest) = 0
    BY <1>3 DEF FoundEnd
  <2>2. p = Len(chars)
    BY <1>1, <2>1
  <2> QED BY <1>3, <2>2 DEF FoundEnd, StandsAt
<1> QED BY <1>2, <1>3

LEMMA AdvanceStands ==
    ASSUME NEW chars \in Seq(Character), NEW l, Sound(chars, l), NEW p \in 1 .. Len(chars),
           StandsAt(chars, l, p)
    PROVE  Sound(chars, advance(l)) /\ StandsAt(chars, advance(l), p + 1)
<1>1. l.last # EOF
  <2>1. Len(chars) \in Nat
    BY LenProperties
  <2> QED BY <2>1, StandsWhere
<1> QED BY <1>1, Advances, OneFurther

-----------------------------------------------------------------------------
(***************************************************************************)
(* Texts that stand at a place.                                            *)
(***************************************************************************)
LEMMA StandsSingle ==
    ASSUME NEW chars \in Seq(Character), NEW i \in Nat \ {0}, NEW a
    PROVE  Stands(chars, i, <<a>>) <=> i <= Len(chars) /\ chars[i] = a
<1>1. Len(chars) \in Nat /\ Len(<<a>>) = 1 /\ i + 1 - 1 = i
  BY LenProperties
<1> DEFINE part == SubSeq(chars, i, i)
<1>2. Stands(chars, i, <<a>>) <=> i <= Len(chars) /\ part = <<a>>
  BY <1>1 DEF Stands
<1>3. ASSUME i <= Len(chars)
      PROVE  part = <<chars[i]>>
  <2>1. part \in Seq(Character) /\ Len(part) = 1 /\ part[1] = chars[i]
    BY <1>1, <1>3
  <2> HIDE DEF part
  <2> QED BY <2>1
<1> HIDE DEF part
<1> QED BY <1>2, <1>3

LEMMA StandsTriple ==
    ASSUME NEW chars \in Seq(Character), NEW i \in Nat \ {0}, NEW a, NEW b, NEW c
    PROVE  Stands(chars, i, <<a, b, c>>) <=>
             i + 2 <= Len(chars) /\ chars[i] = a /\ chars[i + 1] = b /\ chars[i + 2] = c
<1>1. Len(chars) \in Nat /\ Len(<<a, b, c>>) = 3 /\ i + 3 - 1 = i + 2
  BY LenProperties
<1> DEFINE part == SubSeq(chars, i, i + 2)
<1>2. Stands(chars, i, <<a, b, c>>) <=> i + 2 <= Len(chars) /\ part = <<a, b, c>>
  BY <1>1 DEF Stands
<1>3. ASSUME i + 2 <= Len(chars)
      PROVE  part = <<chars[i], chars[i + 1], chars[i + 2]>>
  <2>1. /\ part \in Seq(Character) /\ Len(part) = 3
        /\ part[1] = chars[i] /\ part[2] = chars[i + 1] /\ part[3] = chars[i + 2]
    BY <1>1, <1>3
  <2> HIDE DEF part
  <2> QED BY <2>1
<1> HIDE DEF part
<1> QED BY <1>2, <1>3

\* What stands at a place begins with the character there.
LEMMA LexemeStands ==
    ASSUME NEW chars \in Seq(Character), NEW i \in Nat \ {0}, NEW t \in DOMAIN Lexemes,
           Stands(chars, i, Lexemes[t])
    PROVE  /\ Begins(t) = chars[i] /\ Len(Lexemes[t]) \in 1 .. 3
           /\ i + Len(Lexemes[t]) - 1 \in i .. Len(chars)
<1>1. Len(chars) \in Nat
  BY LenProperties
<1>2. CASE \E a : Lexemes[t] = <<a>>
  BY <1>1, <1>2, StandsSingle DEF Begins
<1>3. CASE \E a, b : Lexemes[t] = <<a, b>>
  BY <1>1, <1>3, StandsPair DEF Begins
<1>4. CASE \E a, b, c : Lexemes[t] = <<a, b, c>>
  BY <1>1, <1>4, StandsTriple DEF Begins
<1> QED BY <1>2, <1>3, <1>4, LexemesAreShort DEF IsShort

-----------------------------------------------------------------------------
(***************************************************************************)
(* A place where neither space, a comment, a name nor a number begins.     *)
(***************************************************************************)
Opens(chars, b) ==
    /\ b \in 1 .. Len(chars) /\ chars[b] \notin Space \cup NameChar \cup Decimal
    /\ ~Stands(chars, b, <<"/", "*">>) /\ ~Stands(chars, b, <<"/", "/">>)

IsLongest(chars, b, t) ==
    /\ t \in DOMAIN Lexemes /\ Stands(chars, b, Lexemes[t])
    /\ \A u \in DOMAIN Lexemes :
         Stands(chars, b, Lexemes[u]) => u = t \/ Len(Lexemes[u]) < Len(Lexemes[t])

LEMMA PieceWhereOpens ==
    ASSUME NEW chars, NEW b, Opens(chars, b)
    PROVE  LET here == { t \in DOMAIN Lexemes : Stands(chars, b, Lexemes[t]) }
               longest == CHOOSE t \in here : \A u \in here : Len(Lexemes[u]) <= Len(Lexemes[t])
           IN  Piece(chars, b) = IF here = {} THEN Lone("T_UNKNOWN", b)
                                 ELSE Lone(longest, b + Len(Lexemes[longest]) - 1)
<1> DEFINE here == { t \in DOMAIN Lexemes : Stands(chars, b, Lexemes[t]) }
           longest == CHOOSE t \in here : \A u \in here : Len(Lexemes[u]) <= Len(Lexemes[t])
           other == IF here = {} THEN Lone("T_UNKNOWN", b)
                    ELSE Lone(longest, b + Len(Lexemes[longest]) - 1)
           end1 == RunEnd(chars, b, NumberChar)
           end2 == RunEnd(chars, b, NameChar)
           name == SubSeq(chars, b, end2)
           p1 == Lone(read_number(SubSeq(chars, b, end1), 0, 32).token, end1)
           p2 == Lone(IF name = <<"_">> THEN "T_DONTCARE"
                      ELSE IF name \in Keywords THEN "T_KEYWORD" ELSE "T_IDENTIFIER", end2)
<1>1. Piece(chars, b) =
        CASE chars[b] \in Space -> Gap(b)
          [] Stands(chars, b, <<"/", "*">>) -> Gap(BlockEnd(chars, b))
          [] Stands(chars, b, <<"/", "/">>) -> Gap(LineEndAfter(chars, b) - 1)
          [] chars[b] \in Decimal -> p1
          [] chars[b] \in NameChar \ Decimal -> p2
          [] OTHER -> other
  BY DEF Piece
<1>2. /\ chars[b] \notin Space /\ chars[b] \notin Decimal /\ chars[b] \notin NameChar \ Decimal
      /\ ~Stands(chars, b, <<"/", "*">>) /\ ~Stands(chars, b, <<"/", "/">>)
  BY DEF Opens
<1> HIDE DEF other, p1, p2
<1>3. Piece(chars, b) = other
  BY <1>1, <1>2
<1> QED BY <1>3 DEF other

LEMMA PieceOfLexeme ==
    ASSUME NEW chars \in Seq(Character), NEW b, Opens(chars, b), NEW t, IsLongest(chars, b, t)
    PROVE  Piece(chars, b) = Lone(t, b + Len(Lexemes[t]) - 1)
<1> DEFINE here == { u \in DOMAIN Lexemes : Stands(chars, b, Lexemes[u]) }
           Greatest(u) == \A v \in here : Len(Lexemes[v]) <= Len(Lexemes[u])
           longest == CHOOSE u \in here : Greatest(u)
<1>1. Piece(chars, b) = IF here = {} THEN Lone("T_UNKNOWN", b)
                        ELSE Lone(longest, b + Len(Lexemes[longest]) - 1)
  BY PieceWhereOpens
<1>2. t \in here
  BY DEF IsLongest
<1>3. b \in Nat \ {0}
  BY LenProperties DEF Opens
<1>4. \A u \in here : Len(Lexemes[u]) \in 1 .. 3
  BY <1>3, LexemeStands
<1>5. \A u \in here : u = t \/ Len(Lexemes[u]) < Len(Lexemes[t])
  BY DEF IsLongest
<1> HIDE DEF here
<1>6. Greatest(t)
  BY <1>2, <1>4, <1>5
<1>7. longest \in here /\ Greatest(longest)
  <2> HIDE DEF Greatest
  <2> QED BY <1>2, <1>6
<1> HIDE DEF longest
<1>8. longest = t
  BY <1>2, <1>4, <1>5, <1>7
<1> QED BY <1>1, <1>2, <1>8

\* What the lexer makes of a place is the piece there.
FoundAs(chars, b, read) ==
    /\ Piece(chars, b).tokens = <<read.token>>
    /\ Sound(chars, read.lexer) /\ StandsAt(chars, read.lexer, Piece(chars, b).end + 1)

LEMMA LoneFields ==
    ASSUME NEW token, NEW end
    PROVE  Lone(token, end).end = end /\ Lone(token, end).tokens = <<token>>
BY DEF Lone

LEMMA TokenFields ==
    ASSUME NEW l, NEW token
    PROVE  Token(l, token).lexer = l /\ Token(l, token).token = token
BY DEF Token

LEMMA LexemeFound ==
    ASSUME NEW chars \in Seq(Character), NEW b, Opens(chars, b), NEW t, IsLongest(chars, b, t),
           NEW a, Sound(chars, a), NEW p, StandsAt(chars, a, p), p = b + Len(Lexemes[t])
    PROVE  FoundAs(chars, b, Token(a, t))
<1>1. Piece(chars, b) = Lone(t, b + Len(Lexemes[t]) - 1)
  BY PieceOfLexeme
<1>2. b \in Nat \ {0}
  BY LenProperties DEF Opens
<1>3. Len(Lexemes[t]) \in 1 .. 3
  BY <1>2, LexemeStands DEF IsLongest
<1>4. (b + Len(Lexemes[t]) - 1) + 1 = p
  BY <1>2, <1>3
<1> QED BY <1>1, <1>4, LoneFields, TokenFields DEF FoundAs

LEMMA NoLexemeFound ==
    ASSUME NEW chars \in Seq(Character), NEW b, Opens(chars, b), chars[b] \notin LexemeStarts,
           NEW a, Sound(chars, a), StandsAt(chars, a, b + 1)
    PROVE  FoundAs(chars, b, One(a, "T_UNKNOWN"))
<1> DEFINE here == { u \in DOMAIN Lexemes : Stands(chars, b, Lexemes[u]) }
           unknown == "T_UNKNOWN"
<1>1. b \in Nat \ {0}
  BY LenProperties DEF Opens
<1>2. here = {}
  BY <1>1, LexemeStands, LexemesThatBegin
<1>3. Piece(chars, b) = Lone(unknown, b)
  BY <1>2, PieceWhereOpens
<1> HIDE DEF here, unknown
<1>4. FoundAs(chars, b, Token(a, unknown))
  BY <1>3, LoneFields, TokenFields DEF FoundAs
<1> QED BY <1>4 DEF One, unknown

-----------------------------------------------------------------------------
(***************************************************************************)
(* The operators, by their first character.                                *)
(***************************************************************************)
Fits(chars, l, b) ==
    Opens(chars, b) /\ Sound(chars, l) /\ StandsAt(chars, l, b + 1)

LEMMA FitsWhere ==
    ASSUME NEW chars \in Seq(Character), NEW l, NEW b, Fits(chars, l, b)
    PROVE  /\ b \in Nat \ {0} /\ b <= Len(chars) /\ Len(chars) \in Nat
           /\ b + 1 <= Len(chars) => chars[b + 1] = l.last
           /\ l.last # EOF => b + 1 \in 1 .. Len(chars)
<1>1. Len(chars) \in Nat /\ b \in 1 .. Len(chars) /\ StandsAt(chars, l, b + 1)
  BY LenProperties DEF Fits, Opens
<1>2. /\ b + 1 \in 1 .. Len(chars) => l.last = chars[b + 1]
      /\ l.last # EOF => b + 1 \in 1 .. Len(chars)
  BY <1>1, StandsWhere
<1> QED BY <1>1, <1>2

LEMMA SingleFound ==
    ASSUME NEW chars \in Seq(Character), NEW l, NEW b, Fits(chars, l, b),
           NEW t, IsSingle(chars[b], t)
    PROVE  FoundAs(chars, b, One(l, t))
<1>1. b \in Nat \ {0} /\ b <= Len(chars) /\ Opens(chars, b) /\ Sound(chars, l)
      /\ StandsAt(chars, l, b + 1)
  BY FitsWhere DEF Fits
<1>2. Lexemes[t] = <<chars[b]>> /\ t \in DOMAIN Lexemes
  BY DEF IsSingle
<1>3. Stands(chars, b, Lexemes[t]) /\ Len(Lexemes[t]) = 1
  BY <1>1, <1>2, StandsSingle
<1>4. IsLongest(chars, b, t)
  BY <1>1, <1>2, <1>3, LexemeStands DEF IsLongest, IsSingle
<1>5. FoundAs(chars, b, Token(l, t))
  BY <1>1, <1>3, <1>4, LexemeFound
<1> QED BY <1>5 DEF One

\* A token of one character, and one that goes on with another character.
ArePair(c, d, t, u) ==
    /\ t \in DOMAIN Lexemes /\ Lexemes[t] = <<c, d>> /\ u \in DOMAIN Lexemes /\ Lexemes[u] = <<c>>
    /\ \A v \in DOMAIN Lexemes : Begins(v) = c => v \in {t, u}

LEMMA PairFound ==
    ASSUME NEW chars \in Seq(Character), NEW l, NEW b, Fits(chars, l, b),
           NEW t, NEW u, NEW d, d # EOF, ArePair(chars[b], d, t, u)
    PROVE  FoundAs(chars, b, Doubled(l, d, t, u))
<1>1. b \in Nat \ {0} /\ b <= Len(chars) /\ Opens(chars, b) /\ Sound(chars, l)
      /\ StandsAt(chars, l, b + 1) /\ Len(chars) \in Nat
      /\ (b + 1 <= Len(chars) => chars[b + 1] = l.last)
      /\ (l.last # EOF => b + 1 \in 1 .. Len(chars))
  BY FitsWhere DEF Fits
<1>2. /\ t \in DOMAIN Lexemes /\ u \in DOMAIN Lexemes
      /\ Lexemes[t] = <<chars[b], d>> /\ Lexemes[u] = <<chars[b]>>
  BY DEF ArePair
<1>3. /\ Stands(chars, b, Lexemes[t]) <=> b + 1 <= Len(chars) /\ chars[b + 1] = d
      /\ Stands(chars, b, Lexemes[u]) /\ Len(Lexemes[t]) = 2 /\ Len(Lexemes[u]) = 1
  BY <1>1, <1>2, StandsSingle, StandsPair
<1>4. \A v \in DOMAIN Lexemes : Stands(chars, b, Lexemes[v]) => v \in {t, u}
  BY <1>1, LexemeStands DEF ArePair
<1>5. CASE l.last = d
  <2>1. Doubled(l, d, t, u) = Token(advance(l), t)
    BY <1>5 DEF Doubled, Two
  <2>2. b + 1 \in 1 .. Len(chars) /\ chars[b + 1] = d
    BY <1>1, <1>5
  <2>3. Sound(chars, advance(l)) /\ StandsAt(chars, advance(l), (b + 1) + 1)
    BY <1>1, <2>2, AdvanceStands
  <2>4. IsLongest(chars, b, t)
    BY <1>2, <1>3, <1>4, <2>2 DEF IsLongest
  <2>5. (b + 1) + 1 = b + Len(Lexemes[t])
    BY <1>1, <1>3
  <2> QED BY <1>1, <2>1, <2>3, <2>4, <2>5, LexemeFound
<1>6. CASE l.last # d
  <2>1. Doubled(l, d, t, u) = Token(l, u)
    BY <1>6 DEF Doubled, One
  <2>2. ~Stands(chars, b, Lexemes[t])
    BY <1>1, <1>3, <1>6
  <2>3. IsLongest(chars, b, u)
    BY <1>2, <1>3, <1>4, <2>2 DEF IsLongest
  <2>4. b + 1 = b + Len(Lexemes[u])
    BY <1>3
  <2> QED BY <1>1, <2>1, <2>3, <2>4, LexemeFound
<1> QED BY <1>5, <1>6

-----------------------------------------------------------------------------
\* One and two characters further on.
LEMMA NextStands ==
    ASSUME NEW chars \in Seq(Character), NEW l, NEW b, Fits(chars, l, b), l.last # EOF
    PROVE  LET a == advance(l)
           IN  /\ b + 1 <= Len(chars) /\ chars[b + 1] = l.last
               /\ Sound(chars, a) /\ StandsAt(chars, a, b + 2)
               /\ b + 2 <= Len(chars) => chars[b + 2] = a.last
               /\ a.last # EOF => b + 2 <= Len(chars)
               /\ a.last # EOF => Sound(chars, advance(a)) /\ StandsAt(chars, advance(a), b + 3)
<1> DEFINE a == advance(l)
<1>1. /\ b \in Nat \ {0} /\ Len(chars) \in Nat /\ b + 1 \in 1 .. Len(chars)
      /\ chars[b + 1] = l.last /\ Sound(chars, l) /\ StandsAt(chars, l, b + 1)
  BY FitsWhere DEF Fits
<1>2. Sound(chars, a) /\ StandsAt(chars, a, (b + 1) + 1)
  BY <1>1, AdvanceStands
<1>3. (b + 1) + 1 = b + 2 /\ b + 2 \in Nat \ {0} /\ (b + 2) + 1 = b + 3
  BY <1>1
<1> HIDE DEF a
<1>4. /\ b + 2 \in 1 .. Len(chars) => chars[b + 2] = a.last
      /\ a.last # EOF => b + 2 \in 1 .. Len(chars)
  BY <1>2, <1>3, StandsWhere
<1>5. ASSUME a.last # EOF
      PROVE  Sound(chars, advance(a)) /\ StandsAt(chars, advance(a), b + 3)
  BY <1>2, <1>3, <1>4, <1>5, AdvanceStands
<1> QED BY <1>1, <1>2, <1>3, <1>4, <1>5 DEF a

\* The longest of a few.
LEMMA LongestOf ==
    ASSUME NEW chars, NEW b, NEW names,
           \A v \in DOMAIN Lexemes : Stands(chars, b, Lexemes[v]) => v \in names,
           NEW t \in DOMAIN Lexemes, Stands(chars, b, Lexemes[t]),
           \A v \in names : \/ v = t \/ ~Stands(chars, b, Lexemes[v])
                            \/ Len(Lexemes[v]) < Len(Lexemes[t])
    PROVE  IsLongest(chars, b, t)
BY Zenon DEF IsLongest

LEMMA AndFound ==
    ASSUME NEW chars \in Seq(Character), NEW l, NEW b, Fits(chars, l, b), chars[b] = "&"
    PROVE  FoundAs(chars, b, IF l.last # "&" THEN One(l, "T_BIT_AND")
                             ELSE Doubled(advance(l), "&", "T_MASK", "T_AND"))
<1> DEFINE a == advance(l)
<1>1. /\ b \in Nat \ {0} /\ b <= Len(chars) /\ Opens(chars, b) /\ Sound(chars, l)
      /\ StandsAt(chars, l, b + 1) /\ Len(chars) \in Nat
      /\ (b + 1 <= Len(chars) => chars[b + 1] = l.last) /\ EOF # "&"
  BY FitsWhere DEF Fits, EOF
<1>2. \A v \in DOMAIN Lexemes : Stands(chars, b, Lexemes[v]) => v \in {"T_MASK", "T_AND", "T_BIT_AND"}
  BY <1>1, LexemeStands, LexemesThatBegin
<1>3. /\ Lexemes["T_MASK"] = <<"&", "&", "&">> /\ Lexemes["T_AND"] = <<"&", "&">>
      /\ Lexemes["T_BIT_AND"] = <<"&">>
      /\ {"T_MASK", "T_AND", "T_BIT_AND"} \subseteq DOMAIN Lexemes
  BY LexemeTexts DEF LexemeNames
<1>4. /\ Len(Lexemes["T_MASK"]) = 3 /\ Len(Lexemes["T_AND"]) = 2 /\ Len(Lexemes["T_BIT_AND"]) = 1
      /\ Len(Lexemes["T_AND"]) < Len(Lexemes["T_MASK"])
      /\ Len(Lexemes["T_BIT_AND"]) < Len(Lexemes["T_MASK"])
      /\ Len(Lexemes["T_BIT_AND"]) < Len(Lexemes["T_AND"])
  BY <1>3
<1>5. /\ Stands(chars, b, Lexemes["T_BIT_AND"])
      /\ Stands(chars, b, Lexemes["T_AND"]) <=> b + 1 <= Len(chars) /\ chars[b + 1] = "&"
      /\ Stands(chars, b, Lexemes["T_MASK"]) <=>
           b + 2 <= Len(chars) /\ chars[b + 1] = "&" /\ chars[b + 2] = "&"
  BY <1>1, <1>3, StandsSingle, StandsPair, StandsTriple
<1>6. CASE l.last # "&"
  <2>1. ~Stands(chars, b, Lexemes["T_AND"]) /\ ~Stands(chars, b, Lexemes["T_MASK"])
    BY <1>1, <1>5, <1>6
  <2>2. IsLongest(chars, b, "T_BIT_AND")
    BY <1>2, <1>3, <1>5, <2>1 DEF IsLongest
  <2>3. FoundAs(chars, b, Token(l, "T_BIT_AND"))
    BY <1>1, <1>4, <2>2, LexemeFound
  <2> QED BY <1>6, <2>3 DEF One
<1>7. CASE l.last = "&" /\ a.last = "&"
  <2>1. /\ b + 1 <= Len(chars) /\ chars[b + 1] = "&" /\ b + 2 <= Len(chars) /\ chars[b + 2] = "&"
        /\ Sound(chars, advance(a)) /\ StandsAt(chars, advance(a), b + 3)
    BY <1>1, <1>7, NextStands
  <2> HIDE DEF a
  <2>2. IsLongest(chars, b, "T_MASK")
    <3>1. Stands(chars, b, Lexemes["T_MASK"]) /\ "T_MASK" \in DOMAIN Lexemes
      BY <1>3, <1>5, <2>1
    <3>2. \A v \in {"T_MASK", "T_AND", "T_BIT_AND"} :
            v = "T_MASK" \/ Len(Lexemes[v]) < Len(Lexemes["T_MASK"])
      BY <1>4, Zenon
    <3> QED BY <1>2, <3>1, <3>2, LongestOf, Zenon
  <2>3. FoundAs(chars, b, Token(advance(a), "T_MASK"))
    BY <1>1, <1>4, <2>1, <2>2, LexemeFound
  <2> QED BY <1>7, <2>3 DEF Doubled, Two, a
<1>8. CASE l.last = "&" /\ a.last # "&"
  <2>1. /\ b + 1 <= Len(chars) /\ chars[b + 1] = "&"
        /\ Sound(chars, a) /\ StandsAt(chars, a, b + 2)
        /\ b + 2 <= Len(chars) => chars[b + 2] # "&"
    BY <1>1, <1>8, NextStands
  <2> HIDE DEF a
  <2>2. IsLongest(chars, b, "T_AND")
    <3>1. /\ Stands(chars, b, Lexemes["T_AND"]) /\ "T_AND" \in DOMAIN Lexemes
          /\ ~Stands(chars, b, Lexemes["T_MASK"])
      BY <1>3, <1>5, <2>1
    <3>2. \A v \in {"T_MASK", "T_AND", "T_BIT_AND"} :
            \/ v = "T_AND" \/ ~Stands(chars, b, Lexemes[v])
            \/ Len(Lexemes[v]) < Len(Lexemes["T_AND"])
      BY <1>4, <3>1, Zenon
    <3> QED BY <1>2, <3>1, <3>2, LongestOf, Zenon
  <2>3. FoundAs(chars, b, Token(a, "T_AND"))
    BY <1>1, <1>4, <2>1, <2>2, LexemeFound
  <2> QED BY <1>8, <2>3 DEF Doubled, One, a
<1> QED BY <1>6, <1>7, <1>8

LEMMA LessFound ==
    ASSUME NEW chars \in Seq(Character), NEW l, NEW b, Fits(chars, l, b), chars[b] = "<"
    PROVE  FoundAs(chars, b, IF l.last = "<" THEN Two(l, "T_SHL")
                             ELSE Doubled(l, "=", "T_LE", "T_L_ANGLE"))
<1> DEFINE a == advance(l)
<1>1. /\ b \in Nat \ {0} /\ b <= Len(chars) /\ Opens(chars, b) /\ Sound(chars, l)
      /\ StandsAt(chars, l, b + 1) /\ Len(chars) \in Nat
      /\ (b + 1 <= Len(chars) => chars[b + 1] = l.last) /\ EOF # "<" /\ EOF # "="
  BY FitsWhere DEF Fits, EOF
<1>2. \A v \in DOMAIN Lexemes : Stands(chars, b, Lexemes[v]) => v \in {"T_SHL", "T_LE", "T_L_ANGLE"}
  BY <1>1, LexemeStands, LexemesThatBegin
<1>3. /\ Lexemes["T_SHL"] = <<"<", "<">> /\ Lexemes["T_LE"] = <<"<", "=">>
      /\ Lexemes["T_L_ANGLE"] = <<"<">>
      /\ {"T_SHL", "T_LE", "T_L_ANGLE"} \subseteq DOMAIN Lexemes
  BY LexemeTexts DEF LexemeNames
<1>4. /\ Len(Lexemes["T_SHL"]) = 2 /\ Len(Lexemes["T_LE"]) = 2 /\ Len(Lexemes["T_L_ANGLE"]) = 1
      /\ Len(Lexemes["T_L_ANGLE"]) < Len(Lexemes["T_SHL"])
  BY <1>3
<1>5. /\ Stands(chars, b, Lexemes["T_L_ANGLE"])
      /\ Stands(chars, b, Lexemes["T_SHL"]) <=> b + 1 <= Len(chars) /\ chars[b + 1] = "<"
      /\ Stands(chars, b, Lexemes["T_LE"]) <=> b + 1 <= Len(chars) /\ chars[b + 1] = "="
  BY <1>1, <1>3, StandsSingle, StandsPair
<1>6. CASE l.last = "<"
  <2>1. /\ b + 1 <= Len(chars) /\ chars[b + 1] = "<"
        /\ Sound(chars, a) /\ StandsAt(chars, a, b + 2)
    BY <1>1, <1>6, NextStands
  <2>2. IsLongest(chars, b, "T_SHL")
    <3>1. /\ Stands(chars, b, Lexemes["T_SHL"]) /\ "T_SHL" \in DOMAIN Lexemes
          /\ ~Stands(chars, b, Lexemes["T_LE"])
      BY <1>3, <1>5, <2>1
    <3>2. \A v \in {"T_SHL", "T_LE", "T_L_ANGLE"} :
            \/ v = "T_SHL" \/ ~Stands(chars, b, Lexemes[v])
            \/ Len(Lexemes[v]) < Len(Lexemes["T_SHL"])
      BY <1>4, <3>1, Zenon
    <3> QED BY <1>2, <3>1, <3>2, LongestOf, Zenon
  <2>3. FoundAs(chars, b, Token(a, "T_SHL"))
    BY <1>1, <1>4, <2>1, <2>2, LexemeFound
  <2> QED BY <1>6, <2>3 DEF Two
<1>7. CASE l.last = "="
  <2>1. /\ b + 1 <= Len(chars) /\ chars[b + 1] = "="
        /\ Sound(chars, a) /\ StandsAt(chars, a, b + 2)
    BY <1>1, <1>7, NextStands
  <2>2. IsLongest(chars, b, "T_LE")
    BY <1>2, <1>3, <1>4, <1>5, <2>1 DEF IsLongest
  <2>3. FoundAs(chars, b, Token(a, "T_LE"))
    BY <1>1, <1>4, <2>1, <2>2, LexemeFound
  <2> QED BY <1>7, <2>3 DEF Doubled, Two
<1>8. CASE l.last \notin {"<", "="}
  <2>1. ~Stands(chars, b, Lexemes["T_SHL"]) /\ ~Stands(chars, b, Lexemes["T_LE"])
    BY <1>1, <1>5, <1>8
  <2>2. IsLongest(chars, b, "T_L_ANGLE")
    BY <1>2, <1>3, <1>5, <2>1 DEF IsLongest
  <2>3. FoundAs(chars, b, Token(l, "T_L_ANGLE"))
    BY <1>1, <1>4, <2>2, LexemeFound
  <2> QED BY <1>8, <2>3 DEF Doubled, One
<1> QED BY <1>6, <1>7, <1>8

LEMMA BarFound ==
    ASSUME NEW chars \in Seq(Character), ~HalfSaturating(chars),
           NEW l, NEW b, Fits(chars, l, b), chars[b] = "|"
    PROVE  FoundAs(chars, b,
             IF l.last = "+" THEN Doubled(advance(l), "|", "T_PLUS_SAT", "T_UNKNOWN")
             ELSE IF l.last = "-" THEN Doubled(advance(l), "|", "T_MINUS_SAT", "T_UNKNOWN")
             ELSE Doubled(l, "|", "T_OR", "T_BIT_OR"))
<1> DEFINE a == advance(l)
<1>1. /\ b \in Nat \ {0} /\ b <= Len(chars) /\ Opens(chars, b) /\ Sound(chars, l)
      /\ StandsAt(chars, l, b + 1) /\ Len(chars) \in Nat
      /\ (b + 1 <= Len(chars) => chars[b + 1] = l.last)
      /\ EOF # "|" /\ EOF # "+" /\ EOF # "-" /\ b \in DOMAIN chars
  BY FitsWhere, LenProperties DEF Fits, EOF
<1>2. \A v \in DOMAIN Lexemes : Stands(chars, b, Lexemes[v])
        => v \in {"T_PLUS_SAT", "T_MINUS_SAT", "T_OR", "T_BIT_OR"}
  BY <1>1, LexemeStands, LexemesThatBegin
<1>3. /\ Lexemes["T_PLUS_SAT"] = <<"|", "+", "|">> /\ Lexemes["T_MINUS_SAT"] = <<"|", "-", "|">>
      /\ Lexemes["T_OR"] = <<"|", "|">> /\ Lexemes["T_BIT_OR"] = <<"|">>
      /\ {"T_PLUS_SAT", "T_MINUS_SAT", "T_OR", "T_BIT_OR"} \subseteq DOMAIN Lexemes
  BY LexemeTexts DEF LexemeNames
<1>4. /\ Len(Lexemes["T_PLUS_SAT"]) = 3 /\ Len(Lexemes["T_MINUS_SAT"]) = 3
      /\ Len(Lexemes["T_OR"]) = 2 /\ Len(Lexemes["T_BIT_OR"]) = 1
      /\ Len(Lexemes["T_BIT_OR"]) < Len(Lexemes["T_OR"])
  BY <1>3
<1>5. /\ Stands(chars, b, Lexemes["T_BIT_OR"])
      /\ Stands(chars, b, Lexemes["T_OR"]) <=> b + 1 <= Len(chars) /\ chars[b + 1] = "|"
      /\ Stands(chars, b, Lexemes["T_PLUS_SAT"]) <=>
           b + 2 <= Len(chars) /\ chars[b + 1] = "+" /\ chars[b + 2] = "|"
      /\ Stands(chars, b, Lexemes["T_MINUS_SAT"]) <=>
           b + 2 <= Len(chars) /\ chars[b + 1] = "-" /\ chars[b + 2] = "|"
  BY <1>1, <1>3, StandsSingle, StandsPair, StandsTriple
<1>6. ASSUME NEW sign \in {"+", "-"}, b + 1 <= Len(chars), chars[b + 1] = sign
      PROVE  b + 2 <= Len(chars) /\ chars[b + 2] = "|"
  <2>1. Stands(chars, b, <<"|", sign>>)
    BY <1>1, <1>6, StandsPair
  <2>2. Stands(chars, b, <<"|", sign, "|">>)
    BY <1>1, <2>1 DEF HalfSaturating
  <2> QED BY <1>1, <2>2, StandsTriple
<1>7. ASSUME NEW sign \in {"+", "-"}, NEW t \in {"T_PLUS_SAT", "T_MINUS_SAT"},
             Lexemes[t] = <<"|", sign, "|">>, l.last = sign
      PROVE  FoundAs(chars, b, Doubled(advance(l), "|", t, "T_UNKNOWN"))
  <2>1. /\ b + 1 <= Len(chars) /\ chars[b + 1] = sign /\ sign # EOF
        /\ b + 2 <= Len(chars) => chars[b + 2] = a.last
    BY <1>1, <1>7, NextStands
  <2>2. b + 2 <= Len(chars) /\ a.last = "|" /\ chars[b + 2] = "|"
    BY <1>6, <2>1
  <2>3. Sound(chars, advance(a)) /\ StandsAt(chars, advance(a), b + 3)
    BY <1>1, <1>7, <2>1, <2>2, NextStands
  <2> HIDE DEF a
  <2>4. Len(Lexemes[t]) = 3 /\ Stands(chars, b, Lexemes[t]) /\ t \in DOMAIN Lexemes
    BY <1>1, <1>3, <1>4, <1>7, <2>1, <2>2, StandsTriple
  <2>5. \A v \in {"T_PLUS_SAT", "T_MINUS_SAT", "T_OR", "T_BIT_OR"} :
          v = t \/ ~Stands(chars, b, Lexemes[v]) \/ Len(Lexemes[v]) < Len(Lexemes[t])
    <3>1. ~Stands(chars, b, Lexemes["T_OR"])
      BY <1>5, <2>1
    <3>2. t = "T_PLUS_SAT" => sign = "+"
      BY <1>3, <1>7
    <3>3. t = "T_MINUS_SAT" => sign = "-"
      BY <1>3, <1>7
    <3>4. t = "T_PLUS_SAT" => ~Stands(chars, b, Lexemes["T_MINUS_SAT"])
      BY <1>5, <2>1, <3>2
    <3>5. t = "T_MINUS_SAT" => ~Stands(chars, b, Lexemes["T_PLUS_SAT"])
      BY <1>5, <2>1, <3>3
    <3>6. Len(Lexemes["T_BIT_OR"]) < Len(Lexemes[t])
      BY <1>4, <2>4
    <3>7. t = "T_PLUS_SAT" \/ t = "T_MINUS_SAT"
      OBVIOUS
    <3> QED BY <3>1, <3>4, <3>5, <3>6, <3>7, Zenon
  <2>6. IsLongest(chars, b, t)
    BY <1>2, <2>4, <2>5, LongestOf, Zenon
  <2>7. FoundAs(chars, b, Token(advance(a), t))
    BY <1>1, <2>3, <2>4, <2>6, LexemeFound
  <2> QED BY <2>2, <2>7 DEF Doubled, Two, a
<1>8. CASE l.last = "+"
  BY <1>3, <1>7, <1>8
<1>9. CASE l.last = "-"
  BY <1>3, <1>7, <1>9
<1>10. CASE l.last = "|"
  <2>1. /\ b + 1 <= Len(chars) /\ chars[b + 1] = "|"
        /\ Sound(chars, a) /\ StandsAt(chars, a, b + 2)
    BY <1>1, <1>10, NextStands
  <2>2. ~Stands(chars, b, Lexemes["T_PLUS_SAT"]) /\ ~Stands(chars, b, Lexemes["T_MINUS_SAT"])
    BY <1>5, <2>1
  <2>3. IsLongest(chars, b, "T_OR")
    <3>1. Stands(chars, b, Lexemes["T_OR"]) /\ "T_OR" \in DOMAIN Lexemes
      BY <1>3, <1>5, <2>1
    <3>2. \A v \in {"T_PLUS_SAT", "T_MINUS_SAT", "T_OR", "T_BIT_OR"} :
            \/ v = "T_OR" \/ ~Stands(chars, b, Lexemes[v])
            \/ Len(Lexemes[v]) < Len(Lexemes["T_OR"])
      BY <1>4, <2>2, Zenon
    <3> QED BY <1>2, <3>1, <3>2, LongestOf, Zenon
  <2>4. FoundAs(chars, b, Token(a, "T_OR"))
    BY <1>1, <1>4, <2>1, <2>3, LexemeFound
  <2> QED BY <1>10, <2>4 DEF Doubled, Two
<1>11. CASE l.last \notin {"+", "-", "|"}
  <2>1. /\ ~Stands(chars, b, Lexemes["T_PLUS_SAT"]) /\ ~Stands(chars, b, Lexemes["T_MINUS_SAT"])
        /\ ~Stands(chars, b, Lexemes["T_OR"])
    BY <1>1, <1>5, <1>11
  <2>2. IsLongest(chars, b, "T_BIT_OR")
    BY <1>2, <1>3, <1>5, <2>1 DEF IsLongest
  <2>3. FoundAs(chars, b, Token(l, "T_BIT_OR"))
    BY <1>1, <1>4, <2>2, LexemeFound
  <2> QED BY <1>11, <2>3 DEF Doubled, One
<1> QED BY <1>8, <1>9, <1>10, <1>11

LEMMA OperatorFound ==
    ASSUME NEW chars \in Seq(Character), Plain(chars), NEW l, NEW b, Fits(chars, l, b)
    PROVE  FoundAs(chars, b, Operator(l, chars[b]))
<1> DEFINE first == chars[b]
<1>1. first \notin {"\"", "#", "@"}
  <2>1. first \in Range(chars)
    BY FitsWhere, LenProperties DEF Range
  <2> QED BY <2>1 DEF Plain
<1>2. /\ ArePair("!", "=", "T_NE", "T_NOT") /\ ArePair("+", "+", "T_PP", "T_PLUS")
      /\ ArePair(".", ".", "T_RANGE", "T_DOT") /\ ArePair("=", "=", "T_EQ", "T_ASSIGN")
      /\ ArePair(">", "=", "T_GE", "T_R_ANGLE") /\ IsSingle("/", "T_DIV")
  BY LexemeTexts, LexemesThatBegin DEF ArePair, IsSingle, LexemeNames
<1>3. EOF \notin {"=", "+", "."}
  BY DEF EOF
<1> HIDE DEF first
<1>4. CASE first = "!"
  <2>1. Operator(l, first) = Doubled(l, "=", "T_NE", "T_NOT")
    BY <1>4, SinglesApart DEF Operator
  <2> QED BY <1>2, <1>3, <1>4, <2>1, PairFound DEF first
<1>5. CASE first = "+"
  <2>1. Operator(l, first) = Doubled(l, "+", "T_PP", "T_PLUS")
    BY <1>5, SinglesApart DEF Operator
  <2> QED BY <1>2, <1>3, <1>5, <2>1, PairFound DEF first
<1>6. CASE first = "."
  <2>1. Operator(l, first) = Doubled(l, ".", "T_RANGE", "T_DOT")
    BY <1>6, SinglesApart DEF Operator
  <2> QED BY <1>2, <1>3, <1>6, <2>1, PairFound DEF first
<1>7. CASE first = "="
  <2>1. Operator(l, first) = Doubled(l, "=", "T_EQ", "T_ASSIGN")
    BY <1>7, SinglesApart DEF Operator
  <2> QED BY <1>2, <1>3, <1>7, <2>1, PairFound DEF first
<1>8. CASE first = ">"
  <2>1. Operator(l, first) = Doubled(l, "=", "T_GE", "T_R_ANGLE")
    BY <1>8, SinglesApart DEF Operator
  <2> QED BY <1>2, <1>3, <1>8, <2>1, PairFound DEF first
<1>9. CASE first = "/"
  <2>1. Operator(l, first) = One(l, "T_DIV")
    BY <1>9, SinglesApart DEF Operator
  <2> QED BY <1>2, <1>9, <2>1, SingleFound DEF first
<1>10. CASE first = "&"
  <2>1. Operator(l, first) = IF l.last # "&" THEN One(l, "T_BIT_AND")
                             ELSE Doubled(advance(l), "&", "T_MASK", "T_AND")
    BY <1>10, SinglesApart DEF Operator
  <2> QED BY <1>10, <2>1, AndFound DEF first
<1>11. CASE first = "<"
  <2>1. Operator(l, first) = IF l.last = "<" THEN Two(l, "T_SHL")
                             ELSE Doubled(l, "=", "T_LE", "T_L_ANGLE")
    BY <1>11, SinglesApart DEF Operator
  <2> QED BY <1>11, <2>1, LessFound DEF first
<1>12. CASE first = "|"
  <2>1. Operator(l, first) = IF l.last = "+" THEN Doubled(advance(l), "|", "T_PLUS_SAT", "T_UNKNOWN")
                             ELSE IF l.last = "-" THEN Doubled(advance(l), "|", "T_MINUS_SAT", "T_UNKNOWN")
                             ELSE Doubled(l, "|", "T_OR", "T_BIT_OR")
    BY <1>12, SinglesApart DEF Operator
  <2> QED BY <1>12, <2>1, BarFound DEF first, Plain
<1>13. CASE first \notin {"!", "&", "+", ".", "/", "<", "=", ">", "|"}
  <2>1. Operator(l, first) = IF first \in DOMAIN Singles THEN One(l, Singles[first])
                             ELSE One(l, "T_UNKNOWN")
    BY <1>1, <1>13 DEF Operator
  <2>2. first \in DOMAIN Singles => FoundAs(chars, b, One(l, Singles[first]))
    BY SingleLexemes, SingleFound DEF first
  <2>3. ASSUME first \notin DOMAIN Singles
        PROVE  FoundAs(chars, b, One(l, "T_UNKNOWN"))
    <3>1. chars[b] \notin LexemeStarts
      BY <1>13, <2>3, SingleLexemes DEF LexemeStarts, first
    <3> QED BY <3>1, NoLexemeFound DEF Fits
  <2> QED BY <2>1, <2>2, <2>3, Zenon DEF first
<1> QED BY <1>4, <1>5, <1>6, <1>7, <1>8, <1>9, <1>10, <1>11, <1>12, <1>13 DEF first

-----------------------------------------------------------------------------
(***************************************************************************)
(* A number's token does not depend on the numbers read before.            *)
(***************************************************************************)
LEMMA NumberAlone ==
    ASSUME NEW chars, NEW v, NEW w, w # Thrown
    PROVE  LET n == read_number(chars, v, w)
           IN  /\ n.token = read_number(chars, 0, 32).token
               /\ n.token \in {"T_NUMBER", "T_UNKNOWN", "exception"}
               /\ n.width # Thrown
<1>1. \A x, y : /\ Number(x, y).token = "T_NUMBER" /\ Number(x, y).width = y
                /\ Unknown(x, y).token = "T_UNKNOWN" /\ Unknown(x, y).width = y
  BY DEF Number, Unknown
<1>2. \A y : Exception(y).token = "exception" /\ Exception(y).width = y
  BY DEF Exception
<1> DEFINE prefixed == Marks(chars) # {}
           Width(u) == IF prefixed THEN stoi(WidthText(chars), 10) ELSE u
           rest == AfterMark(chars)
           number == stoi(Digits(rest), Base(rest))
           Masked(u) == IF prefixed THEN number % TwoTo[Width(u)] ELSE number
           bad == \E n \in DOMAIN Digits(rest) :
                    Digits(rest)[n] \notin DigitsOf(Base(rest)) \cup {"_"}
<1>3. \A x, u : read_number(chars, x, u) =
        IF ~Matches(chars) THEN Unknown(x, u)
        ELSE IF Width(u) = Thrown THEN Exception(u)
        ELSE IF (IsSigned(chars) /\ Width(u) < 2) \/ bad THEN Unknown(x, Width(u))
        ELSE IF number = Thrown THEN Exception(Width(u))
        ELSE IF IsSigned(chars) THEN Number(SignExtend(Masked(u), Width(u)), Width(u))
        ELSE Number(Masked(u), Width(u))
  BY DEF read_number
<1>4. 32 # Thrown
  BY DEF Thrown
<1>5. IsSigned(chars) => prefixed
  BY DEF IsSigned
<1>6. prefixed => Width(w) = Width(32)
  OBVIOUS
<1>7. ~prefixed => Width(w) = w /\ Width(32) = 32
  OBVIOUS
<1> HIDE DEF prefixed, Width, rest, number, Masked, bad
<1>8. read_number(chars, v, w).token = read_number(chars, 0, 32).token
  <2>1. Width(w) = Thrown <=> Width(32) = Thrown
    BY <1>4, <1>6, <1>7
  <2>2. IsSigned(chars) /\ Width(w) < 2 <=> IsSigned(chars) /\ Width(32) < 2
    BY <1>5, <1>6
  <2>3. \A x, u : read_number(chars, x, u).token =
          IF ~Matches(chars) THEN "T_UNKNOWN"
          ELSE IF Width(u) = Thrown THEN "exception"
          ELSE IF (IsSigned(chars) /\ Width(u) < 2) \/ bad THEN "T_UNKNOWN"
          ELSE IF number = Thrown THEN "exception" ELSE "T_NUMBER"
    <3> SUFFICES ASSUME NEW x, NEW u
                 PROVE  read_number(chars, x, u).token =
                          IF ~Matches(chars) THEN "T_UNKNOWN"
                          ELSE IF Width(u) = Thrown THEN "exception"
                          ELSE IF (IsSigned(chars) /\ Width(u) < 2) \/ bad THEN "T_UNKNOWN"
                          ELSE IF number = Thrown THEN "exception" ELSE "T_NUMBER"
      OBVIOUS
    <3> QED BY <1>1, <1>2, <1>3
  <2> QED BY <2>1, <2>2, <2>3
<1>9. read_number(chars, v, w).token \in {"T_NUMBER", "T_UNKNOWN", "exception"}
  BY <1>1, <1>2, <1>3
<1>10. read_number(chars, v, w).width # Thrown
  BY <1>1, <1>2, <1>3, <1>7
<1> QED BY <1>8, <1>9, <1>10

-----------------------------------------------------------------------------
(***************************************************************************)
(* The ends of comments, names and numbers.                                *)
(***************************************************************************)
LEMMA BlockEndIs ==
    ASSUME NEW chars \in Seq(Character), NEW i \in 1 .. Len(chars),
           NEW k \in i + 2 .. Len(chars) - 1, Stands(chars, k, <<"*", "/">>),
           \A l \in i + 2 .. k - 1 : ~Stands(chars, l, <<"*", "/">>)
    PROVE  BlockEnd(chars, i) = k + 1
<1>1. Len(chars) \in Nat
  BY LenProperties
<1> DEFINE ends == { l \in i + 2 .. Len(chars) - 1 : Stands(chars, l, <<"*", "/">>) }
           First(l) == \A m \in ends : l <= m
           first == CHOOSE l \in ends : First(l)
<1>2. BlockEnd(chars, i) = IF ends = {} THEN 0 ELSE first + 1
  BY DEF BlockEnd
<1>3. k \in ends
  OBVIOUS
<1>4. First(k)
  <2> SUFFICES ASSUME NEW m \in ends, m < k PROVE FALSE
    BY <1>1
  <2>1. m \in i + 2 .. k - 1 /\ Stands(chars, m, <<"*", "/">>)
    BY <1>1
  <2> QED BY <2>1
<1>5. ends \subseteq Int
  OBVIOUS
<1> HIDE DEF ends
<1>6. first \in ends /\ First(first)
  <2> HIDE DEF First
  <2> QED BY <1>3, <1>4
<1> HIDE DEF first
<1>7. first = k
  BY <1>3, <1>4, <1>5, <1>6
<1> QED BY <1>2, <1>3, <1>7

LEMMA BlockEndType ==
    ASSUME NEW chars \in Seq(Character), NEW i \in 1 .. Len(chars),
           Stands(chars, i, <<"/", "*">>), ~Unterminated(chars)
    PROVE  BlockEnd(chars, i) \in i .. Len(chars)
<1>1. Len(chars) \in Nat /\ i \in DOMAIN chars
  BY LenProperties
<1> DEFINE ends == { l \in i + 2 .. Len(chars) - 1 : Stands(chars, l, <<"*", "/">>) }
<1>2. ends # {}
  BY <1>1 DEF Unterminated
<1>3. ends \subseteq Nat
  BY <1>1
<1>4. PICK k \in ends : \A l \in ends : ~(l < k)
  <2> HIDE DEF ends
  <2> QED BY <1>2, <1>3, LeastIndex
<1>5. \A l \in i + 2 .. k - 1 : ~Stands(chars, l, <<"*", "/">>)
  <2> SUFFICES ASSUME NEW l \in i + 2 .. k - 1, Stands(chars, l, <<"*", "/">>) PROVE FALSE
    OBVIOUS
  <2>1. l \in ends /\ l < k
    BY <1>1, <1>4
  <2> QED BY <1>4, <2>1
<1>6. BlockEnd(chars, i) = k + 1
  BY <1>4, <1>5, BlockEndIs
<1> QED BY <1>1, <1>4, <1>6

LEMMA LineEndIs ==
    ASSUME NEW chars \in Seq(Character), NEW i \in 1 .. Len(chars), NEW k \in i .. Len(chars) + 1,
           k = Len(chars) + 1 \/ chars[k] = "\n", \A l \in i .. k - 1 : chars[l] # "\n"
    PROVE  LineEndAfter(chars, i) = k
<1>1. Len(chars) \in Nat
  BY LenProperties
<1> DEFINE IsEnd(m) == /\ m = Len(chars) + 1 \/ chars[m] = "\n"
                       /\ \A l \in i .. m - 1 : chars[l] # "\n"
           end == CHOOSE m \in i .. Len(chars) + 1 : IsEnd(m)
<1>2. IsEnd(k)
  OBVIOUS
<1>3. LineEndAfter(chars, i) = end
  BY DEF LineEndAfter
<1>4. end \in i .. Len(chars) + 1 /\ IsEnd(end)
  <2> HIDE DEF IsEnd
  <2> QED BY <1>2
<1> HIDE DEF end
<1>5. ~(end < k)
  <2> SUFFICES ASSUME end < k PROVE FALSE
    OBVIOUS
  <2>1. end \in i .. k - 1 /\ end # Len(chars) + 1
    BY <1>1, <1>4
  <2> QED BY <1>2, <1>4, <2>1
<1>6. ~(k < end)
  <2> SUFFICES ASSUME k < end PROVE FALSE
    OBVIOUS
  <2>1. k \in i .. end - 1 /\ k # Len(chars) + 1
    BY <1>1, <1>4
  <2> QED BY <1>2, <1>4, <2>1
<1> QED BY <1>1, <1>3, <1>4, <1>5, <1>6

LEMMA LineEndType ==
    ASSUME NEW chars \in Seq(Character), NEW i \in 1 .. Len(chars), chars[i] # "\n"
    PROVE  LineEndAfter(chars, i) \in i + 1 .. Len(chars) + 1
<1>1. Len(chars) \in Nat
  BY LenProperties
<1> DEFINE S == { l \in i .. Len(chars) + 1 : l = Len(chars) + 1 \/ chars[l] = "\n" }
<1>2. S \subseteq Nat /\ Len(chars) + 1 \in S
  BY <1>1
<1>3. PICK k \in S : \A l \in S : ~(l < k)
  <2> HIDE DEF S
  <2> QED BY <1>2, LeastIndex
<1>4. \A l \in i .. k - 1 : chars[l] # "\n"
  <2> SUFFICES ASSUME NEW l \in i .. k - 1, chars[l] = "\n" PROVE FALSE
    OBVIOUS
  <2>1. l \in S /\ l < k
    BY <1>1, <1>3
  <2> QED BY <1>3, <2>1
<1>5. LineEndAfter(chars, i) = k
  BY <1>3, <1>4, LineEndIs
<1>6. k # i
  BY <1>1, <1>3
<1> QED BY <1>1, <1>3, <1>5, <1>6

LEMMA RunEndIs ==
    ASSUME NEW chars \in Seq(Character), NEW run, NEW i \in 1 .. Len(chars), NEW k \in i .. Len(chars),
           \A l \in i .. k : chars[l] \in run, k = Len(chars) \/ chars[k + 1] \notin run
    PROVE  RunEnd(chars, i, run) = k
<1>1. Len(chars) \in Nat
  BY LenProperties
<1> DEFINE IsEnd(m) == /\ \A l \in i .. m : chars[l] \in run
                       /\ m = Len(chars) \/ chars[m + 1] \notin run
           end == CHOOSE m \in i .. Len(chars) : IsEnd(m)
<1>2. IsEnd(k)
  OBVIOUS
<1>3. RunEnd(chars, i, run) = end
  BY DEF RunEnd
<1>4. end \in i .. Len(chars) /\ IsEnd(end)
  <2> HIDE DEF IsEnd
  <2> QED BY <1>2
<1> HIDE DEF end
<1>5. ~(end < k)
  <2> SUFFICES ASSUME end < k PROVE FALSE
    OBVIOUS
  <2>1. end + 1 \in i .. k /\ end # Len(chars)
    BY <1>1, <1>4
  <2> QED BY <1>2, <1>4, <2>1
<1>6. ~(k < end)
  <2> SUFFICES ASSUME k < end PROVE FALSE
    OBVIOUS
  <2>1. k + 1 \in i .. end /\ k # Len(chars)
    BY <1>1, <1>4
  <2> QED BY <1>2, <1>4, <2>1
<1> QED BY <1>1, <1>3, <1>4, <1>5, <1>6

LEMMA RunEndType ==
    ASSUME NEW chars \in Seq(Character), NEW run, NEW i \in 1 .. Len(chars), chars[i] \in run
    PROVE  RunEnd(chars, i, run) \in i .. Len(chars)
<1>1. Len(chars) \in Nat
  BY LenProperties
<1> DEFINE S == { l \in i .. Len(chars) : l = Len(chars) \/ chars[l + 1] \notin run }
<1>2. S \subseteq Nat /\ Len(chars) \in S
  BY <1>1
<1>3. PICK k \in S : \A l \in S : ~(l < k)
  <2> HIDE DEF S
  <2> QED BY <1>2, LeastIndex
<1>4. \A l \in i .. k : chars[l] \in run
  <2> SUFFICES ASSUME NEW l \in i .. k, chars[l] \notin run PROVE FALSE
    OBVIOUS
  <2>1. l # i /\ l - 1 \in i .. Len(chars) /\ (l - 1) + 1 = l
    BY <1>1, <1>3
  <2>2. l - 1 \in S /\ l - 1 < k
    BY <1>1, <1>3, <2>1
  <2> QED BY <1>3, <2>2
<1>5. RunEnd(chars, i, run) = k
  BY <1>3, <1>4, RunEndIs
<1> QED BY <1>1, <1>3, <1>5

-----------------------------------------------------------------------------
(***************************************************************************)
(* The pieces, by what begins at their place.                              *)
(***************************************************************************)
LEMMA CharacterKinds ==
    /\ Space \cap NameChar = {} /\ Space \cap Decimal = {}
    /\ "/" \notin Space \cup NameChar \cup Decimal
    /\ EOF \notin Space \cup NameChar \cup NumberChar
    /\ Decimal \subseteq NumberChar
<1>1. Space \cap Decimal = {} /\ "_" \notin Space /\ "/" \notin Space \cup Decimal /\ "/" # "_"
  BY DEF Space, Decimal
<1>2. EOF \notin NumberChar /\ EOF \notin Space /\ EOF # "_"
  BY DEF EOF, NumberChar, HexDigit, Decimal, BaseChar, Space
<1>3. Decimal \subseteq NumberChar
  BY DEF NumberChar, HexDigit
<1> QED BY <1>1, <1>2, <1>3, AlnumAssumption DEF NameChar

LEMMA PieceCases ==
    ASSUME NEW chars \in Seq(Character), NEW i \in 1 .. Len(chars)
    PROVE  /\ chars[i] \in Space => Piece(chars, i) = Gap(i)
           /\ Stands(chars, i, <<"/", "*">>) => Piece(chars, i) = Gap(BlockEnd(chars, i))
           /\ Stands(chars, i, <<"/", "/">>) =>
                Piece(chars, i) = Gap(LineEndAfter(chars, i) - 1)
           /\ chars[i] \in Decimal =>
                LET end == RunEnd(chars, i, NumberChar)
                IN  Piece(chars, i) = Lone(read_number(SubSeq(chars, i, end), 0, 32).token, end)
           /\ chars[i] \in NameChar \ Decimal =>
                LET end == RunEnd(chars, i, NameChar)
                IN  Piece(chars, i) = Lone(NameToken(SubSeq(chars, i, end)), end)
<1> DEFINE end1 == RunEnd(chars, i, NumberChar)
           end2 == RunEnd(chars, i, NameChar)
           here == { t \in DOMAIN Lexemes : Stands(chars, i, Lexemes[t]) }
           longest == CHOOSE t \in here : \A u \in here : Len(Lexemes[u]) <= Len(Lexemes[t])
           other == IF here = {} THEN Lone("T_UNKNOWN", i)
                    ELSE Lone(longest, i + Len(Lexemes[longest]) - 1)
           p1 == Lone(read_number(SubSeq(chars, i, end1), 0, 32).token, end1)
           p2 == Lone(NameToken(SubSeq(chars, i, end2)), end2)
           block == Stands(chars, i, <<"/", "*">>)
           line == Stands(chars, i, <<"/", "/">>)
<1>1. Piece(chars, i) =
        CASE chars[i] \in Space -> Gap(i)
          [] block -> Gap(BlockEnd(chars, i))
          [] line -> Gap(LineEndAfter(chars, i) - 1)
          [] chars[i] \in Decimal -> p1
          [] chars[i] \in NameChar \ Decimal -> p2
          [] OTHER -> other
  BY DEF Piece, NameToken
<1>2. block => chars[i] = "/" /\ ~line
  <2>1. i \in Nat \ {0}
    OBVIOUS
  <2>2. "*" # "/"
    OBVIOUS
  <2> QED BY <2>1, <2>2, StandsPair
<1>3. line => chars[i] = "/"
  <2>1. i \in Nat \ {0}
    OBVIOUS
  <2> QED BY <2>1, StandsPair
<1> HIDE DEF other, p1, p2, block, line
<1>4. CASE chars[i] \in Space
  <2>1. ~block /\ ~line /\ chars[i] \notin Decimal /\ chars[i] \notin NameChar
    BY <1>2, <1>3, <1>4, CharacterKinds
  <2>2. Piece(chars, i) = Gap(i)
    BY <1>1, <1>4, <2>1
  <2> QED BY <2>1, <2>2 DEF block, line
<1>5. CASE block
  <2>1. chars[i] \notin Space /\ ~line /\ chars[i] \notin Decimal /\ chars[i] \notin NameChar
    BY <1>2, <1>5, CharacterKinds
  <2>2. Piece(chars, i) = Gap(BlockEnd(chars, i))
    BY <1>1, <1>5, <2>1
  <2> QED BY <2>1, <2>2 DEF block, line
<1>6. CASE line
  <2>1. chars[i] \notin Space /\ ~block /\ chars[i] \notin Decimal /\ chars[i] \notin NameChar
    BY <1>2, <1>3, <1>6, CharacterKinds
  <2>2. Piece(chars, i) = Gap(LineEndAfter(chars, i) - 1)
    BY <1>1, <1>6, <2>1
  <2> QED BY <2>1, <2>2 DEF block, line
<1>7. CASE chars[i] \in Decimal
  <2>1. ~block /\ ~line /\ chars[i] \notin Space
    BY <1>2, <1>3, <1>7, CharacterKinds
  <2>2. Piece(chars, i) = p1
    BY <1>1, <1>7, <2>1
  <2> QED BY <1>7, <2>1, <2>2 DEF p1, block, line
<1>8. CASE chars[i] \in NameChar \ Decimal
  <2>1. ~block /\ ~line /\ chars[i] \notin Space
    BY <1>2, <1>3, <1>8, CharacterKinds
  <2>2. Piece(chars, i) = p2
    BY <1>1, <1>8, <2>1
  <2> QED BY <1>8, <2>1, <2>2 DEF p2, block, line
<1> QED BY <1>4, <1>5, <1>6, <1>7, <1>8 DEF block, line

\* The tokens of pieces: the end is none of them.
PieceTokens == Names \cup LexemeNames \cup {"T_NUMBER", "T_UNKNOWN", "exception"}

LEMMA EndIsNoPiece == "T_END" \notin PieceTokens
<1>1. "T_END" \notin Names
  BY DEF Names
<1>2. "T_END" \notin LexemeNames
  BY DEF LexemeNames
<1> QED BY <1>1, <1>2 DEF PieceTokens

LEMMA LoneType ==
    ASSUME NEW token \in PieceTokens, NEW end
    PROVE  Lone(token, end).end = end /\ Lone(token, end).tokens \in Seq(PieceTokens)
<1>1. <<token>> \in Seq(PieceTokens)
  OBVIOUS
<1> QED BY <1>1, LoneFields

LEMMA PieceType ==
    ASSUME NEW chars \in Seq(Character), ~Unterminated(chars), NEW i \in 1 .. Len(chars)
    PROVE  Piece(chars, i).end \in i .. Len(chars) /\ Piece(chars, i).tokens \in Seq(PieceTokens)
<1>1. Len(chars) \in Nat /\ i \in Nat \ {0}
  BY LenProperties
<1>2. \A end : Gap(end).end = end /\ Gap(end).tokens = <<>> /\ <<>> \in Seq(PieceTokens)
  BY DEF Gap
<1>3. CASE chars[i] \in Space
  <2>1. Piece(chars, i) = Gap(i) /\ i \in i .. Len(chars)
    BY <1>1, <1>3, PieceCases
  <2> QED BY <1>2, <2>1
<1>4. CASE Stands(chars, i, <<"/", "*">>)
  <2>1. BlockEnd(chars, i) \in i .. Len(chars)
    BY <1>4, BlockEndType
  <2>2. Piece(chars, i) = Gap(BlockEnd(chars, i))
    BY <1>4, PieceCases
  <2> QED BY <1>2, <2>1, <2>2
<1>5. CASE Stands(chars, i, <<"/", "/">>)
  <2>1. chars[i] = "/" /\ "/" # "\n"
    BY <1>1, <1>5, StandsPair
  <2>2. LineEndAfter(chars, i) \in i + 1 .. Len(chars) + 1
    BY <2>1, LineEndType
  <2>3. LineEndAfter(chars, i) - 1 \in i .. Len(chars)
    BY <1>1, <2>2
  <2>4. Piece(chars, i) = Gap(LineEndAfter(chars, i) - 1)
    BY <1>5, PieceCases
  <2> QED BY <1>2, <2>3, <2>4
<1>6. CASE chars[i] \in Decimal
  <2> DEFINE end == RunEnd(chars, i, NumberChar)
             token == read_number(SubSeq(chars, i, end), 0, 32).token
  <2>1. end \in i .. Len(chars)
    BY <1>6, CharacterKinds, RunEndType
  <2>2. token \in PieceTokens
    <3>1. 32 # Thrown
      BY DEF Thrown
    <3> QED BY <3>1, NumberAlone DEF PieceTokens
  <2>3. Piece(chars, i) = Lone(token, end)
    BY <1>6, PieceCases
  <2> HIDE DEF end, token
  <2> QED BY <2>1, <2>2, <2>3, LoneType
<1>7. CASE chars[i] \in NameChar \ Decimal
  <2> DEFINE end == RunEnd(chars, i, NameChar)
             token == NameToken(SubSeq(chars, i, end))
  <2>1. end \in i .. Len(chars)
    BY <1>7, RunEndType
  <2>2. token \in PieceTokens
    BY DEF PieceTokens, NameToken, Names
  <2>3. Piece(chars, i) = Lone(token, end)
    BY <1>7, PieceCases
  <2> HIDE DEF end, token
  <2> QED BY <2>1, <2>2, <2>3, LoneType
<1>8. CASE Opens(chars, i)
  <2> DEFINE here == { t \in DOMAIN Lexemes : Stands(chars, i, Lexemes[t]) }
             longest == CHOOSE t \in here : \A u \in here : Len(Lexemes[u]) <= Len(Lexemes[t])
  <2>1. Piece(chars, i) = IF here = {} THEN Lone("T_UNKNOWN", i)
                          ELSE Lone(longest, i + Len(Lexemes[longest]) - 1)
    BY <1>8, PieceWhereOpens
  <2>2. CASE here = {}
    <3>1. "T_UNKNOWN" \in PieceTokens /\ i \in i .. Len(chars)
      BY <1>1 DEF PieceTokens
    <3> QED BY <2>1, <2>2, <3>1, LoneType
  <2>3. CASE here # {}
    <3> DEFINE Greatest(t) == \A u \in here : Len(Lexemes[u]) <= Len(Lexemes[t])
    <3>1. \A u \in here : Len(Lexemes[u]) \in 1 .. 3
      BY <1>1, LexemeStands
    <3>2. \E t \in here : Greatest(t)
      <4> DEFINE Lengths == { Len(Lexemes[u]) : u \in here }
      <4>1. Lengths \subseteq 0 .. 3 /\ Lengths # {}
        <5> HIDE DEF here
        <5>1. \A u \in here : Len(Lexemes[u]) \in 0 .. 3
          BY <3>1
        <5> QED BY <2>3, <5>1
      <4>2. \E k \in Lengths : \A l \in Lengths : l <= k
        <5> HIDE DEF Lengths
        <5>1. 3 \in Nat
          OBVIOUS
        <5> QED BY <4>1, <5>1, GreatestIndex
      <4> HIDE DEF here
      <4> QED BY <4>2
    <3>3. longest \in here
      <4> HIDE DEF Greatest, here
      <4>1. \E t \in here : \A u \in here : Len(Lexemes[u]) <= Len(Lexemes[t])
        BY <3>2 DEF Greatest
      <4> QED BY <4>1
    <3> HIDE DEF longest
    <3>4. i + Len(Lexemes[longest]) - 1 \in i .. Len(chars)
      BY <1>1, <3>3, LexemeStands
    <3>5. longest \in PieceTokens
      BY <3>3, LexemeTexts DEF PieceTokens
    <3> QED BY <2>1, <2>3, <3>4, <3>5, LoneType
  <2> QED BY <2>2, <2>3
<1> QED BY <1>3, <1>4, <1>5, <1>6, <1>7, <1>8 DEF Opens

-----------------------------------------------------------------------------
(***************************************************************************)
(* The first pieces of a text, one after the other.                        *)
(***************************************************************************)
Fronts(chars) == [end : 0 .. Len(chars), tokens : Seq(PieceTokens)]

LEMMA AddPieceType ==
    ASSUME NEW chars \in Seq(Character), ~Unterminated(chars), NEW front \in Fronts(chars)
    PROVE  /\ AddPiece(chars, front) \in Fronts(chars)
           /\ front.end = Len(chars) => AddPiece(chars, front) = front
           /\ front.end # Len(chars) =>
                /\ AddPiece(chars, front).end = Piece(chars, front.end + 1).end
                /\ AddPiece(chars, front).tokens = front.tokens \o Piece(chars, front.end + 1).tokens
                /\ AddPiece(chars, front).end > front.end
<1>1. Len(chars) \in Nat /\ front.end \in 0 .. Len(chars) /\ front.tokens \in Seq(PieceTokens)
  BY LenProperties DEF Fronts
<1>2. CASE front.end = Len(chars)
  BY <1>2 DEF AddPiece
<1>3. CASE front.end # Len(chars)
  <2> DEFINE i == front.end + 1
             end == Piece(chars, i).end
             more == front.tokens \o Piece(chars, i).tokens
  <2>1. i \in 1 .. Len(chars)
    BY <1>1, <1>3
  <2>2. end \in i .. Len(chars) /\ Piece(chars, i).tokens \in Seq(PieceTokens)
    BY <2>1, PieceType
  <2>3. more \in Seq(PieceTokens)
    BY <1>1, <2>2, ConcatProperties
  <2>4. AddPiece(chars, front) = [end |-> end, tokens |-> more]
    BY <1>3 DEF AddPiece
  <2>5. end \in 0 .. Len(chars) /\ end > front.end
    BY <1>1, <2>1, <2>2
  <2> HIDE DEF end, more
  <2>6. AddPiece(chars, front) \in Fronts(chars) /\ AddPiece(chars, front).end = end
        /\ AddPiece(chars, front).tokens = more
    BY <2>3, <2>4, <2>5 DEF Fronts
  <2> QED BY <1>3, <2>5, <2>6 DEF end, more
<1> QED BY <1>2, <1>3

LEMMA PiecesRecursion ==
    ASSUME NEW chars \in Seq(Character), ~Unterminated(chars)
    PROVE  /\ Pieces(chars)[0] = Gap(0)
           /\ \A n \in 1 .. Len(chars) : Pieces(chars)[n] = AddPiece(chars, Pieces(chars)[n - 1])
           /\ \A n \in 0 .. Len(chars) : Pieces(chars)[n] \in Fronts(chars)
<1> DEFINE S == Fronts(chars)
           k == Len(chars)
           Recursive(f) == f = [n \in 0 .. Len(chars) |->
                                  IF n = 0 THEN Gap(0) ELSE AddPiece(chars, f[n - 1])]
           step == [p \in Nat \X S |-> AddPiece(chars, p[2])]
           front == CHOOSE f : Recursive(f)
<1>1. k \in Nat
  BY LenProperties
<1>2. Gap(0) \in S
  <2>1. 0 \in 0 .. Len(chars) /\ <<>> \in Seq(PieceTokens)
    BY <1>1
  <2> QED BY <2>1 DEF Gap, Fronts
<1>3. \A s \in S : AddPiece(chars, s) \in S
  BY AddPieceType
<1> HIDE DEF S
<1>4. step \in [Nat \X S -> S]
  BY <1>3
<1>5. PICK f \in [0 .. k -> S] : f[0] = Gap(0) /\ \A i \in 1 .. k : f[i] = step[<<i, f[i - 1]>>]
  <2> HIDE DEF step
  <2>1. \E f : IsRecursion(f, S, Gap(0), step, k)
    BY <1>1, <1>2, <1>4, RecursionExists
  <2> QED BY <2>1 DEF IsRecursion
<1>6. ASSUME NEW i \in 1 .. k
      PROVE  f[i] = AddPiece(chars, f[i - 1])
  <2>1. i \in Nat /\ i - 1 \in 0 .. k
    BY <1>1
  <2>2. f[i - 1] \in S
    BY <2>1
  <2> QED BY <1>5, <2>1, <2>2
<1>7. Recursive(f)
  <2> DEFINE g == [n \in 0 .. Len(chars) |-> IF n = 0 THEN Gap(0) ELSE AddPiece(chars, f[n - 1])]
  <2>1. ASSUME NEW n \in 0 .. k
        PROVE  f[n] = g[n]
    BY <1>1, <1>5, <1>6
  <2>2. f = g
    BY <2>1
  <2> QED BY <2>2
<1>8. Recursive(front)
  <2> HIDE DEF Recursive
  <2> QED BY <1>7
<1>9. Pieces(chars) = front
  BY DEF Pieces
<1> HIDE DEF front
<1>10. ASSUME NEW n \in 0 .. k
       PROVE  front[n] = IF n = 0 THEN Gap(0) ELSE AddPiece(chars, front[n - 1])
  BY <1>8
<1> DEFINE Typed == { n \in Nat : n \in 0 .. k => front[n] \in S }
<1>11. 0 \in Typed
  BY <1>1, <1>2, <1>10
<1>12. ASSUME NEW n \in Nat, n \in Typed
       PROVE  n + 1 \in Typed
  <2>1. CASE n + 1 <= k
    <3>1. n \in 0 .. k /\ n + 1 \in 0 .. k /\ n + 1 # 0 /\ (n + 1) - 1 = n
      BY <1>1, <2>1
    <3>2. front[n] \in S /\ front[n + 1] = AddPiece(chars, front[n])
      BY <1>10, <1>12, <3>1
    <3> QED BY <1>3, <3>2
  <2>2. CASE ~(n + 1 <= k)
    BY <1>1, <2>2
  <2> QED BY <2>1, <2>2
<1>13. \A n \in Nat : n \in Typed
  <2> HIDE DEF Typed
  <2> QED BY <1>11, <1>12, Induction
<1>14. \A n \in 0 .. k : front[n] \in S
  BY <1>1, <1>13
<1>15. front[0] = Gap(0) /\ \A n \in 1 .. k : front[n] = AddPiece(chars, front[n - 1])
  BY <1>1, <1>10
<1> QED BY <1>9, <1>14, <1>15 DEF S

(***************************************************************************)
(* A text is split as far as a place: some number of its first pieces end  *)
(* there, and these are their tokens.                                      *)
(***************************************************************************)
SplitTo(chars, e, toks) ==
    \E n \in 0 .. Len(chars) :
        n <= e /\ Pieces(chars)[n].end = e /\ Pieces(chars)[n].tokens = toks

LEMMA SplitType ==
    ASSUME NEW chars \in Seq(Character), ~Unterminated(chars), NEW e, NEW toks,
           SplitTo(chars, e, toks)
    PROVE  e \in 0 .. Len(chars) /\ toks \in Seq(PieceTokens)
<1>1. PICK n \in 0 .. Len(chars) : Pieces(chars)[n].end = e /\ Pieces(chars)[n].tokens = toks
  BY DEF SplitTo
<1>2. Pieces(chars)[n] \in Fronts(chars)
  BY PiecesRecursion
<1> QED BY <1>1, <1>2 DEF Fronts

LEMMA SplitBegins ==
    ASSUME NEW chars \in Seq(Character), ~Unterminated(chars)
    PROVE  SplitTo(chars, 0, <<>>)
<1>1. 0 \in 0 .. Len(chars) /\ 0 <= 0
  BY LenProperties
<1>2. Gap(0).end = 0 /\ Gap(0).tokens = <<>>
  BY DEF Gap
<1> QED BY <1>1, <1>2, PiecesRecursion DEF SplitTo

LEMMA SplitGoesOn ==
    ASSUME NEW chars \in Seq(Character), ~Unterminated(chars), NEW e, NEW toks,
           SplitTo(chars, e, toks), e + 1 \in 1 .. Len(chars)
    PROVE  SplitTo(chars, Piece(chars, e + 1).end, toks \o Piece(chars, e + 1).tokens)
<1>1. PICK n \in 0 .. Len(chars) :
        n <= e /\ Pieces(chars)[n].end = e /\ Pieces(chars)[n].tokens = toks
  BY DEF SplitTo
<1>2. Len(chars) \in Nat /\ e \in 0 .. Len(chars)
  BY LenProperties, SplitType
<1>3. e # Len(chars) /\ n + 1 \in 1 .. Len(chars) /\ (n + 1) - 1 = n /\ n + 1 \in 0 .. Len(chars)
  BY <1>1, <1>2
<1> DEFINE front == Pieces(chars)[n]
           next == Pieces(chars)[n + 1]
<1>4. front \in Fronts(chars) /\ next = AddPiece(chars, front)
  BY <1>3, PiecesRecursion
<1> HIDE DEF front, next
<1>5. front.end = e /\ front.tokens = toks
  BY <1>1 DEF front
<1>6. /\ next.end = Piece(chars, e + 1).end /\ next.tokens = toks \o Piece(chars, e + 1).tokens
      /\ next.end > e /\ next \in Fronts(chars)
  BY <1>3, <1>4, <1>5, AddPieceType
<1>7. n + 1 <= next.end
  <2>1. next.end \in 0 .. Len(chars)
    BY <1>6 DEF Fronts
  <2> QED BY <1>1, <1>2, <1>6, <2>1
<1>8. Pieces(chars)[n + 1].end = Piece(chars, e + 1).end
      /\ Pieces(chars)[n + 1].tokens = toks \o Piece(chars, e + 1).tokens
      /\ n + 1 <= Piece(chars, e + 1).end
  BY <1>6, <1>7 DEF next
<1> QED BY <1>3, <1>8 DEF SplitTo

LEMMA SplitEnds ==
    ASSUME NEW chars \in Seq(Character), ~Unterminated(chars), NEW toks,
           SplitTo(chars, Len(chars), toks)
    PROVE  TokensOf(chars) = toks
<1>1. PICK n \in 0 .. Len(chars) :
        Pieces(chars)[n].end = Len(chars) /\ Pieces(chars)[n].tokens = toks
  BY DEF SplitTo
<1>2. Len(chars) \in Nat
  BY LenProperties
<1> DEFINE Same == { m \in Nat : m \in n .. Len(chars) => Pieces(chars)[m] = Pieces(chars)[n] }
<1>3. 0 \in Same
  BY <1>1, <1>2
<1>4. ASSUME NEW m \in Nat, m \in Same
      PROVE  m + 1 \in Same
  <2>1. CASE m + 1 \in n + 1 .. Len(chars)
    <3>1. m \in n .. Len(chars) /\ m + 1 \in 1 .. Len(chars) /\ (m + 1) - 1 = m /\ m \in 0 .. Len(chars)
      BY <1>1, <1>2, <2>1
    <3>2. Pieces(chars)[m] = Pieces(chars)[n]
      BY <1>4, <3>1
    <3>3. Pieces(chars)[m + 1] = AddPiece(chars, Pieces(chars)[m]) /\ Pieces(chars)[m] \in Fronts(chars)
      BY <3>1, PiecesRecursion
    <3>4. AddPiece(chars, Pieces(chars)[m]) = Pieces(chars)[m]
      BY <1>1, <3>2, <3>3, AddPieceType
    <3> QED BY <3>2, <3>3, <3>4
  <2>2. CASE m + 1 \notin n + 1 .. Len(chars)
    BY <1>1, <1>2, <2>2
  <2> QED BY <2>1, <2>2
<1>5. \A m \in Nat : m \in Same
  <2> HIDE DEF Same
  <2> QED BY <1>3, <1>4, Induction
<1>6. Pieces(chars)[Len(chars)] = Pieces(chars)[n]
  BY <1>1, <1>2, <1>5
<1> QED BY <1>1, <1>6 DEF TokensOf

-----------------------------------------------------------------------------
(***************************************************************************)
(* Where next() is, and what it has returned is what the text in front of  *)
(* that place is split into.                                               *)
(***************************************************************************)
Found(returned) == [n \in DOMAIN returned |-> returned[n].token]

\* Nothing was taken yet, or last is where the next piece begins.
Between(chars, l, toks) ==
    \/ l.last = " " /\ Taken(chars, l) = 0 /\ toks = <<>>
    \/ \E p \in 1 .. Len(chars) + 1 : StandsAt(chars, l, p) /\ SplitTo(chars, p - 1, toks)

InName(chars, l, name, toks) ==
    \E b, p \in 1 .. Len(chars) :
        /\ b <= p /\ SplitTo(chars, b - 1, toks) /\ StandsAt(chars, l, p)
        /\ chars[b] \in NameChar \ Decimal /\ \A i \in b .. p : chars[i] \in NameChar
        /\ name = SubSeq(chars, b, p)

InNumber(chars, l, digits, toks) ==
    \E b, p \in 1 .. Len(chars) :
        /\ b <= p /\ SplitTo(chars, b - 1, toks) /\ StandsAt(chars, l, p)
        /\ chars[b] \in Decimal /\ \A i \in b .. p : chars[i] \in NumberChar
        /\ digits = SubSeq(chars, b, p - 1)

InOther(chars, l, first, toks) ==
    \E b \in 1 .. Len(chars) :
        /\ SplitTo(chars, b - 1, toks) /\ StandsAt(chars, l, b + 1)
        /\ first = chars[b] /\ chars[b] \notin Space \cup NameChar \cup Decimal

InBlock(chars, l, where, toks) ==
    \E b \in 1 .. Len(chars) : SplitTo(chars, b - 1, toks) /\ InComment(chars, l, where, b)

InTokens(where, toks) ==
    /\ where = "idle" => Between(input, lexer, toks) \/ toks = Append(TokensOf(input), "T_END")
    /\ where = "space" => Between(input, lexer, toks)
    /\ where = "name" => InName(input, lexer, text, toks)
    /\ where = "number" => InNumber(input, lexer, numstr, toks)
    /\ where = "other" => InOther(input, lexer, prev, toks)
    /\ where # "string"
    /\ where \in {"block", "stars"} => InBlock(input, lexer, where, toks)

SplitInv == width # Thrown /\ (Plain(input) => InTokens(pc, Found(tokens)))

LongInv == LexerInv /\ SplitInv

-----------------------------------------------------------------------------
LEMMA LongParts ==
    ASSUME LongInv
    PROVE  /\ LexerInv /\ width # Thrown /\ input \in Seq(Character) /\ Sound(input, lexer)
           /\ Len(input) \in Nat /\ tokens \in Seq(Returned)
           /\ Plain(input) => InTokens(pc, Found(tokens)) /\ ~Unterminated(input)
BY LenProperties DEF LongInv, SplitInv, LexerInv, Plain

LEMMA FoundAppend ==
    ASSUME NEW returned \in Seq(Returned), NEW entry \in Returned
    PROVE  /\ Found(Append(returned, entry)) = Append(Found(returned), entry.token)
           /\ Found(returned) \in Seq(AllTokens)
<1>1. /\ Len(returned) \in Nat /\ DOMAIN returned = 1 .. Len(returned)
      /\ \A n \in 1 .. Len(returned) : returned[n].token \in AllTokens
  <2>1. \A n \in 1 .. Len(returned) : returned[n] \in Returned
    BY ElementOfSeq
  <2> QED BY <2>1, LenProperties DEF Returned
<1> DEFINE longer == Append(returned, entry)
           k == Len(returned) + 1
<1>2. /\ longer \in Seq(Returned) /\ Len(longer) = k /\ DOMAIN longer = 1 .. k /\ longer[k] = entry
      /\ \A n \in 1 .. Len(returned) : longer[n] = returned[n]
  BY <1>1
<1> HIDE DEF longer
<1> DEFINE before == [n \in 1 .. Len(returned) |-> returned[n].token]
           after == [n \in 1 .. k |-> longer[n].token]
<1>3. Found(returned) = before /\ Found(longer) = after
  BY <1>1, <1>2 DEF Found
<1>4. before \in Seq(AllTokens) /\ Len(before) = Len(returned)
      /\ \A n \in 1 .. Len(returned) : before[n] = returned[n].token
  BY <1>1
<1>5. entry.token \in AllTokens
  BY DEF Returned
<1>6. after \in Seq(AllTokens) /\ Len(after) = k
      /\ \A n \in 1 .. k : after[n] = longer[n].token
  <2>1. k \in Nat /\ \A n \in 1 .. k : longer[n].token \in AllTokens
    <3>1. \A n \in 1 .. k : longer[n] \in Returned
      BY <1>2, ElementOfSeq
    <3> QED BY <1>1, <3>1 DEF Returned
  <2> HIDE DEF k
  <2> QED BY <2>1
<1> HIDE DEF before, after
<1>7. /\ Append(before, entry.token) \in Seq(AllTokens) /\ Len(Append(before, entry.token)) = k
      /\ \A n \in 1 .. Len(returned) : Append(before, entry.token)[n] = before[n]
      /\ Append(before, entry.token)[k] = entry.token
  BY <1>1, <1>4, <1>5, AppendProperties
<1>8. \A n \in 1 .. k : after[n] = Append(before, entry.token)[n]
  <2> SUFFICES ASSUME NEW n \in 1 .. k
               PROVE  after[n] = Append(before, entry.token)[n]
    OBVIOUS
  <2>1. CASE n = k
    BY <1>2, <1>6, <1>7, <2>1
  <2>2. CASE n # k
    <3>1. n \in 1 .. Len(returned)
      BY <1>1, <2>2
    <3> QED BY <1>2, <1>4, <1>6, <1>7, <3>1
  <2> QED BY <2>1, <2>2
<1>9. after = Append(before, entry.token)
  BY <1>6, <1>7, <1>8, SeqEqual
<1> QED BY <1>3, <1>4, <1>9 DEF longer

\* One character more of a text.
LEMMA OneMore ==
    ASSUME NEW chars \in Seq(Character), NEW b \in Nat \ {0}, NEW p \in Nat,
           b <= p + 1, p + 1 <= Len(chars)
    PROVE  Append(SubSeq(chars, b, p), chars[p + 1]) = SubSeq(chars, b, p + 1)
<1> DEFINE part == SubSeq(chars, b, p)
           whole == SubSeq(chars, b, p + 1)
           k == p + 1 - b
           c == chars[p + 1]
<1>1. Len(chars) \in Nat /\ k \in Nat /\ c \in Character
  <2>1. Len(chars) \in Nat
    BY LenProperties
  <2>2. p + 1 \in 1 .. Len(chars)
    BY <2>1
  <2> QED BY <2>1, <2>2, ElementOfSeq
<1>2. part \in Seq(Character) /\ Len(part) = k /\ \A n \in 1 .. k : part[n] = chars[b + n - 1]
  BY <1>1
<1>3. whole \in Seq(Character) /\ Len(whole) = k + 1
      /\ \A n \in 1 .. k + 1 : whole[n] = chars[b + n - 1]
  BY <1>1
<1> HIDE DEF part, whole
<1>4. /\ Append(part, c) \in Seq(Character) /\ Len(Append(part, c)) = k + 1
      /\ \A n \in 1 .. k : Append(part, c)[n] = part[n]
      /\ Append(part, c)[k + 1] = c
  BY <1>1, <1>2, AppendProperties
<1>5. \A n \in 1 .. k + 1 : Append(part, c)[n] = whole[n]
  <2> SUFFICES ASSUME NEW n \in 1 .. k + 1
               PROVE  Append(part, c)[n] = whole[n]
    OBVIOUS
  <2>1. CASE n = k + 1
    <3>1. b + n - 1 = p + 1
      BY <2>1
    <3> QED BY <1>3, <1>4, <2>1, <3>1
  <2>2. CASE n # k + 1
    <3>1. n \in 1 .. k
      BY <1>1, <2>2
    <3> QED BY <1>2, <1>3, <1>4, <3>1
  <2> QED BY <2>1, <2>2
<1>6. Append(part, c) = whole
  BY <1>3, <1>4, <1>5, SeqEqual
<1> QED BY <1>6 DEF part, whole

\* A line behind its first character.
LEMMA LineStands ==
    ASSUME NEW chars \in Seq(Character), NEW l, Sound(chars, l), NEW p \in 1 .. Len(chars),
           StandsAt(chars, l, p), l.rest # <<>>, l.rest[1] # "\n"
    PROVE  LET a == advance(GetLine(l))
           IN  /\ Sound(chars, a)
               /\ \E q \in p + 1 .. Len(chars) + 1 :
                    /\ StandsAt(chars, a, q)
                    /\ q = Len(chars) + 1 \/ chars[q] = "\n"
                    /\ \A i \in p + 1 .. q - 1 : chars[i] # "\n"
<1> DEFINE g == GetLine(l)
           a == advance(g)
<1>1. Len(chars) \in Nat /\ l.last # EOF /\ Taken(chars, l) = p
      /\ Len(l.rest) = Len(chars) - p /\ l \in Lexers /\ l.fail = FALSE
  <2>1. Len(chars) \in Nat
    BY LenProperties
  <2>2. l.last # EOF /\ Taken(chars, l) = p
    BY <2>1, StandsWhere
  <2> QED BY <2>1, <2>2, TakenType DEF Sound
<1>2. PICK n \in 1 .. Len(l.rest) :
        /\ \A m \in 1 .. n : l.rest[m] # "\n"
        /\ n = Len(l.rest) \/ l.rest[n + 1] = "\n"
        /\ g = [l EXCEPT !.rest = SubSeq(l.rest, n + 1, Len(l.rest))]
  BY <1>1, GetLineTakes
<1>3. /\ Sound(chars, g) /\ g.last = l.last /\ Taken(chars, g) = p + n
      /\ \A i \in p + 1 .. p + n : chars[i] # "\n"
  <2> DEFINE taken == [l EXCEPT !.rest = SubSeq(l.rest, n + 1, Len(l.rest))]
  <2>1. /\ Sound(chars, taken) /\ taken.last = l.last
        /\ Taken(chars, taken) = p + n
        /\ \A i \in p + 1 .. p + n : chars[i] # "\n"
    BY <1>1, <1>2, LineTaken
  <2> HIDE DEF taken, g
  <2>2. g = taken
    BY <1>2 DEF g, taken
  <2> QED BY <2>1, <2>2
<1> HIDE DEF g
<1> DEFINE q == p + n + 1
<1>4. p + n \in 1 .. Len(chars) /\ q \in p + 1 .. Len(chars) + 1 /\ q - 1 = p + n /\ p + n + 1 = q
  BY <1>1
<1>5. Sound(chars, a) /\ (TookOne(chars, g, a) \/ FoundEnd(g, a))
  BY <1>1, <1>3, Advances
<1>6. \A i \in p + 1 .. q - 1 : chars[i] # "\n"
  BY <1>3, <1>4
<1> HIDE DEF a
<1>7. CASE TookOne(chars, g, a)
  <2>1. Taken(chars, a) = q /\ q \in 1 .. Len(chars) /\ a.last = chars[q]
    BY <1>3, <1>7 DEF TookOne
  <2>2. n + 1 \in 1 .. Len(l.rest) /\ p + (n + 1) = q /\ n # Len(l.rest)
    BY <1>1, <2>1
  <2>3. l.rest[n + 1] = chars[p + (n + 1)]
    BY <1>1, <2>2 DEF Sound
  <2>4. chars[q] = "\n"
    BY <1>2, <2>2, <2>3
  <2>5. StandsAt(chars, a, q)
    BY <2>1 DEF StandsAt
  <2> HIDE DEF q
  <2> QED BY <1>4, <1>5, <1>6, <2>4, <2>5 DEF a, g
<1>8. CASE FoundEnd(g, a)
  <2>1. Len(g.rest) = 0 /\ a.last = EOF
    BY <1>8 DEF FoundEnd
  <2>2. Len(g.rest) = Len(chars) - (p + n)
    BY <1>3, TakenType
  <2>3. q = Len(chars) + 1
    BY <1>1, <1>4, <2>1, <2>2
  <2>4. StandsAt(chars, a, q)
    BY <2>1, <2>3 DEF StandsAt
  <2> HIDE DEF q
  <2> QED BY <1>4, <1>5, <1>6, <2>3, <2>4 DEF a, g
<1> QED BY <1>5, <1>7, <1>8

-----------------------------------------------------------------------------
(***************************************************************************)
(* A piece more of the text.                                               *)
(***************************************************************************)
LEMMA SplitGap ==
    ASSUME NEW chars \in Seq(Character), ~Unterminated(chars), NEW b \in 1 .. Len(chars), NEW toks,
           SplitTo(chars, b - 1, toks), NEW e, Piece(chars, b) = Gap(e)
    PROVE  SplitTo(chars, e, toks) /\ e \in b .. Len(chars)
<1>1. Len(chars) \in Nat /\ (b - 1) + 1 = b
  BY LenProperties
<1>2. Gap(e).end = e /\ Gap(e).tokens = <<>>
  BY DEF Gap
<1>3. SplitTo(chars, Piece(chars, b).end, toks \o Piece(chars, b).tokens)
  BY <1>1, SplitGoesOn
<1>4. toks \in Seq(PieceTokens)
  BY SplitType
<1>5. toks \o <<>> = toks
  BY <1>4
<1>6. Piece(chars, b).end \in b .. Len(chars)
  BY PieceType
<1> QED BY <1>2, <1>3, <1>5, <1>6

LEMMA SplitLone ==
    ASSUME NEW chars \in Seq(Character), ~Unterminated(chars), NEW b \in 1 .. Len(chars), NEW toks,
           SplitTo(chars, b - 1, toks), NEW token, Piece(chars, b).tokens = <<token>>
    PROVE  /\ SplitTo(chars, Piece(chars, b).end, Append(toks, token))
           /\ Piece(chars, b).end \in b .. Len(chars)
<1>1. Len(chars) \in Nat /\ (b - 1) + 1 = b
  BY LenProperties
<1>2. SplitTo(chars, Piece(chars, b).end, toks \o Piece(chars, b).tokens)
  BY <1>1, SplitGoesOn
<1>3. toks \in Seq(PieceTokens)
  BY SplitType
<1>4. Piece(chars, b).end \in b .. Len(chars) /\ Piece(chars, b).tokens \in Seq(PieceTokens)
  BY PieceType
<1>5. token \in PieceTokens
  <2> DEFINE one == <<token>>
  <2>1. one \in Seq(PieceTokens) /\ Len(one) = 1 /\ one[1] = token
    BY <1>4
  <2> HIDE DEF one
  <2>2. 1 \in 1 .. Len(one)
    BY <2>1
  <2>3. one[1] \in PieceTokens
    BY <2>1, <2>2, ElementOfSeq
  <2> QED BY <2>1, <2>3
<1>6. Append(toks, token) = toks \o <<token>>
  BY <1>3, <1>5, AppendIsConcat
<1> QED BY <1>2, <1>4, <1>6

\* The first character of a text.
LEMMA FirstStands ==
    ASSUME NEW chars \in Seq(Character), NEW l, Sound(chars, l), l.last # EOF, Taken(chars, l) = 0
    PROVE  StandsAt(chars, advance(l), 1) /\ Sound(chars, advance(l))
<1> DEFINE a == advance(l)
<1>1. Sound(chars, a) /\ (TookOne(chars, l, a) \/ FoundEnd(l, a))
  BY Advances
<1> HIDE DEF a
<1>2. CASE TookOne(chars, l, a)
  <2>1. Taken(chars, a) = 1 /\ 1 \in 1 .. Len(chars) /\ a.last = chars[1]
    BY <1>2 DEF TookOne
  <2>2. StandsAt(chars, a, 1)
    BY <2>1 DEF StandsAt
  <2> QED BY <1>1, <2>2 DEF a
<1>3. CASE FoundEnd(l, a)
  <2>1. Len(l.rest) = 0 /\ a.last = EOF
    BY <1>3 DEF FoundEnd
  <2>2. Len(l.rest) = Len(chars) - Taken(chars, l) /\ Len(chars) \in Nat
    BY TakenType
  <2>3. 1 = Len(chars) + 1
    BY <2>1, <2>2
  <2>4. StandsAt(chars, a, 1)
    BY <2>1, <2>3 DEF StandsAt
  <2> QED BY <1>1, <2>4 DEF a
<1> QED BY <1>1, <1>2, <1>3

LEMMA AppendedIn ==
    ASSUME NEW S, NEW s \in Seq(S), NEW e, Append(s, e) \in Seq(S)
    PROVE  e \in S
<1>1. Len(s) \in Nat /\ s \in Seq(S \cup {e}) /\ e \in S \cup {e}
  BY LenProperties
<1> DEFINE longer == Append(s, e)
<1>2. Len(longer) = Len(s) + 1 /\ longer[Len(s) + 1] = e
  BY <1>1, AppendProperties
<1>3. longer \in Seq(S)
  OBVIOUS
<1> HIDE DEF longer
<1> QED BY <1>1, <1>2, <1>3, ElementOfSeq

(***************************************************************************)
(* The two ends of a step again: next() returns, or goes on.               *)
(***************************************************************************)
LEMMA FoundReturned ==
    ASSUME LongInv, LexerInv', NEW l, NEW token, Return(l, token)
    PROVE  /\ lexer' = l /\ pc' = "idle" /\ Found(tokens') = Append(Found(tokens), token)
           /\ Found(tokens) \in Seq(AllTokens)
<1> DEFINE entry == [token |-> token, last |-> l.last]
<1>1. lexer' = l /\ pc' = "idle" /\ tokens' = Append(tokens, entry)
  BY DEF Return
<1>2. tokens \in Seq(Returned) /\ tokens' \in Seq(Returned)
  BY LongParts DEF LexerInv
<1>3. entry.token = token
  OBVIOUS
<1> HIDE DEF entry
<1>4. entry \in Returned
  BY <1>1, <1>2, AppendedIn
<1> QED BY <1>1, <1>2, <1>3, <1>4, FoundAppend

LEMMA SplitReturns ==
    ASSUME LongInv, LexerInv', input' = input, width' # Thrown, NEW l, NEW token, Return(l, token),
           Plain(input) =>
             \E p \in 1 .. Len(input) + 1 :
               StandsAt(input, l, p) /\ SplitTo(input, p - 1, Append(Found(tokens), token))
    PROVE  SplitInv'
<1>1. lexer' = l /\ pc' = "idle" /\ Found(tokens') = Append(Found(tokens), token)
  BY FoundReturned
<1>2. Plain(input) => Between(input', lexer', Found(tokens'))
  BY <1>1 DEF Between
<1> QED BY <1>1, <1>2 DEF SplitInv, InTokens

LEMMA SplitGoesToSpace ==
    ASSUME LongInv, input' = input, width' # Thrown, NEW l, GoOn(l, "space"),
           Plain(input) => Between(input, l, Found(tokens))
    PROVE  SplitInv'
<1>1. lexer' = l /\ pc' = "space" /\ tokens' = tokens
  BY DEF GoOn
<1>2. Plain(input) => Between(input', lexer', Found(tokens'))
  BY <1>1
<1> QED BY <1>1, <1>2 DEF SplitInv, InTokens

\* Where a token begins.
LEMMA PieceBegins ==
    ASSUME LongInv, Plain(input), pc = "space", lexer.last \notin Space, lexer.last # EOF
    PROVE  \E b \in 1 .. Len(input) :
             /\ SplitTo(input, b - 1, Found(tokens)) /\ StandsAt(input, lexer, b)
             /\ lexer.last = input[b]
<1>1. Between(input, lexer, Found(tokens))
  BY LongParts DEF InTokens
<1>2. lexer.last # " "
  BY DEF Space
<1>3. PICK b \in 1 .. Len(input) + 1 :
        StandsAt(input, lexer, b) /\ SplitTo(input, b - 1, Found(tokens))
  BY <1>1, <1>2 DEF Between
<1>4. b \in 1 .. Len(input) /\ lexer.last = input[b]
  BY <1>3, LongParts, StandsWhere
<1> QED BY <1>3, <1>4

-----------------------------------------------------------------------------
LEMMA TokensOfType ==
    ASSUME NEW chars \in Seq(Character), ~Unterminated(chars)
    PROVE  TokensOf(chars) \in Seq(PieceTokens)
<1>1. Len(chars) \in 0 .. Len(chars)
  BY LenProperties
<1>2. Pieces(chars)[Len(chars)] \in Fronts(chars)
  BY <1>1, PiecesRecursion
<1> QED BY <1>2 DEF Fronts, TokensOf

LEMMA FoundShape ==
    ASSUME NEW returned \in Seq(Returned)
    PROVE  /\ Len(Found(returned)) = Len(returned) /\ Len(returned) \in Nat
           /\ \A n \in 1 .. Len(returned) : Found(returned)[n] = returned[n].token
<1>1. Len(returned) \in Nat /\ DOMAIN returned = 1 .. Len(returned)
  BY LenProperties
<1> DEFINE found == [n \in 1 .. Len(returned) |-> returned[n].token]
<1>2. Found(returned) = found
  BY <1>1 DEF Found
<1>3. Len(found) = Len(returned) /\ \A n \in 1 .. Len(returned) : found[n] = returned[n].token
  BY <1>1
<1> QED BY <1>1, <1>2, <1>3

\* The end is what was returned last, if that is all.
LEMMA EndIsLast ==
    ASSUME NEW chars \in Seq(Character), ~Unterminated(chars), NEW returned \in Seq(Returned),
           Found(returned) = Append(TokensOf(chars), "T_END")
    PROVE  returned # <<>> /\ Last(returned).token = "T_END"
<1> DEFINE toks == TokensOf(chars)
           S == PieceTokens \cup {"T_END"}
<1>1. toks \in Seq(S) /\ "T_END" \in S
  <2>1. toks \in Seq(PieceTokens)
    BY TokensOfType
  <2> HIDE DEF toks
  <2> QED BY <2>1
<1> HIDE DEF S, toks
<1>2. /\ Len(Append(toks, "T_END")) = Len(toks) + 1 /\ Len(toks) \in Nat
      /\ Append(toks, "T_END")[Len(toks) + 1] = "T_END"
  BY <1>1, AppendProperties, LenProperties
<1>3. Len(returned) = Len(toks) + 1 /\ Found(returned)[Len(toks) + 1] = "T_END"
  BY <1>2, FoundShape DEF toks
<1>4. returned[Len(returned)].token = "T_END" /\ Len(returned) # 0
  BY <1>2, <1>3, FoundShape
<1>5. returned # <<>>
  BY <1>4
<1> QED BY <1>4, <1>5 DEF Last

LEMMA CallSplits == ASSUME LongInv, LexerInv', Call PROVE SplitInv'
<1>1. input' = input /\ width' = width /\ pc = "idle" /\ ~Ended /\ GoOn(lexer, "space")
  BY DEF Call, literals
<1>2. ASSUME Plain(input)
      PROVE  Between(input, lexer, Found(tokens))
  <2>1. Found(tokens) # Append(TokensOf(input), "T_END")
    <3> SUFFICES ASSUME Found(tokens) = Append(TokensOf(input), "T_END") PROVE FALSE
      OBVIOUS
    <3>1. tokens # <<>> /\ Last(tokens).token = "T_END"
      BY <1>2, LongParts, EndIsLast
    <3> QED BY <1>1, <3>1 DEF Ended
  <2> QED BY <1>1, <1>2, <2>1, LongParts DEF InTokens
<1> QED BY <1>1, <1>2, LongParts, SplitGoesToSpace

LEMMA SkipSpaceSplits == ASSUME LongInv, LexerInv', SkipSpace PROVE SplitInv'
<1> DEFINE a == advance(lexer)
<1>1. /\ input' = input /\ width' = width /\ pc = "space" /\ lexer.last \in Space
      /\ GoOn(a, "space")
  BY DEF SkipSpace, literals
<1>2. ASSUME Plain(input)
      PROVE  Between(input, a, Found(tokens))
  <2>1. Between(input, lexer, Found(tokens))
    BY <1>1, <1>2, LongParts DEF InTokens
  <2>2. CASE lexer.last = " " /\ Taken(input, lexer) = 0 /\ Found(tokens) = <<>>
    <3>1. StandsAt(input, a, 1)
      <4>1. lexer.last # EOF
        BY <2>2 DEF EOF
      <4> QED BY <2>2, <4>1, LongParts, FirstStands
    <3>2. SplitTo(input, 1 - 1, Found(tokens))
      <4>1. SplitTo(input, 0, <<>>) /\ 1 - 1 = 0
        BY <1>2, LongParts, SplitBegins
      <4> QED BY <2>2, <4>1
    <3>3. 1 \in 1 .. Len(input) + 1
      BY LongParts
    <3> QED BY <3>1, <3>2, <3>3 DEF Between
  <2>3. CASE \E p \in 1 .. Len(input) + 1 :
               StandsAt(input, lexer, p) /\ SplitTo(input, p - 1, Found(tokens))
    <3>1. PICK p \in 1 .. Len(input) + 1 :
            StandsAt(input, lexer, p) /\ SplitTo(input, p - 1, Found(tokens))
      BY <2>3
    <3>2. p \in 1 .. Len(input) /\ input[p] \in Space
      BY <1>1, <3>1, CharacterKinds, LongParts, StandsWhere
    <3>3. Piece(input, p) = Gap(p)
      BY <3>2, LongParts, PieceCases
    <3>4. SplitTo(input, p, Found(tokens))
      BY <1>2, <3>1, <3>2, <3>3, LongParts, SplitGap
    <3>5. StandsAt(input, a, p + 1)
      BY <3>1, <3>2, LongParts, AdvanceStands
    <3>6. p + 1 \in 1 .. Len(input) + 1 /\ (p + 1) - 1 = p
      BY <3>2, LongParts
    <3> QED BY <3>4, <3>5, <3>6 DEF Between
  <2> QED BY <2>1, <2>2, <2>3 DEF Between
<1> QED BY <1>1, <1>2, LongParts, SplitGoesToSpace

LEMMA EndOfInputSplits == ASSUME LongInv, LexerInv', EndOfInput PROVE SplitInv'
<1>1. /\ input' = input /\ width' = width /\ pc = "space" /\ lexer.last = EOF
      /\ Return(lexer, "T_END")
  BY DEF EndOfInput, literals
<1>2. pc' = "idle" /\ Found(tokens') = Append(Found(tokens), "T_END")
  BY <1>1, FoundReturned
<1>3. ASSUME Plain(input)
      PROVE  TokensOf(input) = Found(tokens)
  <2>1. Between(input, lexer, Found(tokens)) /\ EOF # " "
    BY <1>1, <1>3, LongParts DEF InTokens, EOF
  <2>2. PICK p \in 1 .. Len(input) + 1 :
          StandsAt(input, lexer, p) /\ SplitTo(input, p - 1, Found(tokens))
    BY <1>1, <2>1 DEF Between
  <2>3. p = Len(input) + 1
    BY <1>1, <2>2, LongParts, StandsWhere
  <2>4. p - 1 = Len(input)
    BY <2>3, LongParts
  <2>5. SplitTo(input, Len(input), Found(tokens))
    BY <2>2, <2>4
  <2> QED BY <1>3, <2>5, LongParts, SplitEnds
<1>4. width' # Thrown
  BY <1>1, LongParts
<1>5. Plain(input') => Found(tokens') = Append(TokensOf(input'), "T_END")
  BY <1>1, <1>2, <1>3
<1> QED BY <1>2, <1>4, <1>5 DEF SplitInv, InTokens

-----------------------------------------------------------------------------
(***************************************************************************)
(* Names and numbers.                                                      *)
(***************************************************************************)
LEMMA BeginNameSplits == ASSUME LongInv, LexerInv', BeginName PROVE SplitInv'
<1>1. /\ input' = input /\ width' = width /\ pc = "space" /\ lexer.last \in NameChar \ Decimal
      /\ text' = <<lexer.last>> /\ lexer' = lexer /\ pc' = "name" /\ tokens' = tokens
  BY DEF BeginName, GoOn
<1>2. ASSUME Plain(input)
      PROVE  InName(input, lexer, text', Found(tokens))
  <2>1. PICK b \in 1 .. Len(input) :
          /\ SplitTo(input, b - 1, Found(tokens)) /\ StandsAt(input, lexer, b)
          /\ lexer.last = input[b]
    BY <1>1, <1>2, CharacterKinds, PieceBegins
  <2>2. Len(input) \in Nat /\ b \in b .. Len(input) /\ b .. b = {b}
    BY LongParts
  <2>3. text' = SubSeq(input, b, b)
    <3> DEFINE part == SubSeq(input, b, b)
    <3>1. part \in Seq(Character) /\ Len(part) = 1 /\ part[1] = input[b]
      BY <2>2, LongParts
    <3> HIDE DEF part
    <3>2. part = <<input[b]>>
      BY <3>1
    <3> QED BY <1>1, <2>1, <3>2 DEF part
  <2>4. \A i \in b .. b : input[i] \in NameChar
    BY <1>1, <2>1, <2>2
  <2> QED BY <1>1, <2>1, <2>2, <2>3, <2>4 DEF InName
<1>3. width' # Thrown
  BY <1>1, LongParts
<1>4. Plain(input') => InName(input', lexer', text', Found(tokens'))
  BY <1>1, <1>2
<1> QED BY <1>1, <1>3, <1>4 DEF SplitInv, InTokens

LEMMA ReadNameSplits == ASSUME LongInv, LexerInv', ReadName PROVE SplitInv'
<1> DEFINE l == [Get(lexer) EXCEPT !.col = @ + 1]
<1>1. /\ input' = input /\ width' = width /\ pc = "name"
      /\ \/ l.last \in NameChar /\ text' = Append(text, l.last) /\ GoOn(l, "name")
         \/ l.last \notin NameChar /\ Return(l, NameToken(text))
  BY DEF ReadName
<1>2. lexer.last # EOF
  BY <1>1, InvParts, NameCharIsNoEnd, LongParts DEF Positioned
<1>3. Sound(input, l) /\ (TookOne(input, lexer, l) \/ FoundEnd(lexer, l))
  BY <1>2, LongParts, NameGets
<1> HIDE DEF l
<1>4. width' # Thrown
  BY <1>1, LongParts
<1>5. ASSUME Plain(input)
      PROVE  \E b, p \in 1 .. Len(input) :
               /\ b <= p /\ SplitTo(input, b - 1, Found(tokens)) /\ StandsAt(input, l, p + 1)
               /\ input[b] \in NameChar \ Decimal /\ \A i \in b .. p : input[i] \in NameChar
               /\ text = SubSeq(input, b, p)
               /\ l.last # EOF <=> p + 1 <= Len(input)
               /\ l.last # EOF => l.last = input[p + 1]
  <2>1. InName(input, lexer, text, Found(tokens))
    BY <1>1, <1>5, LongParts DEF InTokens
  <2>2. PICK b \in 1 .. Len(input), p \in 1 .. Len(input) :
          /\ b <= p /\ SplitTo(input, b - 1, Found(tokens)) /\ StandsAt(input, lexer, p)
          /\ input[b] \in NameChar \ Decimal /\ \A i \in b .. p : input[i] \in NameChar
          /\ text = SubSeq(input, b, p)
    BY <2>1 DEF InName
  <2>3. StandsAt(input, l, p + 1)
    BY <1>2, <1>3, <2>2, LongParts, OneFurther
  <2>4. Len(input) \in Nat /\ p \in Nat /\ p + 1 \in 1 .. Len(input) + 1
    BY LongParts
  <2>5. l.last # EOF <=> p + 1 <= Len(input)
    BY <2>3, <2>4, LongParts, StandsWhere
  <2>6. l.last # EOF => l.last = input[p + 1]
    BY <2>3, <2>4, <2>5, LongParts, StandsWhere
  <2> QED BY <2>2, <2>3, <2>5, <2>6
<1>6. CASE l.last \in NameChar /\ text' = Append(text, l.last) /\ GoOn(l, "name")
  <2>1. lexer' = l /\ pc' = "name" /\ tokens' = tokens
    BY <1>6 DEF GoOn
  <2>2. ASSUME Plain(input)
        PROVE  InName(input, l, text', Found(tokens))
    <3>1. PICK b \in 1 .. Len(input), p \in 1 .. Len(input) :
            /\ b <= p /\ SplitTo(input, b - 1, Found(tokens)) /\ StandsAt(input, l, p + 1)
            /\ input[b] \in NameChar \ Decimal /\ \A i \in b .. p : input[i] \in NameChar
            /\ text = SubSeq(input, b, p)
            /\ l.last # EOF <=> p + 1 <= Len(input)
            /\ l.last # EOF => l.last = input[p + 1]
      BY <1>5, <2>2
    <3>2. p + 1 <= Len(input) /\ l.last = input[p + 1]
      BY <1>6, <3>1, NameCharIsNoEnd
    <3>3. text' = SubSeq(input, b, p + 1)
      <4>1. Append(SubSeq(input, b, p), input[p + 1]) = SubSeq(input, b, p + 1)
        <5>1. b \in Nat \ {0} /\ p \in Nat /\ b <= p + 1
          BY <3>1, LongParts
        <5> QED BY <3>2, <5>1, LongParts, OneMore
      <4> QED BY <1>6, <3>1, <3>2, <4>1
    <3>4. /\ p + 1 \in 1 .. Len(input) /\ b <= p + 1
          /\ \A i \in b .. p + 1 : i \in b .. p \/ i = p + 1
      BY <3>1, <3>2, LongParts
    <3>5. \A i \in b .. p + 1 : input[i] \in NameChar
      BY <1>6, <3>1, <3>2, <3>4
    <3> QED BY <3>1, <3>3, <3>4, <3>5 DEF InName
  <2>3. Plain(input') => InName(input', lexer', text', Found(tokens'))
    BY <1>1, <2>1, <2>2
  <2> QED BY <1>4, <2>1, <2>3 DEF SplitInv, InTokens
<1>7. CASE l.last \notin NameChar /\ Return(l, NameToken(text))
  <2>1. ASSUME Plain(input)
        PROVE  \E p \in 1 .. Len(input) + 1 :
                 /\ StandsAt(input, l, p)
                 /\ SplitTo(input, p - 1, Append(Found(tokens), NameToken(text)))
    <3>1. PICK b \in 1 .. Len(input), p \in 1 .. Len(input) :
            /\ b <= p /\ SplitTo(input, b - 1, Found(tokens)) /\ StandsAt(input, l, p + 1)
            /\ input[b] \in NameChar \ Decimal /\ \A i \in b .. p : input[i] \in NameChar
            /\ text = SubSeq(input, b, p)
            /\ l.last # EOF <=> p + 1 <= Len(input)
            /\ l.last # EOF => l.last = input[p + 1]
      BY <1>5, <2>1
    <3>2. p = Len(input) \/ input[p + 1] \notin NameChar
      BY <1>7, <3>1, LongParts
    <3>3. RunEnd(input, b, NameChar) = p
      BY <3>1, <3>2, LongParts, RunEndIs
    <3>4. Piece(input, b) = Lone(NameToken(text), p)
      BY <3>1, <3>3, LongParts, PieceCases
    <3>5. SplitTo(input, p, Append(Found(tokens), NameToken(text)))
      <4>1. Piece(input, b).end = p /\ Piece(input, b).tokens = <<NameToken(text)>>
        BY <3>4, LoneFields
      <4> QED BY <2>1, <3>1, <4>1, LongParts, SplitLone
    <3>6. p + 1 \in 1 .. Len(input) + 1 /\ (p + 1) - 1 = p
      BY LongParts
    <3> QED BY <3>1, <3>5, <3>6
  <2> QED BY <1>1, <1>4, <1>7, <2>1, SplitReturns
<1> QED BY <1>1, <1>6, <1>7

LEMMA BeginNumberSplits == ASSUME LongInv, LexerInv', BeginNumber PROVE SplitInv'
<1>1. /\ input' = input /\ width' = width /\ pc = "space" /\ lexer.last \in Decimal
      /\ numstr' = <<>> /\ lexer' = lexer /\ pc' = "number" /\ tokens' = tokens
  BY DEF BeginNumber, GoOn, literals
<1>2. ASSUME Plain(input)
      PROVE  InNumber(input, lexer, numstr', Found(tokens))
  <2>1. PICK b \in 1 .. Len(input) :
          /\ SplitTo(input, b - 1, Found(tokens)) /\ StandsAt(input, lexer, b)
          /\ lexer.last = input[b]
    BY <1>1, <1>2, CharacterKinds, PieceBegins
  <2>2. Len(input) \in Nat /\ b \in b .. Len(input) /\ b .. b = {b} /\ b - 1 < b
    BY LongParts
  <2>3. numstr' = SubSeq(input, b, b - 1)
    <3>1. SubSeq(input, b, b - 1) = <<>>
      BY <2>2, LongParts
    <3> QED BY <1>1, <3>1
  <2>4. \A i \in b .. b : input[i] \in NumberChar
    BY <1>1, <2>1, <2>2, CharacterKinds
  <2> QED BY <1>1, <2>1, <2>2, <2>3, <2>4 DEF InNumber
<1>3. width' # Thrown
  BY <1>1, LongParts
<1>4. Plain(input') => InNumber(input', lexer', numstr', Found(tokens'))
  BY <1>1, <1>2
<1> QED BY <1>1, <1>3, <1>4 DEF SplitInv, InTokens

LEMMA ReadNumberSplits == ASSUME LongInv, LexerInv', ReadNumber PROVE SplitInv'
<1> DEFINE l == advance(lexer)
           number == read_number(numstr', value, width)
<1>1. /\ input' = input /\ pc = "number" /\ numstr' = Append(numstr, lexer.last)
      /\ \/ l.last \in NumberChar /\ GoOn(l, "number") /\ width' = width
         \/ /\ l.last \notin NumberChar /\ Return(l, number.token)
            /\ width' = number.width
  BY DEF ReadNumber
<1>2. /\ number.token = read_number(numstr', 0, 32).token
      /\ number.width # Thrown
  BY LongParts, NumberAlone
<1> HIDE DEF l, number
<1>3. width' # Thrown
  BY <1>1, <1>2, LongParts
<1>4. ASSUME Plain(input)
      PROVE  \E b, p \in 1 .. Len(input) :
               /\ b <= p /\ SplitTo(input, b - 1, Found(tokens)) /\ StandsAt(input, l, p + 1)
               /\ input[b] \in Decimal /\ \A i \in b .. p : input[i] \in NumberChar
               /\ numstr' = SubSeq(input, b, p)
               /\ l.last # EOF <=> p + 1 <= Len(input)
               /\ l.last # EOF => l.last = input[p + 1]
  <2>1. InNumber(input, lexer, numstr, Found(tokens))
    BY <1>1, <1>4, LongParts DEF InTokens
  <2>2. PICK b \in 1 .. Len(input), p \in 1 .. Len(input) :
          /\ b <= p /\ SplitTo(input, b - 1, Found(tokens)) /\ StandsAt(input, lexer, p)
          /\ input[b] \in Decimal /\ \A i \in b .. p : input[i] \in NumberChar
          /\ numstr = SubSeq(input, b, p - 1)
    BY <2>1 DEF InNumber
  <2>3. Len(input) \in Nat /\ p \in 1 .. Len(input) /\ p + 1 \in 1 .. Len(input) + 1
    BY LongParts
  <2>4. StandsAt(input, l, p + 1)
    BY <2>2, <2>3, LongParts, AdvanceStands DEF l
  <2>5. l.last # EOF <=> p + 1 <= Len(input)
    BY <2>3, <2>4, LongParts, StandsWhere
  <2>6. l.last # EOF => l.last = input[p + 1]
    BY <2>3, <2>4, <2>5, LongParts, StandsWhere
  <2>7. numstr' = SubSeq(input, b, p)
    <3>1. lexer.last = input[p]
      BY <2>2, <2>3, LongParts, StandsWhere
    <3>2. p - 1 \in Nat /\ (p - 1) + 1 = p /\ b <= (p - 1) + 1 /\ b \in Nat \ {0}
          /\ (p - 1) + 1 <= Len(input)
      BY <2>2, <2>3
    <3>3. Append(SubSeq(input, b, p - 1), input[p]) = SubSeq(input, b, p)
      BY <3>2, LongParts, OneMore
    <3> QED BY <1>1, <2>2, <3>1, <3>3
  <2> QED BY <2>2, <2>4, <2>5, <2>6, <2>7
<1>5. CASE l.last \in NumberChar /\ GoOn(l, "number")
  <2>1. lexer' = l /\ pc' = "number" /\ tokens' = tokens
    BY <1>5 DEF GoOn
  <2>2. ASSUME Plain(input)
        PROVE  InNumber(input, l, numstr', Found(tokens))
    <3>1. PICK b \in 1 .. Len(input), p \in 1 .. Len(input) :
            /\ b <= p /\ SplitTo(input, b - 1, Found(tokens)) /\ StandsAt(input, l, p + 1)
            /\ input[b] \in Decimal /\ \A i \in b .. p : input[i] \in NumberChar
            /\ numstr' = SubSeq(input, b, p)
            /\ l.last # EOF <=> p + 1 <= Len(input)
            /\ l.last # EOF => l.last = input[p + 1]
      BY <1>4, <2>2
    <3>2. p + 1 <= Len(input) /\ l.last = input[p + 1]
      BY <1>5, <3>1, CharacterKinds
    <3>3. /\ p + 1 \in 1 .. Len(input) /\ b <= p + 1 /\ (p + 1) - 1 = p
          /\ \A i \in b .. p + 1 : i \in b .. p \/ i = p + 1
      BY <3>1, <3>2, LongParts
    <3>4. \A i \in b .. p + 1 : input[i] \in NumberChar
      BY <1>5, <3>1, <3>2, <3>3
    <3>5. numstr' = SubSeq(input, b, (p + 1) - 1)
      BY <3>1, <3>3
    <3> QED BY <3>1, <3>3, <3>4, <3>5 DEF InNumber
  <2>3. Plain(input') => InNumber(input', lexer', numstr', Found(tokens'))
    BY <1>1, <2>1, <2>2
  <2> QED BY <1>3, <2>1, <2>3 DEF SplitInv, InTokens
<1>6. CASE l.last \notin NumberChar /\ Return(l, number.token)
  <2>1. ASSUME Plain(input)
        PROVE  \E p \in 1 .. Len(input) + 1 :
                 /\ StandsAt(input, l, p)
                 /\ SplitTo(input, p - 1, Append(Found(tokens), number.token))
    <3>1. PICK b \in 1 .. Len(input), p \in 1 .. Len(input) :
            /\ b <= p /\ SplitTo(input, b - 1, Found(tokens)) /\ StandsAt(input, l, p + 1)
            /\ input[b] \in Decimal /\ \A i \in b .. p : input[i] \in NumberChar
            /\ numstr' = SubSeq(input, b, p)
            /\ l.last # EOF <=> p + 1 <= Len(input)
            /\ l.last # EOF => l.last = input[p + 1]
      BY <1>4, <2>1
    <3>2. p = Len(input) \/ input[p + 1] \notin NumberChar
      BY <1>6, <3>1, LongParts
    <3>3. RunEnd(input, b, NumberChar) = p
      BY <3>1, <3>2, LongParts, RunEndIs
    <3>4. Piece(input, b) = Lone(number.token, p)
      BY <1>2, <3>1, <3>3, LongParts, PieceCases
    <3>5. SplitTo(input, p, Append(Found(tokens), number.token))
      <4>1. Piece(input, b).end = p /\ Piece(input, b).tokens = <<number.token>>
        BY <3>4, LoneFields
      <4> QED BY <2>1, <3>1, <4>1, LongParts, SplitLone
    <3>6. p + 1 \in 1 .. Len(input) + 1 /\ (p + 1) - 1 = p
      BY LongParts
    <3> QED BY <3>1, <3>5, <3>6
  <2> QED BY <1>1, <1>3, <1>6, <2>1, SplitReturns
<1> QED BY <1>1, <1>5, <1>6

-----------------------------------------------------------------------------
(***************************************************************************)
(* Operators, and what a text without strings and locations does not have. *)
(***************************************************************************)
LEMMA BeginOtherSplits == ASSUME LongInv, LexerInv', BeginOther PROVE SplitInv'
<1> DEFINE a == advance(lexer)
<1>1. /\ input' = input /\ width' = width /\ pc = "space"
      /\ lexer.last \notin Space \cup NameChar \cup Decimal /\ lexer.last # EOF
      /\ prev' = lexer.last /\ lexer' = a /\ pc' = "other" /\ tokens' = tokens
  BY DEF BeginOther, GoOn, literals
<1> HIDE DEF a
<1>2. ASSUME Plain(input)
      PROVE  InOther(input, a, prev', Found(tokens))
  <2>1. PICK b \in 1 .. Len(input) :
          /\ SplitTo(input, b - 1, Found(tokens)) /\ StandsAt(input, lexer, b)
          /\ lexer.last = input[b]
    BY <1>1, <1>2, PieceBegins
  <2>2. StandsAt(input, a, b + 1)
    BY <2>1, LongParts, AdvanceStands DEF a
  <2> QED BY <1>1, <2>1, <2>2 DEF InOther
<1>3. width' # Thrown
  BY <1>1, LongParts
<1>4. Plain(input') => InOther(input', lexer', prev', Found(tokens'))
  BY <1>1, <1>2
<1> QED BY <1>1, <1>3, <1>4 DEF SplitInv, InTokens

\* Where read_other is.
LEMMA OtherWhere ==
    ASSUME LongInv, Plain(input), pc = "other"
    PROVE  \E b \in 1 .. Len(input) :
             /\ SplitTo(input, b - 1, Found(tokens)) /\ StandsAt(input, lexer, b + 1)
             /\ prev = input[b] /\ input[b] \notin Space \cup NameChar \cup Decimal
             /\ b + 1 <= Len(input) => input[b + 1] = lexer.last
             /\ lexer.last # EOF => b + 1 \in 1 .. Len(input)
             /\ prev \notin {"\"", "#", "@"}
<1>1. PICK b \in 1 .. Len(input) :
        /\ SplitTo(input, b - 1, Found(tokens)) /\ StandsAt(input, lexer, b + 1)
        /\ prev = input[b] /\ input[b] \notin Space \cup NameChar \cup Decimal
  BY LongParts DEF InTokens, InOther
<1>2. Len(input) \in Nat
  BY LongParts
<1>3. /\ b + 1 <= Len(input) => input[b + 1] = lexer.last
      /\ lexer.last # EOF => b + 1 \in 1 .. Len(input)
  <2>1. b + 1 \in 1 .. Len(input) => lexer.last = input[b + 1]
    BY <1>1, LongParts, StandsWhere
  <2>2. lexer.last # EOF => b + 1 \in 1 .. Len(input)
    BY <1>1, LongParts, StandsWhere
  <2> QED BY <1>2, <2>1, <2>2
<1>4. prev \in Range(input)
  BY <1>1, LongParts, LenProperties DEF Range
<1>5. prev \notin {"\"", "#", "@"}
  BY <1>4 DEF Plain
<1> QED BY <1>1, <1>3, <1>5

LEMMA ReadOperatorSplits == ASSUME LongInv, LexerInv', ReadOperator PROVE SplitInv'
<1> DEFINE read == Operator(lexer, prev)
<1>1. /\ input' = input /\ width' = width /\ pc = "other"
      /\ prev = "/" => lexer.last \notin {"/", "*"}
      /\ Return(read.lexer, read.token)
  BY Zenon DEF ReadOperator, literals
<1>2. ASSUME Plain(input)
      PROVE  \E p \in 1 .. Len(input) + 1 :
               /\ StandsAt(input, read.lexer, p)
               /\ SplitTo(input, p - 1, Append(Found(tokens), read.token))
  <2>1. PICK b \in 1 .. Len(input) :
          /\ SplitTo(input, b - 1, Found(tokens)) /\ StandsAt(input, lexer, b + 1)
          /\ prev = input[b] /\ input[b] \notin Space \cup NameChar \cup Decimal
          /\ b + 1 <= Len(input) => input[b + 1] = lexer.last
    BY <1>1, <1>2, OtherWhere
  <2>2. Len(input) \in Nat /\ b \in Nat \ {0}
    BY LongParts
  <2>3. ~Stands(input, b, <<"/", "*">>) /\ ~Stands(input, b, <<"/", "/">>)
    <3>1. ~(b + 1 <= Len(input) /\ input[b] = "/" /\ input[b + 1] = "*")
      BY <1>1, <2>1
    <3>2. ~(b + 1 <= Len(input) /\ input[b] = "/" /\ input[b + 1] = "/")
      BY <1>1, <2>1
    <3> QED BY <2>2, <3>1, <3>2, LongParts, StandsPair
  <2>4. Fits(input, lexer, b)
    BY <2>1, <2>3, LongParts DEF Fits, Opens
  <2>5. FoundAs(input, b, read)
    <3>1. FoundAs(input, b, Operator(lexer, input[b]))
      BY <1>2, <2>4, LongParts, OperatorFound
    <3> QED BY <2>1, <3>1
  <2> HIDE DEF read
  <2> DEFINE end == Piece(input, b).end
  <2>6. Piece(input, b).tokens = <<read.token>> /\ StandsAt(input, read.lexer, end + 1)
    BY <2>5 DEF FoundAs
  <2>7. SplitTo(input, end, Append(Found(tokens), read.token)) /\ end \in b .. Len(input)
    BY <1>2, <2>1, <2>6, LongParts, SplitLone
  <2> HIDE DEF end
  <2>8. end + 1 \in 1 .. Len(input) + 1 /\ (end + 1) - 1 = end
    BY <2>2, <2>7
  <2> QED BY <2>6, <2>7, <2>8
<1>3. width' # Thrown
  BY <1>1, LongParts
<1> HIDE DEF read
<1> QED BY <1>1, <1>2, <1>3, SplitReturns

LEMMA StringSplits ==
    ASSUME LongInv, LexerInv', BeginString \/ ReadString \/ ReadLocation PROVE SplitInv'
<1>1. input' = input /\ width' = width
  BY DEF BeginString, ReadString, ReadLocation, literals
<1>2. ASSUME Plain(input)
      PROVE  FALSE
  <2>1. pc # "string"
    BY <1>2, LongParts DEF InTokens
  <2>2. pc = "other" /\ prev \in {"\"", "#"}
    BY <2>1, Zenon DEF BeginString, ReadString, ReadLocation
  <2> QED BY <1>2, <2>2, OtherWhere
<1>3. width' # Thrown
  BY <1>1, LongParts
<1> QED BY <1>1, <1>2, <1>3 DEF SplitInv

-----------------------------------------------------------------------------
(***************************************************************************)
(* Comments.                                                               *)
(***************************************************************************)
LEMMA LineCommentSplits == ASSUME LongInv, LexerInv', LineComment PROVE SplitInv'
<1> DEFINE a == advance(GetLine(lexer))
<1>1. /\ input' = input /\ width' = width /\ pc = "other" /\ prev = "/" /\ lexer.last = "/"
      /\ GoOn(a, "space")
  BY DEF LineComment, literals
<1>2. ASSUME Plain(input)
      PROVE  Between(input, a, Found(tokens))
  <2>1. PICK b \in 1 .. Len(input) :
          /\ SplitTo(input, b - 1, Found(tokens)) /\ StandsAt(input, lexer, b + 1)
          /\ prev = input[b]
          /\ b + 1 <= Len(input) => input[b + 1] = lexer.last
          /\ lexer.last # EOF => b + 1 \in 1 .. Len(input)
    BY <1>1, <1>2, OtherWhere
  <2>2. Len(input) \in Nat /\ b \in Nat \ {0} /\ b \in DOMAIN input
    BY LongParts, LenProperties
  <2>3. b + 1 \in 1 .. Len(input) /\ input[b + 1] = "/" /\ input[b] = "/"
    <3>1. lexer.last # EOF
      BY <1>1 DEF EOF
    <3> QED BY <1>1, <2>1, <2>2, <3>1
  <2>4. Stands(input, b, <<"/", "/">>)
    BY <2>2, <2>3, LongParts, StandsPair
  <2>5. b + 1 # Len(input) /\ input[b + 2] # "\n"
    BY <1>2, <2>2, <2>4 DEF Plain, EmptyLineComment
  <2>6. lexer.rest # <<>> /\ lexer.rest[1] # "\n"
    <3>1. Taken(input, lexer) = b + 1 /\ Len(lexer.rest) = Len(input) - Taken(input, lexer)
      BY <2>1, <2>3, LongParts, StandsWhere, TakenType
    <3>2. 1 \in 1 .. Len(lexer.rest)
      BY <2>2, <2>3, <2>5, <3>1
    <3>3. lexer.rest[1] = input[Taken(input, lexer) + 1]
      BY <3>2, LongParts DEF Sound
    <3>4. Taken(input, lexer) + 1 = b + 2
      BY <2>2, <3>1
    <3>5. lexer.rest # <<>>
      BY <3>2
    <3> QED BY <2>5, <3>3, <3>4, <3>5
  <2>7. PICK q \in (b + 1) + 1 .. Len(input) + 1 :
          /\ StandsAt(input, a, q)
          /\ q = Len(input) + 1 \/ input[q] = "\n"
          /\ \A i \in (b + 1) + 1 .. q - 1 : input[i] # "\n"
    BY <2>1, <2>3, <2>6, LongParts, LineStands
  <2> HIDE DEF a
  <2>8. \A i \in b .. q - 1 : input[i] # "\n"
    <3>1. \A i \in b .. q - 1 : i = b \/ i = b + 1 \/ i \in (b + 1) + 1 .. q - 1
      BY <2>2
    <3>2. "/" # "\n"
      OBVIOUS
    <3> QED BY <2>3, <2>7, <3>1, <3>2
  <2>9. LineEndAfter(input, b) = q
    <3>1. q \in b .. Len(input) + 1
      BY <2>2
    <3> QED BY <2>7, <2>8, <3>1, LongParts, LineEndIs
  <2>10. Piece(input, b) = Gap(q - 1)
    BY <2>4, <2>9, LongParts, PieceCases
  <2>11. SplitTo(input, q - 1, Found(tokens))
    BY <1>2, <2>1, <2>10, LongParts, SplitGap
  <2>12. q \in 1 .. Len(input) + 1
    BY <2>2
  <2> QED BY <2>7, <2>11, <2>12 DEF Between
<1>3. width' # Thrown
  BY <1>1, LongParts
<1> HIDE DEF a
<1> QED BY <1>1, <1>2, <1>3, SplitGoesToSpace

LEMMA BeginBlockSplits == ASSUME LongInv, LexerInv', BeginBlock PROVE SplitInv'
<1>1. /\ input' = input /\ width' = width /\ pc = "other" /\ prev = "/" /\ lexer.last = "*"
      /\ lexer' = lexer /\ pc' = "block" /\ tokens' = tokens
  BY DEF BeginBlock, GoOn, literals
<1>2. ASSUME Plain(input)
      PROVE  InBlock(input, lexer, "block", Found(tokens))
  <2>1. PICK b \in 1 .. Len(input) :
          /\ SplitTo(input, b - 1, Found(tokens)) /\ StandsAt(input, lexer, b + 1)
          /\ prev = input[b]
          /\ b + 1 <= Len(input) => input[b + 1] = lexer.last
          /\ lexer.last # EOF => b + 1 \in 1 .. Len(input)
    BY <1>1, <1>2, OtherWhere
  <2>2. Len(input) \in Nat /\ b \in Nat \ {0}
    BY LongParts
  <2>3. lexer.last # EOF /\ b + 1 \in 1 .. Len(input) /\ input[b + 1] = "*" /\ input[b] = "/"
    <3>1. lexer.last # EOF
      BY <1>1 DEF EOF
    <3> QED BY <1>1, <2>1, <2>2, <3>1
  <2>4. Stands(input, b, <<"/", "*">>)
    BY <2>2, <2>3, LongParts, StandsPair
  <2>5. Taken(input, lexer) = b + 1
    BY <2>1, <2>3, LongParts, StandsWhere
  <2>6. b + 1 <= b + 1 /\ b + 2 .. (b + 1) - 1 = {}
    BY <2>2
  <2>7. InComment(input, lexer, "block", b)
    BY <2>3, <2>4, <2>5, <2>6 DEF InComment
  <2> QED BY <2>1, <2>7 DEF InBlock
<1>3. width' # Thrown
  BY <1>1, LongParts
<1>4. Plain(input') => InBlock(input', lexer', pc', Found(tokens'))
  BY <1>1, <1>2
<1> QED BY <1>1, <1>3, <1>4 DEF SplitInv, InTokens

LEMMA CommentSplits ==
    ASSUME LongInv, input' = input, width' = width, pc \in {"block", "stars"},
           NEW a, a = advance(lexer), NEW to \in {"block", "stars"}, GoOn(a, to),
           pc = "block" \/ a.last # "/", to = "stars" <=> a.last = "*"
    PROVE  SplitInv'
<1>1. lexer' = a /\ pc' = to /\ tokens' = tokens
  BY DEF GoOn
<1>2. ASSUME Plain(input)
      PROVE  InBlock(input, a, to, Found(tokens))
  <2>1. PICK b \in 1 .. Len(input) :
          SplitTo(input, b - 1, Found(tokens)) /\ InComment(input, lexer, pc, b)
    BY <1>2, LongParts DEF InTokens, InBlock
  <2>2. LastTaken(input, lexer) /\ b \in DOMAIN input
    BY LongParts, TakenUnlessSpace, LenProperties
  <2>3. InComment(input, a, to, b)
    BY <2>1, <2>2, LongParts, CommentGoesOn
  <2> QED BY <2>1, <2>3 DEF InBlock
<1>3. width' # Thrown
  BY LongParts
<1>4. Plain(input') => InBlock(input', lexer', pc', Found(tokens'))
  BY <1>1, <1>2
<1> QED BY <1>1, <1>3, <1>4 DEF SplitInv, InTokens

LEMMA BlockCommentSplits == ASSUME LongInv, LexerInv', BlockComment PROVE SplitInv'
<1> DEFINE a == advance(lexer)
           to == IF a.last = "*" THEN "stars" ELSE "block"
<1>1. input' = input /\ width' = width /\ pc = "block" /\ GoOn(a, to)
  BY DEF BlockComment, literals
<1>2. to \in {"block", "stars"} /\ (to = "stars" <=> a.last = "*")
  OBVIOUS
<1> HIDE DEF to
<1> QED BY <1>1, <1>2, CommentSplits

LEMMA StarsSplits == ASSUME LongInv, LexerInv', Stars PROVE SplitInv'
<1> DEFINE a == advance(lexer)
           out == advance([a EXCEPT !.last = NUL])
<1>1. /\ input' = input /\ width' = width /\ pc = "stars"
      /\ \/ a.last = "*" /\ GoOn(a, "stars")
         \/ a.last = "/" /\ GoOn(out, "space")
         \/ a.last # "*" /\ a.last # "/" /\ GoOn(a, "block")
  BY DEF Stars, literals
<1>2. CASE a.last = "*" /\ GoOn(a, "stars")
  <2>1. a.last # "/"
    BY <1>2
  <2> QED BY <1>1, <1>2, <2>1, CommentSplits
<1>3. CASE a.last # "*" /\ a.last # "/" /\ GoOn(a, "block")
  BY <1>1, <1>3, CommentSplits
<1>4. CASE a.last = "/" /\ GoOn(out, "space")
  <2>1. ASSUME Plain(input)
        PROVE  Between(input, out, Found(tokens))
    <3>1. PICK b \in 1 .. Len(input) :
            SplitTo(input, b - 1, Found(tokens)) /\ InComment(input, lexer, pc, b)
      BY <1>1, <2>1, LongParts DEF InTokens, InBlock
    <3> DEFINE t == Taken(input, lexer)
    <3>2. /\ lexer.last = "*" /\ b + 2 <= t /\ Stands(input, b, <<"/", "*">>)
          /\ \A k \in b + 2 .. t - 1 : ~Stands(input, k, <<"*", "/">>)
      BY <1>1, <3>1 DEF InComment
    <3>3. lexer.last # EOF /\ a.last # EOF
      BY <1>4, <3>2 DEF EOF
    <3>4. LastTaken(input, lexer)
      BY <1>1, LongParts, TakenUnlessSpace
    <3>5. Sound(input, a) /\ (TookOne(input, lexer, a) \/ FoundEnd(lexer, a))
      BY <3>3, LongParts, Advances
    <3>6. out = advance(a)
      <4>1. a \in Lexers
        BY <3>5 DEF Sound
      <4> HIDE DEF a
      <4> QED BY <3>3, <4>1, AdvancePastNul
    <3> HIDE DEF a, out
    <3>7. TookOne(input, lexer, a)
      BY <3>3, <3>5 DEF FoundEnd
    <3>8. Taken(input, a) = t + 1 /\ a.last = input[t + 1] /\ t + 1 \in 1 .. Len(input)
      BY <3>7 DEF TookOne
    <3>9. t \in 0 .. Len(input) /\ Len(input) \in Nat /\ b \in Nat \ {0}
      BY LongParts, TakenType
    <3>10. input[t] = "*" /\ input[t + 1] = "/"
      BY <1>4, <3>2, <3>3, <3>4, <3>8 DEF LastTaken
    <3>11. StandsAt(input, a, t + 1)
      <4> HIDE DEF t
      <4> QED BY <3>8 DEF StandsAt
    <3> HIDE DEF t
    <3>12. StandsAt(input, out, (t + 1) + 1)
      BY <3>6, <3>5, <3>8, <3>11, LongParts, AdvanceStands
    <3>13. Stands(input, t, <<"*", "/">>)
      <4>1. t \in Nat \ {0} /\ t + 1 <= Len(input)
        BY <3>2, <3>8, <3>9
      <4> QED BY <3>10, <4>1, LongParts, StandsPair
    <3>14. t \in b + 2 .. Len(input) - 1
      BY <3>2, <3>8, <3>9
    <3>15. BlockEnd(input, b) = t + 1
      BY <3>2, <3>13, <3>14, LongParts, BlockEndIs
    <3>16. Piece(input, b) = Gap(t + 1)
      BY <3>2, <3>15, LongParts, PieceCases
    <3>17. SplitTo(input, t + 1, Found(tokens))
      BY <2>1, <3>1, <3>16, LongParts, SplitGap
    <3>18. (t + 1) + 1 \in 1 .. Len(input) + 1 /\ ((t + 1) + 1) - 1 = t + 1
      BY <3>8, <3>9
    <3> QED BY <3>12, <3>17, <3>18 DEF Between
  <2>2. width' # Thrown
    BY <1>1, LongParts
  <2> HIDE DEF out
  <2> QED BY <1>1, <1>4, <2>1, <2>2, SplitGoesToSpace
<1> QED BY <1>1, <1>2, <1>3, <1>4

-----------------------------------------------------------------------------
LEMMA BlankInit == LexerInit => lexer.last = " " /\ Taken(input, lexer) = 0
<1> SUFFICES ASSUME LexerInit PROVE lexer.last = " " /\ Taken(input, lexer) = 0
  OBVIOUS
<1>1. LexerInv
  BY InvInit
<1> DEFINE blank == " "
<1>2. lexer.last = blank /\ lexer.rest = input
  <2>1. lexer = [rest |-> input, fail |-> FALSE, last |-> blank, row |-> 1, col |-> 0]
    BY Zenon DEF LexerInit, NewLexer
  <2> HIDE DEF blank
  <2> QED BY <2>1
<1>3. Taken(input, lexer) = 0
  <2>1. Len(input) \in Nat
    BY <1>1, LenProperties DEF LexerInv
  <2>2. lexer.rest = input
    BY <1>2
  <2> HIDE DEF blank
  <2> QED BY <2>1, <2>2 DEF Taken
<1> QED BY <1>2, <1>3 DEF blank

LEMMA LongInit == LexerInit => LongInv
<1> SUFFICES ASSUME LexerInit PROVE LongInv
  OBVIOUS
<1>1. LexerInv
  BY InvInit
<1>2. width = 32 /\ 32 # Thrown /\ pc = "idle" /\ tokens = <<>>
  <2>1. width = 32 /\ pc = "idle" /\ tokens = <<>>
    BY Zenon DEF LexerInit
  <2>2. 32 # Thrown
    BY DEF Thrown
  <2> QED BY <2>1, <2>2
<1>4. lexer.last = " " /\ Taken(input, lexer) = 0
  BY BlankInit
<1>5. Found(tokens) = <<>>
  <2>1. tokens \in Seq(Returned) /\ Len(tokens) = 0
    BY <1>2
  <2>2. [n \in {} |-> tokens[n].token] = <<>>
    OBVIOUS
  <2>3. DOMAIN tokens = {}
    BY <1>2
  <2> QED BY <2>2, <2>3 DEF Found
<1>6. Between(input, lexer, Found(tokens))
  BY <1>4, <1>5, Zenon DEF Between
<1>7. InTokens(pc, Found(tokens))
  BY <1>2, <1>6 DEF InTokens
<1> QED BY <1>1, <1>2, <1>7 DEF LongInv, SplitInv

LEMMA LongNext == LongInv /\ [LexerNext]_vars => LongInv'
<1> SUFFICES ASSUME LongInv, [LexerNext]_vars PROVE LongInv'
  OBVIOUS
<1>1. LexerInv'
  BY InvNext DEF LongInv
<1>2. ASSUME Call \/ SkipSpace \/ EndOfInput
      PROVE  SplitInv'
  BY <1>1, <1>2, CallSplits, SkipSpaceSplits, EndOfInputSplits
<1>3. ASSUME BeginName \/ ReadName \/ BeginNumber \/ ReadNumber
      PROVE  SplitInv'
  BY <1>1, <1>3, BeginNameSplits, ReadNameSplits, BeginNumberSplits, ReadNumberSplits
<1>4. ASSUME BeginOther \/ ReadOperator \/ BeginString \/ ReadString \/ ReadLocation
      PROVE  SplitInv'
  BY <1>1, <1>4, BeginOtherSplits, ReadOperatorSplits, StringSplits
<1>5. ASSUME LineComment \/ BeginBlock \/ BlockComment \/ Stars
      PROVE  SplitInv'
  BY <1>1, <1>5, LineCommentSplits, BeginBlockSplits, BlockCommentSplits, StarsSplits
<1>6. ASSUME UNCHANGED vars
      PROVE  SplitInv'
  BY <1>6 DEF vars, locals, literals, LongInv, SplitInv, InTokens
<1>7. SplitInv'
  BY <1>2, <1>3, <1>4, <1>5, <1>6 DEF LexerNext, LongInv
<1> QED BY <1>1, <1>7 DEF LongInv

(***************************************************************************)
(* When the end is returned, what was returned before is what the whole    *)
(* text is split into.                                                     *)
(***************************************************************************)
THEOREM LexerLongestTokens == LexerSpec => []LongestTokens
<1>1. LongInv => LongestTokens
  <2> SUFFICES ASSUME LongInv, tokens # <<>>, Last(tokens).token = "T_END", Plain(input)
               PROVE  Found(tokens) = Append(TokensOf(input), "T_END")
    BY DEF LongestTokens, Found
  <2>1. ASSUME NEW toks \in Seq(PieceTokens), Found(tokens) = toks
        PROVE  FALSE
    <3>1. Len(tokens) \in Nat /\ Len(tokens) # 0 /\ Len(toks) = Len(tokens)
          /\ toks[Len(tokens)] = tokens[Len(tokens)].token
      <4>1. Len(tokens) # 0
        BY LongParts
      <4> QED BY <2>1, <4>1, LongParts, FoundShape
    <3>2. toks[Len(tokens)] \in PieceTokens
      BY <3>1, ElementOfSeq
    <3>3. tokens[Len(tokens)].token = "T_END"
      BY DEF Last
    <3> QED BY <3>1, <3>2, <3>3, EndIsNoPiece
  <2>2. Found(tokens) \notin Seq(PieceTokens)
    BY <2>1
  <2>3. \A e : ~SplitTo(input, e, Found(tokens))
    BY <2>2, LongParts, SplitType
  <2>4. ~Between(input, lexer, Found(tokens))
    <3>1. <<>> \in Seq(PieceTokens)
      OBVIOUS
    <3> QED BY <2>2, <2>3, <3>1, Zenon DEF Between
  <2>5. InTokens(pc, Found(tokens)) /\ pc \in Places
    BY LongParts DEF LexerInv
  <2> QED BY <2>3, <2>4, <2>5 DEF InTokens, InName, InNumber, InOther, InBlock, Places
<1> QED BY <1>1, LongInit, LongNext, PTL DEF LexerSpec

-----------------------------------------------------------------------------
(***************************************************************************)
(* Powers of two, digits and their values.                                 *)
(***************************************************************************)
LEMMA TwoToRecursion ==
    /\ TwoTo[0] = 1
    /\ \A n \in 0 .. MaxWidth : TwoTo[n] \in Nat \ {0}
    /\ \A n \in 1 .. MaxWidth : TwoTo[n] = 2 * TwoTo[n - 1]
<1> DEFINE S == Nat \ {0}
           Recursive(f) == f = [n \in 0 .. MaxWidth |-> IF n = 0 THEN 1 ELSE 2 * f[n - 1]]
           step == [p \in Nat \X S |-> 2 * p[2]]
<1>1. 1 \in S /\ step \in [Nat \X S -> S] /\ MaxWidth \in Nat
  BY DEF MaxWidth
<1>2. PICK f \in [0 .. MaxWidth -> S] :
        f[0] = 1 /\ \A i \in 1 .. MaxWidth : f[i] = step[<<i, f[i - 1]>>]
  <2> HIDE DEF S, step
  <2>1. \E f : IsRecursion(f, S, 1, step, MaxWidth)
    BY <1>1, RecursionExists
  <2> QED BY <2>1 DEF IsRecursion
<1>3. ASSUME NEW i \in 1 .. MaxWidth
      PROVE  f[i] = 2 * f[i - 1]
  <2>1. i \in Nat /\ i - 1 \in 0 .. MaxWidth
    BY <1>1
  <2> QED BY <1>2, <2>1
<1>4. Recursive(f)
  <2> DEFINE g == [n \in 0 .. MaxWidth |-> IF n = 0 THEN 1 ELSE 2 * f[n - 1]]
  <2>1. ASSUME NEW n \in 0 .. MaxWidth
        PROVE  f[n] = g[n]
    BY <1>1, <1>2, <1>3
  <2>2. f = g
    BY <2>1
  <2> QED BY <2>2
<1>5. TwoTo = CHOOSE g : Recursive(g)
  BY DEF TwoTo
<1>6. Recursive(TwoTo)
  <2> HIDE DEF Recursive
  <2> QED BY <1>4, <1>5
<1>7. TwoTo[0] = 1 /\ \A n \in 1 .. MaxWidth : TwoTo[n] = 2 * TwoTo[n - 1]
  BY <1>1, <1>6
<1> DEFINE Positive == { n \in Nat : n <= MaxWidth => TwoTo[n] \in S }
<1>8. 0 \in Positive
  BY <1>1, <1>7
<1>9. ASSUME NEW n \in Nat, n \in Positive
      PROVE  n + 1 \in Positive
  <2>1. CASE n + 1 <= MaxWidth
    <3>1. n + 1 \in 1 .. MaxWidth /\ (n + 1) - 1 = n /\ n <= MaxWidth
      BY <1>1, <2>1
    <3>2. TwoTo[n] \in S /\ TwoTo[n + 1] = 2 * TwoTo[n]
      BY <1>7, <1>9, <3>1
    <3> QED BY <3>2
  <2>2. CASE ~(n + 1 <= MaxWidth)
    BY <2>2
  <2> QED BY <2>1, <2>2
<1>10. \A n \in Nat : n \in Positive
  <2> HIDE DEF Positive
  <2> QED BY <1>8, <1>9, Induction
<1> QED BY <1>1, <1>7, <1>10

LEMMA DigitValues ==
    /\ ValueOf("0") = 0 /\ ValueOf("1") = 1 /\ ValueOf("2") = 2 /\ ValueOf("3") = 3
    /\ ValueOf("4") = 4 /\ ValueOf("5") = 5 /\ ValueOf("6") = 6 /\ ValueOf("7") = 7
    /\ ValueOf("8") = 8 /\ ValueOf("9") = 9
  BY DEF ValueOf

LEMMA ValueType == \A c \in HexDigit : ValueOf(c) \in 0 .. 15
  BY DEF ValueOf, HexDigit, Decimal

LEMMA DecimalDigits ==
    \A n \in 0 .. 9 : DecimalDigit(n) \in Decimal /\ ValueOf(DecimalDigit(n)) = n
<1>1. ASSUME NEW n \in 0 .. 9
      PROVE  \E c \in Decimal : ValueOf(c) = n
  BY DigitValues DEF Decimal
<1> QED BY <1>1 DEF DecimalDigit

-----------------------------------------------------------------------------
(***************************************************************************)
(* What std::stoi makes of digits, unless it is too much for an int, is    *)
(* what they denote.                                                       *)
(***************************************************************************)
Bases == {2, 8, 10, 16}

LEMMA DigitsAreHex == \A base \in Bases : DigitsOf(base) \subseteq HexDigit
<1>1. DigitsOf(2) = {"0", "1"}
  BY DEF DigitsOf
<1>2. DigitsOf(8) = {"0", "1", "2", "3", "4", "5", "6", "7"}
  BY DEF DigitsOf
<1>3. DigitsOf(10) = Decimal
  BY DEF DigitsOf
<1>4. DigitsOf(16) = HexDigit
  BY DEF DigitsOf
<1> QED BY <1>1, <1>2, <1>3, <1>4 DEF Bases, HexDigit, Decimal

LEMMA OneDigitMore ==
    ASSUME NEW x \in Nat, NEW base \in Bases, NEW d \in 0 .. 15
    PROVE  /\ x * base \in Nat /\ x * base + d \in Nat /\ x <= x * base + d
           /\ d > MaxInt - x * base <=> x * base + d > MaxInt
<1>1. CASE base = 2
  BY <1>1 DEF MaxInt
<1>2. CASE base = 8
  BY <1>2 DEF MaxInt
<1>3. CASE base = 10
  BY <1>3 DEF MaxInt
<1>4. CASE base = 16
  BY <1>4 DEF MaxInt
<1> QED BY <1>1, <1>2, <1>3, <1>4 DEF Bases

\* What the first digits denote.
IsDenoted(f, digits, base) ==
    /\ f \in [0 .. Len(digits) -> Nat] /\ f[0] = 0
    /\ \A i \in 1 .. Len(digits) : f[i] = f[i - 1] * base + ValueOf(digits[i])

LEMMA DenotedRecursion ==
    ASSUME NEW base \in Bases, NEW digits \in Seq(HexDigit)
    PROVE  \E f : IsDenoted(f, digits, base) /\ Denoted(digits, base) = f[Len(digits)]
<1> DEFINE k == Len(digits)
           Recursive(f) == f = [n \in 0 .. Len(digits) |->
                                  IF n = 0 THEN 0 ELSE f[n - 1] * base + ValueOf(digits[n])]
           Next(i, x) == IF i \in 1 .. k THEN x * base + ValueOf(digits[i]) ELSE 0
           step == [p \in Nat \X Nat |-> Next(p[1], p[2])]
           upto == CHOOSE f : Recursive(f)
<1>1. k \in Nat /\ \A i \in 1 .. k : ValueOf(digits[i]) \in 0 .. 15
  BY ElementOfSeq, LenProperties, ValueType
<1>2. \A i, x \in Nat : Next(i, x) \in Nat
  BY <1>1, OneDigitMore
<1>3. step \in [Nat \X Nat -> Nat]
  <2> HIDE DEF Next
  <2> QED BY <1>2
<1>4. PICK f \in [0 .. k -> Nat] : f[0] = 0 /\ \A i \in 1 .. k : f[i] = step[<<i, f[i - 1]>>]
  <2> HIDE DEF step
  <2>1. \E f : IsRecursion(f, Nat, 0, step, k)
    BY <1>1, <1>3, RecursionExists
  <2> QED BY <2>1 DEF IsRecursion
<1>5. ASSUME NEW i \in 1 .. k
      PROVE  f[i] = f[i - 1] * base + ValueOf(digits[i])
  <2>1. i \in Nat /\ f[i - 1] \in Nat
    BY <1>1
  <2>2. f[i] = Next(i, f[i - 1])
    <3> HIDE DEF Next
    <3> QED BY <1>4, <2>1
  <2> QED BY <2>2
<1>6. Recursive(f)
  <2> DEFINE g == [n \in 0 .. k |-> IF n = 0 THEN 0 ELSE f[n - 1] * base + ValueOf(digits[n])]
  <2>1. ASSUME NEW n \in 0 .. k
        PROVE  f[n] = g[n]
    <3>1. CASE n = 0
      BY <1>1, <1>4, <3>1
    <3>2. CASE n # 0
      <4>1. n \in 1 .. k
        BY <1>1, <3>2
      <4>2. g[n] = f[n - 1] * base + ValueOf(digits[n])
        BY <3>2
      <4> HIDE DEF g
      <4> QED BY <1>5, <4>1, <4>2
    <3> QED BY <3>1, <3>2
  <2>2. f = g
    BY <2>1
  <2> QED BY <2>2
<1>7. Recursive(upto)
  <2> HIDE DEF Recursive
  <2> QED BY <1>6
<1>8. Denoted(digits, base) = upto[k]
  BY DEF Denoted
<1> HIDE DEF upto
<1>9. ASSUME NEW n \in 0 .. k
      PROVE  upto[n] = IF n = 0 THEN 0 ELSE upto[n - 1] * base + ValueOf(digits[n])
  BY <1>7
<1>10. DOMAIN upto = 0 .. k /\ upto = [n \in 0 .. k |-> upto[n]]
  BY <1>7
<1> DEFINE Typed == { n \in Nat : n \in 0 .. k => upto[n] \in Nat }
<1>11. 0 \in Typed
  BY <1>1, <1>9
<1>12. ASSUME NEW n \in Nat, n \in Typed
       PROVE  n + 1 \in Typed
  <2>1. CASE n + 1 <= k
    <3>1. n \in 0 .. k /\ n + 1 \in 0 .. k /\ n + 1 # 0 /\ (n + 1) - 1 = n /\ n + 1 \in 1 .. k
      BY <1>1, <2>1
    <3>2. upto[n] \in Nat /\ upto[n + 1] = upto[n] * base + ValueOf(digits[n + 1])
      BY <1>9, <1>12, <3>1
    <3>3. ValueOf(digits[n + 1]) \in 0 .. 15
      BY <1>1, <3>1
    <3>4. upto[n + 1] \in Nat
      BY <3>2, <3>3, OneDigitMore
    <3> QED BY <3>4
  <2>2. CASE ~(n + 1 <= k)
    BY <1>1, <2>2
  <2> QED BY <2>1, <2>2
<1>13. \A n \in Nat : n \in Typed
  <2> HIDE DEF Typed
  <2> QED BY <1>11, <1>12, Induction
<1>14. \A n \in 0 .. k : upto[n] \in Nat
  BY <1>1, <1>13
<1>15. upto \in [0 .. k -> Nat]
  BY <1>10, <1>14
<1>16. upto[0] = 0 /\ \A n \in 1 .. k : upto[n] = upto[n - 1] * base + ValueOf(digits[n])
  BY <1>1, <1>9
<1> QED BY <1>8, <1>15, <1>16 DEF IsDenoted

LEMMA StoiDenotes ==
    ASSUME NEW base \in Bases, NEW digits \in Seq(DigitsOf(base)), digits # <<>>,
           Denoted(digits, base) <= MaxInt
    PROVE  stoi(digits, base) = Denoted(digits, base) /\ Denoted(digits, base) \in Nat
<1> DEFINE k == Len(digits)
           Next(i, x) == IF x = Thrown \/ ValueOf(digits[i]) > MaxInt - x * base THEN Thrown
                         ELSE x * base + ValueOf(digits[i])
           Recursive(v) == v = [n \in 0 .. Len(digits) |-> IF n = 0 THEN 0
                                  ELSE IF v[n - 1] = Thrown \/ ValueOf(digits[n]) > MaxInt - v[n - 1] * base
                                       THEN Thrown
                                  ELSE v[n - 1] * base + ValueOf(digits[n])]
           read == CHOOSE v : Recursive(v)
           run == CHOOSE n \in 0 .. Len(digits) :
                    /\ \A i \in 1 .. n : digits[i] \in DigitsOf(base)
                    /\ n = Len(digits) \/ digits[n + 1] \notin DigitsOf(base)
<1>1. /\ k \in Nat \ {0} /\ digits \in Seq(HexDigit)
      /\ \A i \in 1 .. k : digits[i] \in DigitsOf(base) /\ ValueOf(digits[i]) \in 0 .. 15
  <2>1. k \in Nat /\ k # 0
    BY EmptySeq, LenProperties
  <2>2. \A i \in 1 .. k : digits[i] \in DigitsOf(base)
    BY ElementOfSeq
  <2>3. DigitsOf(base) \subseteq HexDigit
    BY DigitsAreHex
  <2> HIDE DEF k
  <2>4. digits \in Seq(HexDigit)
    BY <2>3
  <2> QED BY <2>1, <2>2, <2>3, <2>4, ValueType
<1>2. PICK f : IsDenoted(f, digits, base) /\ Denoted(digits, base) = f[k]
  BY <1>1, DenotedRecursion
<1>3. f[0] = 0 /\ \A i \in 1 .. k : f[i] = f[i - 1] * base + ValueOf(digits[i])
  BY <1>2 DEF IsDenoted
<1>4. \A i \in 0 .. k : f[i] \in Nat
  BY <1>2 DEF IsDenoted
<1>5. \E v : Recursive(v)
  <2> DEFINE S == Nat \cup {Thrown}
             step == [p \in Nat \X S |-> IF p[1] \in 1 .. k THEN Next(p[1], p[2]) ELSE 0]
  <2>1. ASSUME NEW i \in 1 .. k, NEW x \in S
        PROVE  Next(i, x) \in S
    <3>1. CASE x = Thrown
      BY <3>1
    <3>2. CASE x \in Nat
      <4>1. ValueOf(digits[i]) \in 0 .. 15
        BY <1>1
      <4>2. x * base + ValueOf(digits[i]) \in Nat
        BY <3>2, <4>1, OneDigitMore
      <4> QED BY <4>2
    <3> QED BY <3>1, <3>2
  <2>2. 0 \in S /\ k \in Nat
    BY <1>1
  <2> HIDE DEF Next
  <2>3. step \in [Nat \X S -> S]
    BY <2>1, <2>2
  <2>4. PICK v \in [0 .. k -> S] : v[0] = 0 /\ \A i \in 1 .. k : v[i] = step[<<i, v[i - 1]>>]
    <3> HIDE DEF step, S
    <3>1. \E v : IsRecursion(v, S, 0, step, k)
      BY <2>2, <2>3, RecursionExists
    <3> QED BY <3>1 DEF IsRecursion
  <2>5. ASSUME NEW i \in 1 .. k
        PROVE  v[i] = Next(i, v[i - 1])
    <3>1. i \in Nat /\ v[i - 1] \in S
      BY <1>1
    <3> QED BY <2>4, <3>1
  <2> DEFINE g == [n \in 0 .. k |-> IF n = 0 THEN 0 ELSE Next(n, v[n - 1])]
  <2>6. ASSUME NEW n \in 0 .. k
        PROVE  v[n] = g[n]
    <3>1. CASE n = 0
      BY <1>1, <2>4, <3>1
    <3>2. CASE n # 0
      <4>1. n \in 1 .. k
        BY <1>1, <3>2
      <4>2. g[n] = Next(n, v[n - 1])
        BY <3>2
      <4> HIDE DEF g
      <4> QED BY <2>5, <4>1, <4>2
    <3> QED BY <3>1, <3>2
  <2>7. v = g
    BY <2>6
  <2>8. Recursive(v)
    <3> USE DEF Next
    <3> QED BY <2>7
  <2> QED BY <2>8
<1>6. Recursive(read)
  <2> HIDE DEF Recursive
  <2> QED BY <1>5
<1>7. run = k
  <2>1. k \in 0 .. k
    BY <1>1
  <2>2. \A n \in 0 .. k : n # k => n + 1 \in 1 .. k
    BY <1>1
  <2> QED BY <1>1, <2>1, <2>2
<1>8. stoi(digits, base) = IF run = 0 THEN Thrown ELSE read[run]
  BY DEF stoi
<1>9. stoi(digits, base) = read[k]
  BY <1>1, <1>7, <1>8
<1> HIDE DEF read, run
<1>10. read[0] = 0 /\ \A n \in 1 .. k : read[n] = Next(n, read[n - 1])
  <2>1. \A n \in 0 .. k : read[n] = IF n = 0 THEN 0 ELSE Next(n, read[n - 1])
    BY <1>6
  <2> HIDE DEF Next
  <2> QED BY <1>1, <2>1
<1> DEFINE Same == { n \in Nat : n \in 0 .. k => \/ read[n] = f[n]
                                                 \/ read[n] = Thrown /\ f[n] > MaxInt }
<1>11. 0 \in Same
  BY <1>1, <1>3, <1>10
<1>12. ASSUME NEW n \in Nat, n \in Same
       PROVE  n + 1 \in Same
  <2>1. CASE n + 1 <= k
    <3>1. n \in 0 .. k /\ n + 1 \in 1 .. k /\ (n + 1) - 1 = n
      BY <1>1, <2>1
    <3> DEFINE d == ValueOf(digits[n + 1])
    <3>2. d \in 0 .. 15 /\ f[n] \in Nat /\ f[n + 1] = f[n] * base + d
      BY <1>1, <1>3, <1>4, <3>1
    <3>3. read[n + 1] = IF read[n] = Thrown \/ d > MaxInt - read[n] * base THEN Thrown
                        ELSE read[n] * base + d
      BY <1>10, <3>1
    <3> HIDE DEF d
    <3>4. /\ f[n] <= f[n] * base + d /\ f[n] * base + d \in Nat
          /\ d > MaxInt - f[n] * base <=> f[n] * base + d > MaxInt
      BY <3>2, OneDigitMore
    <3>5. CASE read[n] = f[n]
      <4>1. read[n] # Thrown
        BY <3>2, <3>5 DEF Thrown
      <4>2. read[n + 1] = IF d > MaxInt - f[n] * base THEN Thrown ELSE f[n] * base + d
        BY <3>3, <3>5, <4>1
      <4> QED BY <3>2, <3>4, <4>2
    <3>6. CASE read[n] = Thrown /\ f[n] > MaxInt
      <4>1. MaxInt \in Nat
        BY DEF MaxInt
      <4>2. f[n + 1] > MaxInt
        BY <3>2, <3>4, <3>6, <4>1
      <4>3. read[n + 1] = Thrown
        BY <3>3, <3>6
      <4> QED BY <4>2, <4>3
    <3> QED BY <1>12, <3>1, <3>5, <3>6
  <2>2. CASE ~(n + 1 <= k)
    BY <1>1, <2>2
  <2> QED BY <2>1, <2>2
<1>13. \A n \in Nat : n \in Same
  <2> HIDE DEF Same
  <2> QED BY <1>11, <1>12, Induction
<1>14. k \in 0 .. k /\ k \in Nat /\ k \in Same
  BY <1>1, <1>13
<1>15. read[k] = f[k]
  <2>1. f[k] \in Nat /\ f[k] <= MaxInt /\ MaxInt \in Nat
    BY <1>2, <1>4, <1>14 DEF MaxInt
  <2> QED BY <1>14, <2>1
<1> QED BY <1>2, <1>4, <1>9, <1>14, <1>15

-----------------------------------------------------------------------------
(***************************************************************************)
(* The text of a literal: its width, its base, its digits.                 *)
(***************************************************************************)
LEMMA DecimalTextDenotes ==
    ASSUME NEW n \in 0 .. MaxWidth
    PROVE  /\ DecimalText(n) \in Seq(Decimal) /\ DecimalText(n) # <<>>
           /\ Denoted(DecimalText(n), 10) = n
<1>1. n \in 0 .. 30 /\ 10 \in Bases /\ Decimal \subseteq HexDigit
  BY DEF MaxWidth, Bases, HexDigit
<1>2. CASE n < 10
  <2> DEFINE d == DecimalDigit(n)
             one == <<d>>
  <2>1. d \in Decimal /\ ValueOf(d) = n
    BY <1>1, <1>2, DecimalDigits
  <2> HIDE DEF d
  <2>2. one \in Seq(Decimal) /\ one \in Seq(HexDigit) /\ Len(one) = 1 /\ one[1] = d /\ one # <<>>
    BY <1>1, <2>1
  <2> HIDE DEF one
  <2>3. PICK f : IsDenoted(f, one, 10) /\ Denoted(one, 10) = f[Len(one)]
    BY <1>1, <2>2, DenotedRecursion
  <2>4. f[0] = 0 /\ f[1] = f[1 - 1] * 10 + ValueOf(one[1])
    BY <2>2, <2>3 DEF IsDenoted
  <2>5. Denoted(one, 10) = n
    BY <1>1, <2>1, <2>2, <2>3, <2>4
  <2>6. DecimalText(n) = one
    BY <1>2 DEF DecimalText, one, d
  <2> QED BY <2>2, <2>5, <2>6
<1>3. CASE ~(n < 10)
  <2> DEFINE c == DecimalDigit(n \div 10)
             d == DecimalDigit(n % 10)
             two == <<c, d>>
  <2>1. n \div 10 \in 0 .. 9 /\ n % 10 \in 0 .. 9 /\ (n \div 10) * 10 + (n % 10) = n
    BY <1>1
  <2>2. c \in Decimal /\ ValueOf(c) = n \div 10 /\ d \in Decimal /\ ValueOf(d) = n % 10
    BY <2>1, DecimalDigits
  <2> HIDE DEF c, d
  <2>3. /\ two \in Seq(Decimal) /\ two \in Seq(HexDigit) /\ Len(two) = 2 /\ two # <<>>
        /\ two[1] = c /\ two[2] = d
    BY <1>1, <2>2
  <2> HIDE DEF two
  <2>4. PICK f : IsDenoted(f, two, 10) /\ Denoted(two, 10) = f[Len(two)]
    BY <1>1, <2>3, DenotedRecursion
  <2>5. f[0] = 0 /\ f[1] = f[1 - 1] * 10 + ValueOf(two[1]) /\ f[2] = f[2 - 1] * 10 + ValueOf(two[2])
    BY <2>3, <2>4 DEF IsDenoted
  <2>6. f[1] = n \div 10 /\ f[2] = (n \div 10) * 10 + (n % 10)
    <3>1. 1 - 1 = 0 /\ 2 - 1 = 1 /\ n \div 10 \in Int
      BY <2>1
    <3>2. f[1] = n \div 10
      BY <2>2, <2>3, <2>5, <3>1
    <3> QED BY <2>2, <2>3, <2>5, <3>1, <3>2
  <2>7. Denoted(two, 10) = n
    BY <2>1, <2>3, <2>4, <2>6
  <2>8. DecimalText(n) = two
    BY <1>3 DEF DecimalText, two, c, d
  <2> QED BY <2>3, <2>7, <2>8
<1> QED BY <1>2, <1>3

LEMMA WidthReads ==
    ASSUME NEW n \in 0 .. MaxWidth
    PROVE  /\ DecimalText(n) \in Seq(Decimal) /\ DecimalText(n) # <<>>
           /\ stoi(DecimalText(n), 10) = n
<1>1. n <= MaxInt /\ 10 \in Bases /\ DigitsOf(10) = Decimal
  BY DEF MaxWidth, MaxInt, Bases, DigitsOf
<1> QED BY <1>1, DecimalTextDenotes, StoiDenotes

\* What stands behind the width: its base and its digits.
BodyChar == HexDigit \cup {"x", "o"}

LEMMA BodyChars ==
    /\ Decimal \subseteq HexDigit /\ HexDigit \subseteq BodyChar /\ BodyChar \subseteq NumberChar
    /\ {"s", "w"} \cap BodyChar = {} /\ {"s", "w"} \subseteq NumberChar
    /\ HexDigit \cap {"x", "o"} = {} /\ Decimal \cap BaseChar = {}
    /\ {"0", "x", "b", "o"} \subseteq BodyChar /\ {"x", "b", "o"} \subseteq BaseChar /\ "0" \in Decimal
  BY DEF Decimal, HexDigit, BodyChar, NumberChar, BaseChar

LEMMA BodyOfBase ==
    ASSUME NEW c \in {"x", "b", "o"}, NEW digits \in Seq(HexDigit), digits # <<>>
    PROVE  LET body == <<"0", c>> \o digits
           IN  /\ body \in Seq(BodyChar) /\ body[1] = "0" /\ body[2] = c /\ Len(body) = Len(digits) + 2
               /\ HasBase(body) /\ Base(body) = BaseOf(c) /\ Digits(body) = digits
               /\ \A k \in 1 .. Len(body) : k # 2 => body[k] \in HexDigit
<1> DEFINE mark == <<"0", c>>
           body == mark \o digits
<1>1. mark \in Seq(BodyChar) /\ Len(mark) = 2 /\ mark[1] = "0" /\ mark[2] = c
  BY BodyChars
<1>2. digits \in Seq(BodyChar) /\ Len(digits) \in Nat /\ Len(digits) # 0
  BY BodyChars, EmptySeq, LenProperties
<1> HIDE DEF mark
<1>3. /\ body \in Seq(BodyChar) /\ Len(body) = Len(mark) + Len(digits)
      /\ \A i \in 1 .. Len(mark) : body[i] = mark[i]
      /\ \A i \in 1 .. Len(digits) : body[Len(mark) + i] = digits[i]
  <2>1. mark \in Seq(BodyChar) /\ digits \in Seq(BodyChar)
    BY <1>1, <1>2
  <2> DEFINE whole == mark \o digits
  <2>2. /\ whole \in Seq(BodyChar) /\ Len(whole) = Len(mark) + Len(digits)
        /\ \A i \in 1 .. Len(mark) : whole[i] = mark[i]
    BY <2>1, ConcatAt
  <2>3. \A i \in 1 .. Len(digits) : whole[Len(mark) + i] = digits[i]
    BY <2>1, ConcatAt, SMTT(30)
  <2> QED BY <2>2, <2>3
<1> HIDE DEF body
<1>4. Len(body) = Len(digits) + 2 /\ body[1] = "0" /\ body[2] = c /\ Len(body) > 2
  BY <1>1, <1>2, <1>3
<1>5. HasBase(body)
  BY <1>4, BodyChars DEF HasBase
<1>6. Base(body) = BaseOf(c)
  BY <1>4, <1>5 DEF Base
<1>7. Digits(body) = digits
  <2> DEFINE rest == SubSeq(body, 3, Len(body))
  <2>1. Digits(body) = rest
    BY <1>5 DEF Digits
  <2>2. rest \in Seq(BodyChar) /\ Len(rest) = Len(digits)
        /\ \A i \in 1 .. Len(digits) : rest[i] = body[2 + i]
    BY <1>2, <1>3, <1>4
  <2> HIDE DEF rest
  <2>3. \A i \in 1 .. Len(digits) : rest[i] = digits[i]
    BY <1>1, <1>3, <2>2
  <2> QED BY <1>2, <2>1, <2>2, <2>3, SeqEqual
<1>8. ASSUME NEW k \in 1 .. Len(body), k # 2
      PROVE  body[k] \in HexDigit
  <2>1. CASE k = 1
    BY <1>4, <2>1, BodyChars
  <2>2. CASE k > 2
    <3>1. k - 2 \in 1 .. Len(digits) /\ 2 + (k - 2) = k
      BY <1>2, <1>4, <2>2
    <3>2. body[2 + (k - 2)] = digits[k - 2]
      BY <1>1, <1>3, <3>1
    <3> QED BY <3>1, <3>2, ElementOfSeq
  <2> QED BY <1>2, <1>4, <1>8, <2>1, <2>2
<1> QED BY <1>3, <1>4, <1>5, <1>6, <1>7, <1>8 DEF body, mark

\* What the regular expression admits behind a width.
Regular(body) ==
    \A k \in 1 .. Len(body) :
        \/ body[k] \in HexDigit
        \/ k = 2 /\ body[1] = "0" /\ body[2] \in BaseChar /\ Len(body) > 2

LEMMA BodyReads ==
    ASSUME NEW base \in Bases, NEW digits \in Seq(DigitsOf(base)), digits # <<>>
    PROVE  LET body == BaseMark(base) \o digits
           IN  /\ body \in Seq(BodyChar) /\ Len(body) \in Nat \ {0} /\ body[1] \in Decimal
               /\ Regular(body) /\ Base(body) = base /\ Digits(body) = digits
<1> DEFINE body == BaseMark(base) \o digits
           Whole == /\ body \in Seq(BodyChar) /\ Len(body) \in Nat \ {0} /\ body[1] \in Decimal
                    /\ Regular(body) /\ Base(body) = base /\ Digits(body) = digits
<1>1. digits \in Seq(HexDigit) /\ Len(digits) \in Nat \ {0}
  <2>1. DigitsOf(base) \subseteq HexDigit
    BY DigitsAreHex
  <2> QED BY <2>1, EmptySeq, LenProperties
<1>2. ASSUME NEW c \in {"x", "b", "o"}, BaseMark(base) = <<"0", c>>, BaseOf(c) = base
      PROVE  Whole
  <2>1. body = <<"0", c>> \o digits
    BY <1>2
  <2> HIDE DEF body
  <2>2. /\ body \in Seq(BodyChar) /\ body[1] = "0" /\ body[2] = c /\ Len(body) = Len(digits) + 2
        /\ Base(body) = BaseOf(c) /\ Digits(body) = digits
        /\ \A k \in 1 .. Len(body) : k # 2 => body[k] \in HexDigit
    BY <1>1, <2>1, BodyOfBase
  <2>3. Regular(body)
    BY <1>1, <2>2, BodyChars DEF Regular
  <2> QED BY <1>1, <1>2, <2>2, <2>3, BodyChars
<1>3. ASSUME base = 16
      PROVE  Whole
  <2>1. BaseMark(16) = <<"0", "x">> /\ BaseOf("x") = 16
    BY DEF BaseMark, BaseOf
  <2> HIDE DEF body
  <2> QED BY <1>2, <1>3, <2>1
<1>4. ASSUME base = 2
      PROVE  Whole
  <2>1. BaseMark(2) = <<"0", "b">> /\ BaseOf("b") = 2
    BY DEF BaseMark, BaseOf
  <2> HIDE DEF body
  <2> QED BY <1>2, <1>4, <2>1
<1>5. ASSUME base = 8
      PROVE  Whole
  <2>1. BaseMark(8) = <<"0", "o">> /\ BaseOf("o") = 8
    BY DEF BaseMark, BaseOf
  <2> HIDE DEF body
  <2> QED BY <1>2, <1>5, <2>1
<1>6. ASSUME base = 10
      PROVE  Whole
  <2>1. BaseMark(10) = <<>> /\ DigitsOf(10) = Decimal
    BY DEF BaseMark, DigitsOf
  <2>2. body = digits
    BY <1>1, <1>6, <2>1
  <2>3. \A k \in 1 .. Len(digits) : digits[k] \in Decimal
    BY <1>6, <2>1, ElementOfSeq
  <2>4. ~HasBase(digits)
    <3> SUFFICES ASSUME HasBase(digits) PROVE FALSE
      OBVIOUS
    <3>1. 2 \in 1 .. Len(digits) /\ digits[2] \in BaseChar
      BY <1>1 DEF HasBase
    <3> QED BY <2>3, <3>1, BodyChars
  <2>5. Base(digits) = 10 /\ Digits(digits) = digits
    BY <2>4 DEF Base, Digits
  <2>6. Regular(digits)
    BY <2>3, BodyChars DEF Regular
  <2>7. digits \in Seq(BodyChar)
    BY <1>1, BodyChars
  <2>8. digits[1] \in Decimal
    BY <1>1, <2>3
  <2> HIDE DEF body
  <2>9. Len(digits) \in Nat \ {0} /\ Base(digits) = base
    BY <1>1, <1>6, <2>5
  <2> QED BY <2>2, <2>5, <2>6, <2>7, <2>8, <2>9, Zenon
<1> QED BY <1>3, <1>4, <1>5, <1>6 DEF Bases

\* A text without a width.
LEMMA UnmarkedReads ==
    ASSUME NEW body \in Seq(BodyChar), Len(body) \in Nat \ {0}, Regular(body)
    PROVE  Marks(body) = {} /\ AfterMark(body) = body /\ ~IsSigned(body) /\ Matches(body)
<1>1. \A k \in 1 .. Len(body) : body[k] \in BodyChar
  BY ElementOfSeq
<1>2. Marks(body) = {}
  BY <1>1, BodyChars DEF Marks
<1>3. AfterMark(body) = body /\ ~IsSigned(body)
  BY <1>2 DEF AfterMark, IsSigned
<1>4. Matches(body)
  <2>1. 0 \in 0 .. Len(body) - 1 /\ 1 .. 0 - 1 = {} /\ 0 + 1 = 1 /\ 0 + 2 = 2
    OBVIOUS
  <2>2. ASSUME NEW k \in 1 .. Len(body)
        PROVE  \/ body[k] \in HexDigit \cup {"_"}
               \/ k = 2 /\ body[1] = "0" /\ body[k] \in BaseChar /\ Len(body) > k
    BY DEF Regular
  <2> DEFINE Split(n) ==
        /\ Marks(body) = IF n = 0 THEN {} ELSE {n}
        /\ n # 1
        /\ \A k \in 1 .. n - 1 : body[k] \in Decimal
        /\ \A k \in n + 1 .. Len(body) :
             \/ body[k] \in HexDigit \cup {"_"}
             \/ k = n + 2 /\ body[n + 1] = "0" /\ body[k] \in BaseChar /\ Len(body) > k
  <2>3. Split(0)
    <3>1. \A k \in 1 .. 0 - 1 : body[k] \in Decimal
      BY <2>1
    <3>2. \A k \in 0 + 1 .. Len(body) :
            \/ body[k] \in HexDigit \cup {"_"}
            \/ k = 0 + 2 /\ body[0 + 1] = "0" /\ body[k] \in BaseChar /\ Len(body) > k
      BY <2>1, <2>2
    <3>3. Marks(body) = IF 0 = 0 THEN {} ELSE {0}
      BY <1>2
    <3>4. 0 # 1
      OBVIOUS
    <3> QED BY <3>1, <3>2, <3>3, <3>4, Zenon
  <2> HIDE DEF Split
  <2>4. \E n \in 0 .. Len(body) - 1 : Split(n)
    BY <2>1, <2>3
  <2> QED BY <2>4 DEF Matches, Split
<1> QED BY <1>2, <1>3, <1>4

\* A sequence that two others are joined to.
LEMMA JoinedAt ==
    ASSUME NEW S, NEW s \in Seq(S), NEW t \in Seq(S), NEW r, r = s \o t
    PROVE  /\ r \in Seq(S) /\ Len(r) = Len(s) + Len(t)
           /\ \A i \in 1 .. Len(s) : r[i] = s[i]
           /\ \A i \in 1 .. Len(t) : r[Len(s) + i] = t[i]
BY ConcatAt

\* Two sequences with something between them.
LEMMA MarkedAt ==
    ASSUME NEW S, NEW a \in Seq(S), NEW m \in S, NEW body \in Seq(S)
    PROVE  LET chars == (a \o <<m>>) \o body
           IN  /\ chars \in Seq(S) /\ Len(chars) = (Len(a) + 1) + Len(body)
               /\ \A k \in 1 .. Len(a) : chars[k] = a[k]
               /\ chars[Len(a) + 1] = m
               /\ \A k \in 1 .. Len(body) : chars[(Len(a) + 1) + k] = body[k]
<1> DEFINE one == <<m>>
           front == a \o one
           chars == front \o body
<1>1. one \in Seq(S) /\ Len(one) = 1 /\ one[1] = m /\ Len(a) \in Nat /\ Len(body) \in Nat
  BY LenProperties
<1> HIDE DEF one
<1>2. /\ front \in Seq(S) /\ Len(front) = Len(a) + Len(one)
      /\ \A k \in 1 .. Len(a) : front[k] = a[k]
      /\ \A k \in 1 .. Len(one) : front[Len(a) + k] = one[k]
  <2>1. front = a \o one
    OBVIOUS
  <2>2. one \in Seq(S)
    BY <1>1
  <2> HIDE DEF front
  <2> QED BY <2>1, <2>2, JoinedAt
<1> HIDE DEF front
<1>3. /\ chars \in Seq(S) /\ Len(chars) = Len(front) + Len(body)
      /\ \A k \in 1 .. Len(front) : chars[k] = front[k]
      /\ \A k \in 1 .. Len(body) : chars[Len(front) + k] = body[k]
  <2>1. chars = front \o body
    OBVIOUS
  <2>2. front \in Seq(S)
    BY <1>2
  <2> HIDE DEF chars
  <2> QED BY <2>1, <2>2, JoinedAt
<1> HIDE DEF chars
<1>4. Len(front) = Len(a) + 1 /\ front[Len(a) + 1] = m
  BY <1>1, <1>2
<1>5. chars[Len(a) + 1] = m /\ \A k \in 1 .. Len(a) : chars[k] = a[k]
  BY <1>1, <1>2, <1>3, <1>4
<1> QED BY <1>3, <1>4, <1>5 DEF chars, front, one

\* A text with one.
LEMMA MarkedReads ==
    ASSUME NEW a \in Seq(Decimal), a # <<>>, NEW m \in {"s", "w"},
           NEW body \in Seq(BodyChar), Len(body) \in Nat \ {0}, Regular(body)
    PROVE  LET chars == (a \o <<m>>) \o body
           IN  /\ chars \in Seq(NumberChar) /\ Len(chars) \in Nat \ {0} /\ chars[1] \in Decimal
               /\ Marks(chars) = {Len(a) + 1} /\ WidthText(chars) = a /\ AfterMark(chars) = body
               /\ (IsSigned(chars) <=> m = "s") /\ Matches(chars)
<1> DEFINE chars == (a \o <<m>>) \o body
           n == Len(a) + 1
           S == NumberChar
<1>1. Len(a) \in Nat \ {0} /\ \A k \in 1 .. Len(a) : a[k] \in Decimal
  BY ElementOfSeq, EmptySeq, LenProperties
<1>2. a \in Seq(S) /\ body \in Seq(S) /\ m \in S
  BY BodyChars
<1>6. /\ chars \in Seq(S) /\ Len(chars) = n + Len(body)
      /\ \A k \in 1 .. Len(a) : chars[k] = a[k]
      /\ chars[n] = m
      /\ \A k \in 1 .. Len(body) : chars[n + k] = body[k]
  <2> HIDE DEF S
  <2> QED BY <1>2, MarkedAt
<1> HIDE DEF chars, S
<1>8. n \in Nat \ {0, 1}
  BY <1>1
<1>9. chars[n] = m /\ \A k \in 1 .. n - 1 : chars[k] = a[k] /\ chars[k] \in Decimal
  BY <1>1, <1>6, <1>8
<1>10. \A k \in 1 .. Len(body) : chars[n + k] = body[k] /\ chars[n + k] \in BodyChar
  BY <1>6, ElementOfSeq
<1>11. \A k \in n + 1 .. Len(chars) : k - n \in 1 .. Len(body) /\ n + (k - n) = k
  BY <1>6, <1>8
<1> HIDE DEF n
<1>12. Marks(chars) = {n}
  <2>1. DOMAIN chars = 1 .. Len(chars) /\ n \in 1 .. Len(chars)
    BY <1>6, <1>8, LenProperties
  <2>2. ASSUME NEW k \in 1 .. Len(chars), chars[k] \in {"s", "w"}
        PROVE  k = n
    <3>1. CASE k < n
      <4>1. k \in 1 .. n - 1
        BY <1>8, <3>1
      <4> QED BY <1>9, <2>2, <4>1, BodyChars
    <3>2. CASE k > n
      <4>1. k \in n + 1 .. Len(chars)
        BY <1>8, <3>2
      <4>2. chars[k] \in BodyChar
        BY <1>10, <1>11, <4>1
      <4> QED BY <2>2, <4>2, BodyChars
    <3> QED BY <1>8, <3>1, <3>2
  <2> QED BY <1>9, <2>1, <2>2 DEF Marks
<1>13. (CHOOSE k \in Marks(chars) : TRUE) = n
  BY <1>12
<1>14. WidthText(chars) = a
  <2> DEFINE w == SubSeq(chars, 1, n - 1)
  <2>1. WidthText(chars) = w
    BY <1>12, <1>13 DEF WidthText
  <2>2. w \in Seq(S) /\ Len(w) = n - 1 /\ \A k \in 1 .. n - 1 : w[k] = chars[k]
    BY <1>6, <1>8
  <2> HIDE DEF w
  <2>3. Len(w) = Len(a) /\ \A k \in 1 .. Len(a) : w[k] = a[k]
    BY <1>1, <1>9, <2>2 DEF n
  <2> QED BY <1>2, <2>1, <2>2, <2>3, SeqEqual
<1>15. AfterMark(chars) = body
  <2> DEFINE rest == SubSeq(chars, n + 1, Len(chars))
  <2>1. AfterMark(chars) = rest
    <3>1. AfterMark(chars) = SubSeq(chars, Len(a) + 2, Len(chars)) /\ Len(a) + 2 = n + 1
      BY <1>1, <1>12, <1>14 DEF AfterMark, n
    <3> QED BY <3>1
  <2>2. /\ rest \in Seq(S) /\ Len(rest) = Len(body)
        /\ \A k \in 1 .. Len(body) : rest[k] = chars[n + k]
    BY <1>6, <1>8
  <2> HIDE DEF rest
  <2>3. \A k \in 1 .. Len(body) : rest[k] = body[k]
    BY <1>10, <2>2
  <2> QED BY <1>2, <2>1, <2>2, <2>3, SeqEqual
<1>16. IsSigned(chars) <=> m = "s"
  BY <1>9, <1>12 DEF IsSigned
<1>17. Matches(chars)
  <2>1. n \in 0 .. Len(chars) - 1 /\ n # 1 /\ n # 0
    BY <1>6, <1>8
  <2>2. ASSUME NEW k \in n + 1 .. Len(chars)
        PROVE  \/ chars[k] \in HexDigit \cup {"_"}
               \/ k = n + 2 /\ chars[n + 1] = "0" /\ chars[k] \in BaseChar /\ Len(chars) > k
    <3>1. k - n \in 1 .. Len(body) /\ chars[k] = body[k - n]
      BY <1>10, <1>11
    <3>2. CASE body[k - n] \in HexDigit
      BY <3>1, <3>2
    <3>3. CASE k - n = 2 /\ body[1] = "0" /\ body[2] \in BaseChar /\ Len(body) > 2
      <4>1. 1 \in 1 .. Len(body) /\ k = n + 2 /\ Len(chars) > k
        BY <1>6, <1>8, <3>3
      <4>2. chars[n + 1] = body[1]
        BY <1>10, <4>1
      <4> QED BY <3>1, <3>3, <4>1, <4>2
    <3> QED BY <3>1, <3>2, <3>3 DEF Regular
  <2>3. \A k \in 1 .. n - 1 : chars[k] \in Decimal
    BY <1>9
  <2> QED BY <1>12, <2>1, <2>2, <2>3 DEF Matches
<1>18. Len(chars) \in Nat \ {0} /\ chars[1] \in Decimal
  BY <1>6, <1>8, <1>9
<1> QED BY <1>6, <1>12, <1>14, <1>15, <1>16, <1>17, <1>18 DEF S, n, chars

-----------------------------------------------------------------------------
(***************************************************************************)
(* What mask and sign leave of a number.                                   *)
(***************************************************************************)
LEMMA Divided ==
    ASSUME NEW n \in Nat, NEW bits \in Nat \ {0}
    PROVE  /\ n % bits \in 0 .. bits - 1 /\ n \div bits \in Nat
           /\ n = (n % bits) + (n \div bits) * bits
  OBVIOUS

LEMMA SignExtended ==
    ASSUME NEW w \in 1 .. MaxWidth, NEW m \in 0 .. TwoTo[w] - 1
    PROVE  LET half == TwoTo[w - 1]
           IN  /\ TwoTo[w] = 2 * half /\ half \in Nat \ {0} /\ TwoTo[w] \div 2 = half
               /\ SignExtend(m, w) = IF m < half THEN m ELSE m - TwoTo[w]
<1> DEFINE half == TwoTo[w - 1]
<1>1. w - 1 \in 0 .. MaxWidth /\ w \in 0 .. MaxWidth
  BY DEF MaxWidth
<1>2. half \in Nat \ {0} /\ TwoTo[w] = 2 * half
  BY <1>1, TwoToRecursion
<1>3. SignExtend(m, w) = (m % half) - (m \div half) * half
  BY DEF SignExtend
<1> HIDE DEF half
<1>4. TwoTo[w] \div 2 = half
  BY <1>2
<1>5. m \in Nat /\ m < 2 * half
  BY <1>2
<1>6. CASE m < half
  <2>1. m % half = m /\ m \div half = 0
    BY <1>2, <1>5, <1>6
  <2> QED BY <1>2, <1>3, <1>4, <1>5, <1>6, <2>1 DEF half
<1>7. CASE ~(m < half)
  <2>1. m % half = m - half /\ m \div half = 1
    BY <1>2, <1>5, <1>7
  <2>2. SignExtend(m, w) = m - TwoTo[w]
    BY <1>2, <1>3, <1>5, <2>1
  <2> QED BY <1>2, <1>4, <1>5, <1>7, <2>2 DEF half
<1> QED BY <1>6, <1>7

\* Cut to a width, and taken for a number with a sign or without.
ValueFits(v, n, w, signed) ==
    /\ \E k \in 0 .. n \div TwoTo[w] + 1 : n = v + k * TwoTo[w]
    /\ v \in IF signed THEN -(TwoTo[w] \div 2) .. TwoTo[w] \div 2 - 1 ELSE 0 .. TwoTo[w] - 1

LEMMA CutToWidth ==
    ASSUME NEW n \in Nat, NEW w \in 1 .. MaxWidth
    PROVE  /\ ValueFits(n % TwoTo[w], n, w, FALSE)
           /\ ValueFits(SignExtend(n % TwoTo[w], w), n, w, TRUE)
<1> DEFINE bits == TwoTo[w]
           q == n \div bits
           m == n % bits
           half == TwoTo[w - 1]
<1>1. bits \in Nat \ {0}
  <2>1. w \in 0 .. MaxWidth
    BY DEF MaxWidth
  <2> QED BY <2>1, TwoToRecursion
<1>2. m \in 0 .. bits - 1 /\ q \in Nat /\ n = m + q * bits
  <2> HIDE DEF bits
  <2> QED BY <1>1, Divided
<1>3. /\ bits = 2 * half /\ half \in Nat \ {0} /\ bits \div 2 = half
      /\ SignExtend(m, w) = IF m < half THEN m ELSE m - bits
  BY <1>2, SignExtended
<1> HIDE DEF m, q, bits, half
<1>4. q \in 0 .. q + 1 /\ q + 1 \in 0 .. q + 1
  BY <1>2
<1>5. ValueFits(m, n, w, FALSE)
  BY <1>2, <1>4 DEF ValueFits, bits, q
<1>6. CASE m < half
  <2>1. m \in -half .. half - 1
    BY <1>2, <1>3, <1>6
  <2>2. ValueFits(m, n, w, TRUE)
    BY <1>2, <1>3, <1>4, <2>1 DEF ValueFits, bits, q
  <2> QED BY <1>3, <1>5, <1>6, <2>2 DEF m, bits
<1>7. CASE ~(m < half)
  <2>1. m - bits \in -half .. half - 1
    BY <1>2, <1>3, <1>7
  <2>2. n = (m - bits) + (q + 1) * bits
    BY <1>1, <1>2
  <2>3. ValueFits(m - bits, n, w, TRUE)
    BY <1>2, <1>3, <1>4, <2>1, <2>2 DEF ValueFits, bits, q
  <2> QED BY <1>3, <1>5, <1>7, <2>3 DEF m, bits
<1> QED BY <1>6, <1>7

-----------------------------------------------------------------------------
(***************************************************************************)
(* What read_number makes of a literal.                                    *)
(***************************************************************************)
LEMMA ReadsParts ==
    ASSUME NEW chars, NEW v, NEW w, Matches(chars), NEW base, NEW digits,
           Base(AfterMark(chars)) = base, Digits(AfterMark(chars)) = digits,
           \A n \in DOMAIN digits : digits[n] \in DigitsOf(base), stoi(digits, base) # Thrown
    PROVE  LET width_ == IF Marks(chars) # {} THEN stoi(WidthText(chars), 10) ELSE w
               number == stoi(digits, base)
               masked == IF Marks(chars) # {} THEN number % TwoTo[width_] ELSE number
           IN  width_ # Thrown =>
                 read_number(chars, v, w) =
                   IF IsSigned(chars) /\ width_ < 2 THEN Unknown(v, width_)
                   ELSE Number(IF IsSigned(chars) THEN SignExtend(masked, width_) ELSE masked, width_)
<1> DEFINE prefixed == Marks(chars) # {}
           width_ == IF prefixed THEN stoi(WidthText(chars), 10) ELSE w
           number == stoi(digits, base)
           masked == IF prefixed THEN number % TwoTo[width_] ELSE number
           bad == \E n \in DOMAIN digits : digits[n] \notin DigitsOf(base) \cup {"_"}
<1>1. read_number(chars, v, w) =
        IF ~Matches(chars) THEN Unknown(v, w)
        ELSE IF width_ = Thrown THEN Exception(w)
        ELSE IF IsSigned(chars) /\ width_ < 2 THEN Unknown(v, width_)
        ELSE IF bad THEN Unknown(v, width_)
        ELSE IF number = Thrown THEN Exception(width_)
        ELSE IF IsSigned(chars) THEN Number(SignExtend(masked, width_), width_)
        ELSE Number(masked, width_)
  BY Zenon DEF read_number
<1>2. ~bad /\ number # Thrown
  OBVIOUS
<1> HIDE DEF prefixed, width_, number, masked, bad
<1>3. ASSUME width_ # Thrown
      PROVE  read_number(chars, v, w) =
               IF IsSigned(chars) /\ width_ < 2 THEN Unknown(v, width_)
               ELSE Number(IF IsSigned(chars) THEN SignExtend(masked, width_) ELSE masked, width_)
  BY <1>1, <1>2, <1>3
<1> QED BY <1>3 DEF prefixed, width_, number, masked

\* The value that LiteralValue speaks of.
ReadsLiteral(l, n) ==
    IF l.signed /\ l.width < 2 THEN n.token = "T_UNKNOWN"
    ELSE /\ n.token = "T_NUMBER"
         /\ n.width = IF l.width = NoWidth THEN 32 ELSE l.width
         /\ l.width = NoWidth => n.value = Denoted(l.digits, l.base)
         /\ l.width # NoWidth => ValueFits(n.value, Denoted(l.digits, l.base), l.width, l.signed)

LEMMA LiteralReads ==
    ASSUME NEW l \in Literals
    PROVE  /\ LiteralText(l) \in Seq(NumberChar) /\ Len(LiteralText(l)) \in Nat \ {0}
           /\ LiteralText(l)[1] \in Decimal
           /\ ReadsLiteral(l, read_number(LiteralText(l), 0, 32))
<1> DEFINE body == BaseMark(l.base) \o l.digits
           number == Denoted(l.digits, l.base)
           chars == LiteralText(l)
           read == read_number(chars, 0, 32)
<1>1. /\ l.width \in 0 .. MaxWidth /\ l.signed \in BOOLEAN /\ l.base \in Bases
      /\ l.digits \in Seq(DigitsOf(l.base)) /\ l.digits # <<>>
      /\ number <= MaxInt
      /\ l.signed => l.width # NoWidth
  BY LiteralsAssumption DEF Readable, Bases
<1>2. /\ body \in Seq(BodyChar) /\ Len(body) \in Nat \ {0} /\ body[1] \in Decimal
      /\ Regular(body) /\ Base(body) = l.base /\ Digits(body) = l.digits
  BY <1>1, BodyReads
<1>3. stoi(l.digits, l.base) = number /\ number \in Nat /\ number # Thrown
  <2>1. stoi(l.digits, l.base) = number /\ number \in Nat
    BY <1>1, StoiDenotes
  <2> HIDE DEF number
  <2> QED BY <2>1 DEF Thrown
<1>4. \A n \in DOMAIN l.digits : l.digits[n] \in DigitsOf(l.base)
  BY <1>1, ElementOfSeq, LenProperties
<1>5. /\ \A x, y : /\ Number(x, y).token = "T_NUMBER" /\ Number(x, y).width = y
                   /\ Number(x, y).value = x
      /\ \A x, y : Unknown(x, y).token = "T_UNKNOWN"
  BY DEF Number, Unknown
<1> HIDE DEF number
<1>6. ASSUME l.width = NoWidth
      PROVE  /\ chars \in Seq(NumberChar) /\ Len(chars) \in Nat \ {0} /\ chars[1] \in Decimal
             /\ ReadsLiteral(l, read)
  <2>1. chars = body
    <3>1. chars = <<>> \o body
      BY <1>6 DEF LiteralText
    <3> HIDE DEF body
    <3> QED BY <1>2, <3>1
  <2>2. ~l.signed
    BY <1>1, <1>6
  <2> HIDE DEF body
  <2>3. Marks(body) = {} /\ AfterMark(body) = body /\ ~IsSigned(body) /\ Matches(body)
    BY <1>2, UnmarkedReads
  <2>4. read = Number(number, 32)
    <3>1. 32 # Thrown
      BY DEF Thrown
    <3> HIDE DEF read
    <3>2. read_number(body, 0, 32) = Number(number, 32)
      BY <1>2, <1>3, <1>4, <2>3, <3>1, ReadsParts
    <3> QED BY <2>1, <3>2 DEF read
  <2> HIDE DEF chars, read
  <2>5. ReadsLiteral(l, read)
    BY <1>5, <1>6, <2>2, <2>4 DEF ReadsLiteral, number
  <2>6. body \in Seq(NumberChar)
    BY <1>2, BodyChars
  <2> QED BY <1>2, <2>1, <2>5, <2>6
<1>7. ASSUME l.width # NoWidth
      PROVE  /\ chars \in Seq(NumberChar) /\ Len(chars) \in Nat \ {0} /\ chars[1] \in Decimal
             /\ ReadsLiteral(l, read)
  <2> DEFINE a == DecimalText(l.width)
             m == IF l.signed THEN "s" ELSE "w"
             bits == TwoTo[l.width]
             value_ == IF l.signed THEN SignExtend(number % bits, l.width) ELSE number % bits
  <2>1. chars = (a \o <<m>>) \o body
    BY <1>7 DEF LiteralText
  <2>2. l.width \in 1 .. MaxWidth
    BY <1>1, <1>7 DEF NoWidth, MaxWidth
  <2>3. a \in Seq(Decimal) /\ a # <<>> /\ stoi(a, 10) = l.width /\ l.width # Thrown
    <3>1. l.width # Thrown
      BY <2>2 DEF Thrown, MaxWidth
    <3> QED BY <1>1, <3>1, WidthReads
  <2>4. m \in {"s", "w"} /\ (m = "s" <=> l.signed)
    BY <1>1
  <2> HIDE DEF a, m, body, chars, read
  <2>5. /\ chars \in Seq(NumberChar) /\ Len(chars) \in Nat \ {0} /\ chars[1] \in Decimal
        /\ Marks(chars) = {Len(a) + 1} /\ WidthText(chars) = a /\ AfterMark(chars) = body
        /\ (IsSigned(chars) <=> m = "s") /\ Matches(chars)
    BY <1>2, <2>1, <2>3, <2>4, MarkedReads
  <2>6. Marks(chars) # {} /\ (IsSigned(chars) <=> l.signed)
    BY <2>4, <2>5
  <2>7. read = IF IsSigned(chars) /\ l.width < 2 THEN Unknown(0, l.width)
               ELSE Number(IF IsSigned(chars) THEN SignExtend(number % bits, l.width)
                           ELSE number % bits, l.width)
    <3> DEFINE width_ == IF Marks(chars) # {} THEN stoi(WidthText(chars), 10) ELSE 32
               found == stoi(l.digits, l.base)
               masked == IF Marks(chars) # {} THEN found % TwoTo[width_] ELSE found
    <3>1. width_ # Thrown =>
            read_number(chars, 0, 32) =
              IF IsSigned(chars) /\ width_ < 2 THEN Unknown(0, width_)
              ELSE Number(IF IsSigned(chars) THEN SignExtend(masked, width_) ELSE masked, width_)
      <4>1. Base(AfterMark(chars)) = l.base /\ Digits(AfterMark(chars)) = l.digits
        BY <1>2, <2>5
      <4> QED BY <1>3, <1>4, <2>5, <4>1, ReadsParts
    <3>2. width_ = l.width /\ found = number
      BY <1>3, <2>3, <2>5, <2>6
    <3>3. masked = number % bits
      <4> HIDE DEF width_, found
      <4> QED BY <2>6, <3>2
    <3> HIDE DEF width_, masked, bits
    <3> QED BY <2>3, <3>1, <3>2, <3>3 DEF read
  <2>8. ValueFits(value_, number, l.width, l.signed)
    <3>1. CASE l.signed
      BY <1>3, <2>2, <3>1, CutToWidth
    <3>2. CASE ~l.signed
      <4>1. l.signed = FALSE
        BY <1>1, <3>2
      <4> QED BY <1>3, <2>2, <4>1, CutToWidth
    <3> QED BY <3>1, <3>2
  <2>9. read = IF l.signed /\ l.width < 2 THEN Unknown(0, l.width) ELSE Number(value_, l.width)
    BY <2>6, <2>7
  <2> HIDE DEF value_, bits
  <2>10. ReadsLiteral(l, read)
    BY <1>5, <1>7, <2>8, <2>9 DEF ReadsLiteral, number
  <2> QED BY <2>5, <2>10
<1> QED BY <1>6, <1>7

-----------------------------------------------------------------------------
(***************************************************************************)
(* A literal is read as far as last, or was read.                          *)
(***************************************************************************)
LiteralAhead ==
    /\ tokens = <<>> /\ value = 0 /\ width = 32 /\ pc \in {"idle", "space", "number"}
    /\ pc # "number" =>
         \/ lexer.last = " " /\ Taken(input, lexer) = 0
         \/ StandsAt(input, lexer, 1)
    /\ pc = "number" =>
         \E p \in 1 .. Len(input) :
             StandsAt(input, lexer, p) /\ numstr = SubSeq(input, 1, p - 1)

LiteralDone ==
    LET number == read_number(input, 0, 32)
    IN  /\ tokens # <<>> /\ lexer.last = EOF /\ pc \in {"idle", "space"}
        /\ tokens[1].token = number.token
        /\ number.token # "exception" => value = number.value /\ width = number.width

ValueInv == LexerInv /\ (input \in LiteralTexts => LiteralAhead \/ LiteralDone)

LEMMA LiteralInput ==
    ASSUME LexerInv, input \in LiteralTexts
    PROVE  /\ input \in Seq(NumberChar) /\ input \in Seq(Character) /\ Sound(input, lexer)
           /\ Len(input) \in Nat \ {0} /\ input[1] \in Decimal
           /\ \A n \in 1 .. Len(input) : input[n] \in NumberChar
<1>1. PICK l \in Literals : LiteralText(l) = input
  BY DEF LiteralTexts
<1>2. input \in Seq(NumberChar) /\ Len(input) \in Nat \ {0} /\ input[1] \in Decimal
  BY <1>1, LiteralReads
<1> QED BY <1>2, ElementOfSeq, InvParts

\* Where a literal begins, nothing else does.
LEMMA LiteralBegins ==
    ASSUME LexerInv, input \in LiteralTexts, LiteralAhead, pc = "space"
    PROVE  /\ lexer.last # EOF /\ lexer.last \notin NameChar \ Decimal
           /\ lexer.last \in Space \cup Decimal
           /\ lexer.last \in Space => lexer.last = " " /\ Taken(input, lexer) = 0
           /\ lexer.last \in Decimal => StandsAt(input, lexer, 1)
<1>1. \/ lexer.last = " " /\ Taken(input, lexer) = 0
      \/ StandsAt(input, lexer, 1)
  <2>1. pc # "number"
    OBVIOUS
  <2> QED BY <2>1, Zenon DEF LiteralAhead
<1>2. CASE lexer.last = " " /\ Taken(input, lexer) = 0
  <2>1. lexer.last \in Space /\ lexer.last # EOF
    BY <1>2, Zenon DEF Space, EOF
  <2> QED BY <1>2, <2>1, CharacterKinds
<1>3. CASE StandsAt(input, lexer, 1)
  <2>1. 1 \in 1 .. Len(input) /\ input[1] \in Decimal
    BY LiteralInput
  <2>2. lexer.last = input[1]
    BY <1>3, <2>1, LiteralInput, StandsWhere
  <2>3. lexer.last \in Decimal
    BY <2>1, <2>2
  <2> QED BY <1>3, <2>3, CharacterKinds
<1> QED BY <1>1, <1>2, <1>3

LEMMA LiteralReadOn ==
    ASSUME LexerInv, LexerInv', input \in LiteralTexts, LiteralAhead, ReadNumber
    PROVE  LiteralAhead' \/ LiteralDone'
<1> DEFINE l == advance(lexer)
           number == read_number(numstr', value, width)
           entry == [token |-> number.token, last |-> l.last]
<1>1. /\ input' = input /\ pc = "number" /\ numstr' = Append(numstr, lexer.last)
      /\ \/ l.last \in NumberChar /\ GoOn(l, "number") /\ UNCHANGED <<value, width>>
         \/ /\ l.last \notin NumberChar /\ Return(l, number.token)
            /\ number.token # "exception" => value' = number.value /\ width' = number.width
  BY DEF ReadNumber
<1>2. tokens = <<>> /\ value = 0 /\ width = 32
  BY DEF LiteralAhead
<1>3. PICK p \in 1 .. Len(input) : StandsAt(input, lexer, p) /\ numstr = SubSeq(input, 1, p - 1)
  BY <1>1 DEF LiteralAhead
<1>4. Len(input) \in Nat /\ p \in Nat \ {0} /\ p + 1 \in 1 .. Len(input) + 1
  BY LiteralInput
<1>5. StandsAt(input, l, p + 1)
  BY <1>3, LiteralInput, AdvanceStands
<1> HIDE DEF l
<1>6. numstr' = SubSeq(input, 1, p)
  <2>1. lexer.last = input[p]
    BY <1>3, LiteralInput, StandsWhere
  <2>2. p - 1 \in Nat /\ (p - 1) + 1 = p /\ 1 <= (p - 1) + 1 /\ (p - 1) + 1 <= Len(input)
    BY <1>4
  <2>3. Append(SubSeq(input, 1, p - 1), input[p]) = SubSeq(input, 1, p)
    BY <2>2, LiteralInput, OneMore
  <2> QED BY <1>1, <1>3, <2>1, <2>3
<1>7. CASE l.last \in NumberChar /\ GoOn(l, "number") /\ UNCHANGED <<value, width>>
  <2>1. lexer' = l /\ pc' = "number" /\ tokens' = tokens /\ value' = 0 /\ width' = 32
    BY <1>2, <1>7 DEF GoOn
  <2>2. l.last # EOF
    BY <1>7, CharacterKinds
  <2>3. p + 1 \in 1 .. Len(input) /\ (p + 1) - 1 = p
    BY <1>4, <1>5, <2>2, LiteralInput, StandsWhere
  <2>4. \E q \in 1 .. Len(input') : StandsAt(input', lexer', q) /\ numstr' = SubSeq(input', 1, q - 1)
    BY <1>1, <1>5, <1>6, <2>1, <2>3
  <2> QED BY <1>2, <2>1, <2>4 DEF LiteralAhead
<1>8. CASE /\ l.last \notin NumberChar /\ Return(l, number.token)
           /\ number.token # "exception" => value' = number.value /\ width' = number.width
  <2>1. p = Len(input) /\ l.last = EOF
    <3> SUFFICES ASSUME p + 1 \in 1 .. Len(input) PROVE FALSE
      BY <1>4, <1>5, LiteralInput, StandsWhere
    <3>1. l.last = input[p + 1] /\ input[p + 1] \in NumberChar
      BY <1>5, LiteralInput, StandsWhere
    <3> QED BY <1>8, <3>1
  <2>2. numstr' = input
    BY <1>6, <2>1, LiteralInput
  <2>3. number = read_number(input', 0, 32)
    BY <1>1, <1>2, <2>2
  <2>4. lexer' = l /\ pc' = "idle" /\ tokens' = Append(<<>>, entry) /\ entry.token = number.token
    BY <1>2, <1>8 DEF Return
  <2> HIDE DEF number, entry
  <2>5. tokens' = <<entry>>
    BY <2>4
  <2>6. tokens' # <<>> /\ tokens'[1].token = number.token
    BY <2>4, <2>5
  <2> QED BY <1>8, <2>1, <2>3, <2>4, <2>6 DEF LiteralDone
<1> QED BY <1>1, <1>7, <1>8

LEMMA LiteralNext == ValueInv /\ [LexerNext]_vars => ValueInv'
<1> SUFFICES ASSUME ValueInv, [LexerNext]_vars PROVE ValueInv'
  OBVIOUS
<1>1. LexerInv /\ LexerInv'
  BY InvNext DEF ValueInv
<1>2. CASE UNCHANGED vars
  BY <1>1, <1>2 DEF vars, locals, literals, ValueInv, LiteralAhead, LiteralDone
<1>3. ASSUME LexerNext
      PROVE  input' = input
  BY <1>3 DEF LexerNext, Call, SkipSpace, EndOfInput, BeginName, ReadName, BeginNumber,
              ReadNumber, BeginOther, ReadOperator, BeginString, ReadString, ReadLocation,
              LineComment, BeginBlock, BlockComment, Stars
<1>4. ASSUME LexerNext, input \in LiteralTexts, LiteralAhead
      PROVE  LiteralAhead' \/ LiteralDone'
  <2>1. pc \in {"idle", "space", "number"} /\ input' = input
    BY <1>3, <1>4 DEF LiteralAhead
  <2>2. CASE Call
    <3>1. lexer' = lexer /\ pc' = "space" /\ UNCHANGED <<tokens, value, width>> /\ pc = "idle"
      BY <2>2 DEF Call, GoOn, literals
    <3> QED BY <1>4, <2>1, <3>1 DEF LiteralAhead
  <2>3. CASE SkipSpace
    <3>1. /\ lexer' = advance(lexer) /\ pc' = "space" /\ UNCHANGED <<tokens, value, width>>
          /\ pc = "space" /\ lexer.last \in Space
      BY <2>3 DEF SkipSpace, GoOn, literals
    <3>2. StandsAt(input, lexer', 1)
      <4>1. lexer.last # EOF /\ Taken(input, lexer) = 0
        BY <1>1, <1>4, <3>1, LiteralBegins
      <4>2. StandsAt(input, advance(lexer), 1)
        BY <1>1, <1>4, <4>1, FirstStands, LiteralInput
      <4> QED BY <3>1, <4>2
    <3> QED BY <1>4, <2>1, <3>1, <3>2 DEF LiteralAhead
  <2>4. CASE BeginNumber
    <3>1. /\ lexer' = lexer /\ pc' = "number" /\ UNCHANGED <<tokens, value, width>>
          /\ pc = "space" /\ lexer.last \in Decimal /\ numstr' = <<>>
      BY <2>4 DEF BeginNumber, GoOn, literals
    <3>2. StandsAt(input, lexer, 1)
      BY <1>1, <1>4, <3>1, LiteralBegins
    <3>3. SubSeq(input, 1, 1 - 1) = <<>> /\ 1 \in 1 .. Len(input)
      BY <1>1, <1>4, LiteralInput
    <3>4. \E p \in 1 .. Len(input') :
            StandsAt(input', lexer', p) /\ numstr' = SubSeq(input', 1, p - 1)
      BY <2>1, <3>1, <3>2, <3>3
    <3> QED BY <1>4, <3>1, <3>4 DEF LiteralAhead
  <2>5. CASE ReadNumber
    BY <1>1, <1>4, <2>5, LiteralReadOn
  <2>6. CASE EndOfInput \/ BeginName \/ BeginOther
    <3>1. /\ pc = "space"
          /\ \/ lexer.last = EOF \/ lexer.last \in NameChar \ Decimal
             \/ lexer.last \notin Space \cup NameChar \cup Decimal
      BY <2>6 DEF EndOfInput, BeginName, BeginOther
    <3> QED BY <1>1, <1>4, <3>1, LiteralBegins
  <2>7. CASE ReadName \/ ReadOperator \/ BeginString \/ ReadString \/ ReadLocation
             \/ LineComment \/ BeginBlock \/ BlockComment \/ Stars
    <3>1. pc \in {"name", "other", "string", "block", "stars"}
      BY <2>7 DEF ReadName, ReadOperator, BeginString, ReadString, ReadLocation, LineComment,
                  BeginBlock, BlockComment, Stars
    <3> QED BY <2>1, <3>1
  <2> QED BY <1>4, <2>2, <2>3, <2>4, <2>5, <2>6, <2>7 DEF LexerNext
<1>5. ASSUME LexerNext, LiteralDone
      PROVE  LiteralDone'
  <2>1. pc \in {"idle", "space"} /\ lexer.last = EOF /\ input' = input /\ tokens # <<>>
    BY <1>3, <1>5 DEF LiteralDone
  <2>2. CASE Call
    <3>1. lexer' = lexer /\ pc' = "space" /\ UNCHANGED <<tokens, value, width>>
      BY <2>2 DEF Call, GoOn, literals
    <3> QED BY <1>5, <2>1, <3>1 DEF LiteralDone
  <2>3. CASE EndOfInput
    <3>1. lexer' = lexer /\ pc' = "idle" /\ Return(lexer, "T_END") /\ UNCHANGED <<value, width>>
      BY <2>3 DEF EndOfInput, Return, literals
    <3>2. tokens' # <<>> /\ tokens'[1] = tokens[1]
      <4> DEFINE entry == [token |-> "T_END", last |-> lexer.last]
      <4>1. tokens' = Append(tokens, entry)
        BY <3>1 DEF Return
      <4> HIDE DEF entry
      <4>2. tokens \in Seq(Returned) /\ Len(tokens) \in Nat \ {0}
        BY <1>1, <2>1, EmptySeq, LenProperties DEF LexerInv
      <4> QED BY <4>1, <4>2
    <3> QED BY <1>5, <2>1, <3>1, <3>2 DEF LiteralDone
  <2>4. CASE SkipSpace \/ BeginName \/ BeginNumber \/ BeginOther
    <3>1. lexer.last \in Space \cup NameChar \cup Decimal \/ lexer.last # EOF
      BY <2>4 DEF SkipSpace, BeginName, BeginNumber, BeginOther
    <3> QED BY <2>1, <3>1, CharacterKinds
  <2>5. CASE ReadName \/ ReadNumber \/ ReadOperator \/ BeginString \/ ReadString \/ ReadLocation
             \/ LineComment \/ BeginBlock \/ BlockComment \/ Stars
    <3>1. pc \in {"name", "number", "other", "string", "block", "stars"}
      BY <2>5 DEF ReadName, ReadNumber, ReadOperator, BeginString, ReadString, ReadLocation,
                  LineComment, BeginBlock, BlockComment, Stars
    <3> QED BY <2>1, <3>1
  <2> QED BY <1>5, <2>2, <2>3, <2>4, <2>5 DEF LexerNext
<1> QED BY <1>1, <1>2, <1>3, <1>4, <1>5 DEF ValueInv

LEMMA LiteralInit == LexerInit => ValueInv
<1> SUFFICES ASSUME LexerInit PROVE ValueInv
  OBVIOUS
<1>1. LongInv
  BY LongInit
<1>2. tokens = <<>> /\ value = 0 /\ width = 32 /\ pc = "idle"
  BY Zenon DEF LexerInit
<1>3. lexer.last = " " /\ Taken(input, lexer) = 0
  BY BlankInit
<1>4. LiteralAhead
  <2>1. pc # "number" /\ pc \in {"idle", "space", "number"}
    BY <1>2
  <2> QED BY <1>2, <1>3, <2>1, Zenon DEF LiteralAhead
<1> QED BY <1>1, <1>4 DEF ValueInv, LongInv

(***************************************************************************)
(* read_number reads a literal in one token, and its value is what the     *)
(* digits denote, cut to the width and signed as the prefix says.          *)
(***************************************************************************)
THEOREM LexerLiteralValue == LexerSpec => []LiteralValue
<1>1. ValueInv => LiteralValue
  <2> SUFFICES ASSUME ValueInv, Len(tokens) = 1, NEW l \in Literals, LiteralText(l) = input
               PROVE  IF l.signed /\ l.width < 2 THEN tokens[1].token = "T_UNKNOWN"
                      ELSE /\ tokens[1].token = "T_NUMBER"
                           /\ width = IF l.width = NoWidth THEN 32 ELSE l.width
                           /\ l.width = NoWidth => value = Denoted(l.digits, l.base)
                           /\ l.width # NoWidth =>
                                ValueFits(value, Denoted(l.digits, l.base), l.width, l.signed)
    BY Zenon DEF LiteralValue, ValueFits
  <2>1. input \in LiteralTexts
    BY DEF LiteralTexts
  <2>2. LiteralDone
    <3>1. tokens # <<>>
      OBVIOUS
    <3> QED BY <2>1, <3>1 DEF ValueInv, LiteralAhead
  <2>3. ReadsLiteral(l, read_number(input, 0, 32))
    BY LiteralReads
  <2> DEFINE number == read_number(input, 0, 32)
  <2>4. tokens[1].token = number.token
        /\ (number.token # "exception" => value = number.value /\ width = number.width)
    BY <2>2 DEF LiteralDone
  <2> HIDE DEF number
  <2>5. ReadsLiteral(l, number)
    BY <2>3 DEF number
  <2> QED BY <2>4, <2>5 DEF ReadsLiteral
<1> QED BY <1>1, LiteralInit, LiteralNext, PTL DEF LexerSpec

=============================================================================
