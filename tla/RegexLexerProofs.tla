-------------------------- MODULE RegexLexerProofs --------------------------
(***************************************************************************)
(* Proofs about RegexLexer, for any lists of expressions over any alphabet *)
(* and any input.                                                          *)
(*                                                                         *)
(* The attributes of a node read a word from one place to another by a     *)
(* walk: positions that match the characters between them, from a first    *)
(* one to a last one, each followed by the next.  By induction over a tree *)
(* the walks of a node read what the node stands for (TreeAgrees); in the  *)
(* tree of a list the positions of one expression never mix with those of  *)
(* another (ListComposed); the table stands at the positions that walks    *)
(* lead to (PositionsArePaths, MatchIsLongest).  Together these say which  *)
(* token do_match recognises (LexerTakesLongestFirst).                     *)
(***************************************************************************)
EXTENDS RegexLexer, SequenceLemmas

(***************************************************************************)
(* The walks through the positions of A: p has a position for each of the  *)
(* characters of the word from a + 1 to b.                                 *)
(***************************************************************************)
Connected(A, word, p, a, b) ==
    /\ p \in [a + 1 .. b -> Nat]
    /\ \A i \in a + 1 .. b : <<p[i], word[i]>> \in A.match
    /\ \A i \in a + 1 .. b - 1 : <<p[i], p[i + 1]>> \in A.follow

Walk(A, word, p, a, b) ==
    a < b /\ Connected(A, word, p, a, b) /\ p[a + 1] \in A.first /\ p[b] \in A.last

Reads(A, word, a, b) == (a = b /\ A.nullable) \/ \E p : Walk(A, word, p, a, b)

\* A walk with its first and its last position.
WalksFromTo(A, word, a, b, from, to) ==
    \E p : Connected(A, word, p, a, b) /\ p[a + 1] = from /\ p[b] = to

LEMMA WalkReads ==
    ASSUME NEW A, NEW word, NEW a \in Nat, NEW b \in Nat, a < b, NEW from, NEW to,
           WalksFromTo(A, word, a, b, from, to), from \in A.first, to \in A.last
    PROVE  \E p : Walk(A, word, p, a, b)
BY DEF WalksFromTo, Walk

\* The positions of A are among P.
IsPart(A, P) ==
    /\ P \subseteq Nat /\ A.first \subseteq P /\ A.last \subseteq P
    /\ \A q, r : <<q, r>> \in A.follow => q \in P /\ r \in P
    /\ \A q, c : <<q, c>> \in A.match => q \in P

LEMMA StaysIn ==
    ASSUME NEW a \in Nat, NEW b \in Nat, NEW p, NEW P, NEW E,
           \A i \in a + 1 .. b - 1 : <<p[i], p[i + 1]>> \in E,
           \A q, r : <<q, r>> \in E /\ q \in P => r \in P,
           NEW m \in a + 1 .. b, p[m] \in P
    PROVE  \A i \in m .. b : p[i] \in P
<1> DEFINE N == { n \in Nat : m + n \in m .. b => p[m + n] \in P }
<1>1. 0 \in N
  OBVIOUS
<1>2. ASSUME NEW n \in Nat, n \in N
      PROVE  n + 1 \in N
  <2>1. CASE m + (n + 1) \in m .. b
    <3>1. m + n \in a + 1 .. b - 1 /\ m + n \in m .. b /\ (m + n) + 1 = m + (n + 1)
      BY <2>1
    <3>2. p[m + n] \in P /\ <<p[m + n], p[(m + n) + 1]>> \in E
      BY <1>2, <3>1
    <3>3. p[(m + n) + 1] \in P
      BY <3>2
    <3> QED BY <3>1, <3>3
  <2> QED BY <2>1
<1> HIDE DEF N
<1>3. \A n \in Nat : n \in N
  BY <1>1, <1>2, Induction
<1>4. ASSUME NEW i \in m .. b
      PROVE  p[i] \in P
  <2>1. i - m \in Nat /\ m + (i - m) = i
    OBVIOUS
  <2>2. i - m \in N
    BY <1>3, <2>1
  <2> QED BY <2>1, <2>2 DEF N
<1> QED BY <1>4

\* What C has of A.
Within(A, C) ==
    /\ \A x \in A.match : x \in C.match
    /\ \A x \in A.follow : x \in C.follow

\* A walk through a part is one through the whole.
LEMMA WalkThroughMore ==
    ASSUME NEW A, NEW C, NEW word, NEW p, NEW a, NEW b, Walk(A, word, p, a, b),
           A.first \subseteq C.first, A.last \subseteq C.last,
           Within(A, C)
    PROVE  Walk(C, word, p, a, b)
BY DEF Walk, Connected, Within

-----------------------------------------------------------------------------
\* The attributes of an or_node, a cat_node and a star_node.
JoinsOr(C, A, B) ==
    /\ C.nullable = (A.nullable \/ B.nullable)
    /\ C.first = A.first \cup B.first
    /\ C.last = A.last \cup B.last
    /\ C.follow = A.follow \cup B.follow
    /\ C.match = A.match \cup B.match

JoinsCat(C, A, B) ==
    /\ C.nullable = (A.nullable /\ B.nullable)
    /\ C.first = A.first \cup (IF A.nullable THEN B.first ELSE {})
    /\ C.last = B.last \cup (IF B.nullable THEN A.last ELSE {})
    /\ C.follow = (A.last \X B.first) \cup A.follow \cup B.follow
    /\ C.match = A.match \cup B.match

Repeats(C, A) ==
    /\ C.nullable
    /\ C.first = A.first
    /\ C.last = A.last
    /\ C.follow = (A.last \X A.first) \cup A.follow
    /\ C.match = A.match

\* A walk that starts in one operand of an or_node stays in it.
LEMMA OrWalk ==
    ASSUME NEW A, NEW B, NEW C, NEW P, NEW Q, IsPart(A, P), IsPart(B, Q), P \cap Q = {},
           JoinsOr(C, A, B), NEW word, NEW a \in Nat, NEW b \in Nat, NEW p,
           Walk(C, word, p, a, b), p[a + 1] \in A.first
    PROVE  Walk(A, word, p, a, b)
<1>1. /\ a < b /\ p \in [a + 1 .. b -> Nat]
      /\ \A i \in a + 1 .. b : <<p[i], word[i]>> \in C.match
      /\ \A i \in a + 1 .. b - 1 : <<p[i], p[i + 1]>> \in C.follow
      /\ p[b] \in C.last
  BY DEF Walk, Connected
<1>2. \A i \in a + 1 .. b : p[i] \in P
  <2>1. \A q, r : <<q, r>> \in C.follow /\ q \in P => r \in P
    BY DEF IsPart, JoinsOr
  <2>2. a + 1 \in a + 1 .. b /\ p[a + 1] \in P
    BY <1>1 DEF IsPart
  <2> QED BY <1>1, <2>1, <2>2, StaysIn
<1>3. p[b] \in A.last
  <2>1. b \in a + 1 .. b
    BY <1>1
  <2> QED BY <1>1, <1>2, <2>1 DEF IsPart, JoinsOr
<1>4. \A i \in a + 1 .. b : <<p[i], word[i]>> \in A.match
  BY <1>1, <1>2 DEF IsPart, JoinsOr
<1>5. \A i \in a + 1 .. b - 1 : <<p[i], p[i + 1]>> \in A.follow
  <2>1. \A i \in a + 1 .. b - 1 : i \in a + 1 .. b
    BY <1>1
  <2> QED BY <1>1, <1>2, <2>1 DEF IsPart, JoinsOr
<1> QED BY <1>1, <1>3, <1>4, <1>5 DEF Walk, Connected

LEMMA OrReads ==
    ASSUME NEW A, NEW B, NEW C, NEW P, NEW Q, IsPart(A, P), IsPart(B, Q), P \cap Q = {},
           JoinsOr(C, A, B), NEW word, NEW a \in Nat, NEW b \in Nat
    PROVE  Reads(C, word, a, b) <=> Reads(A, word, a, b) \/ Reads(B, word, a, b)
<1>1. JoinsOr(C, B, A) /\ Q \cap P = {}
  BY DEF JoinsOr
<1>2. ASSUME NEW p, Walk(C, word, p, a, b)
      PROVE  Walk(A, word, p, a, b) \/ Walk(B, word, p, a, b)
  <2>1. p[a + 1] \in A.first \/ p[a + 1] \in B.first
    BY <1>2 DEF Walk, JoinsOr
  <2> QED BY <1>1, <1>2, <2>1, OrWalk
<1>3. ASSUME NEW p, Walk(A, word, p, a, b)
      PROVE  Walk(C, word, p, a, b)
  BY <1>3, WalkThroughMore DEF JoinsOr, Within
<1>4. ASSUME NEW p, Walk(B, word, p, a, b)
      PROVE  Walk(C, word, p, a, b)
  BY <1>4, WalkThroughMore DEF JoinsOr, Within
<1>5. C.nullable <=> A.nullable \/ B.nullable
  BY DEF JoinsOr
<1> QED BY <1>2, <1>3, <1>4, <1>5 DEF Reads

-----------------------------------------------------------------------------
\* A walk through a cat_node that starts in the right operand stays in it.
LEMMA CatWalkRight ==
    ASSUME NEW A, NEW B, NEW C, NEW P, NEW Q, IsPart(A, P), IsPart(B, Q), P \cap Q = {},
           JoinsCat(C, A, B), NEW word, NEW a \in Nat, NEW b \in Nat, NEW p,
           Connected(C, word, p, a, b), NEW c \in a .. b - 1, p[c + 1] \in Q
    PROVE  /\ \A i \in c + 1 .. b : p[i] \in Q /\ <<p[i], word[i]>> \in B.match
           /\ \A i \in c + 1 .. b - 1 : <<p[i], p[i + 1]>> \in B.follow
<1>1. /\ \A i \in a + 1 .. b : <<p[i], word[i]>> \in C.match
      /\ \A i \in a + 1 .. b - 1 : <<p[i], p[i + 1]>> \in C.follow
  BY DEF Connected
<1>2. \A q, r : <<q, r>> \in C.follow /\ q \in Q => r \in Q /\ <<q, r>> \in B.follow
  BY DEF IsPart, JoinsCat
<1>3. \A i \in c + 1 .. b : p[i] \in Q
  <2>1. c + 1 \in a + 1 .. b
    OBVIOUS
  <2> QED BY <1>1, <1>2, <2>1, StaysIn
<1>4. \A q, x : <<q, x>> \in C.match /\ q \in Q => <<q, x>> \in B.match
  BY DEF IsPart, JoinsCat
<1>5. ASSUME NEW i \in c + 1 .. b
      PROVE  <<p[i], word[i]>> \in B.match
  <2>1. i \in a + 1 .. b
    OBVIOUS
  <2> QED BY <1>1, <1>3, <1>4, <2>1
<1>6. ASSUME NEW i \in c + 1 .. b - 1
      PROVE  <<p[i], p[i + 1]>> \in B.follow
  <2>1. i \in a + 1 .. b - 1 /\ i \in c + 1 .. b
    OBVIOUS
  <2> QED BY <1>1, <1>2, <1>3, <2>1
<1> QED BY <1>3, <1>5, <1>6

\* One that ends in the left operand has been there all the time.
LEMMA CatWalkLeft ==
    ASSUME NEW A, NEW B, NEW C, NEW P, NEW Q, IsPart(A, P), IsPart(B, Q), P \cap Q = {},
           JoinsCat(C, A, B), NEW word, NEW a \in Nat, NEW b \in Nat, NEW p,
           Connected(C, word, p, a, b), NEW c \in a + 1 .. b, p[c] \in P
    PROVE  /\ \A i \in a + 1 .. c : p[i] \in P /\ <<p[i], word[i]>> \in A.match
           /\ \A i \in a + 1 .. c - 1 : <<p[i], p[i + 1]>> \in A.follow
<1>1. /\ \A i \in a + 1 .. b : <<p[i], word[i]>> \in C.match
      /\ \A i \in a + 1 .. b - 1 : <<p[i], p[i + 1]>> \in C.follow
  BY DEF Connected
<1>2. \A q, x : <<q, x>> \in C.match => \/ q \in P /\ <<q, x>> \in A.match
                                        \/ q \in Q
  BY DEF IsPart, JoinsCat
<1>3. ASSUME NEW i \in a + 1 .. c
      PROVE  p[i] \in P
  <2>1. i \in a + 1 .. b /\ i - 1 \in a .. b - 1 /\ (i - 1) + 1 = i /\ c \in i .. b
    OBVIOUS
  <2>2. p[i] \in P \/ p[i] \in Q
    BY <1>1, <1>2, <2>1
  <2>3. p[i] \notin Q
    <3> SUFFICES ASSUME p[i] \in Q PROVE FALSE
      OBVIOUS
    <3> DEFINE d == i - 1
    <3>1. d \in a .. b - 1 /\ d + 1 = i /\ p[d + 1] \in Q
      BY <2>1
    <3> HIDE DEF d
    <3>2. \A k \in d + 1 .. b : p[k] \in Q
      BY <3>1, CatWalkRight
    <3> QED BY <2>1, <3>1, <3>2
  <2> QED BY <2>2, <2>3
<1>4. ASSUME NEW i \in a + 1 .. c
      PROVE  <<p[i], word[i]>> \in A.match
  <2>1. i \in a + 1 .. b
    OBVIOUS
  <2> QED BY <1>1, <1>2, <1>3, <2>1
<1>5. ASSUME NEW i \in a + 1 .. c - 1
      PROVE  <<p[i], p[i + 1]>> \in A.follow
  <2>1. i \in a + 1 .. b - 1 /\ i \in a + 1 .. c /\ i + 1 \in a + 1 .. c
    OBVIOUS
  <2>2. <<p[i], p[i + 1]>> \in C.follow /\ p[i] \in P /\ p[i + 1] \in P
    BY <1>1, <1>3, <2>1
  <2> QED BY <2>2 DEF IsPart, JoinsCat
<1> QED BY <1>3, <1>4, <1>5

LEMMA CatReadsParts ==
    ASSUME NEW A, NEW B, NEW C, NEW P, NEW Q, IsPart(A, P), IsPart(B, Q), P \cap Q = {},
           JoinsCat(C, A, B), NEW word, NEW a \in Nat, NEW b \in Nat, NEW p,
           Walk(C, word, p, a, b)
    PROVE  \E c \in a .. b : Reads(A, word, a, c) /\ Reads(B, word, c, b)
<1>1. /\ a < b /\ p \in [a + 1 .. b -> Nat] /\ Connected(C, word, p, a, b)
      /\ \A i \in a + 1 .. b : <<p[i], word[i]>> \in C.match
      /\ \A i \in a + 1 .. b - 1 : <<p[i], p[i + 1]>> \in C.follow
      /\ p[a + 1] \in C.first /\ p[b] \in C.last
  BY DEF Walk, Connected
<1>2. a + 1 \in a + 1 .. b /\ b \in a + 1 .. b /\ a \in a .. b - 1 /\ a \in a .. b /\ b \in a .. b
  BY <1>1
<1>3. CASE p[a + 1] \in Q
  <2>1. /\ \A i \in a + 1 .. b : p[i] \in Q /\ <<p[i], word[i]>> \in B.match
        /\ \A i \in a + 1 .. b - 1 : <<p[i], p[i + 1]>> \in B.follow
    BY <1>1, <1>2, <1>3, CatWalkRight
  <2>2. A.nullable /\ p[a + 1] \in B.first
    BY <1>1, <1>3 DEF IsPart, JoinsCat
  <2>3. p[b] \in B.last
    BY <1>1, <1>2, <2>1 DEF IsPart, JoinsCat
  <2>4. Walk(B, word, p, a, b)
    BY <1>1, <2>1, <2>2, <2>3 DEF Walk, Connected
  <2> QED BY <1>2, <2>2, <2>4 DEF Reads
<1>4. CASE p[a + 1] \notin Q
  <2> DEFINE S == { i \in a + 1 .. b : p[i] \in P }
  <2>1. p[a + 1] \in P /\ p[a + 1] \in A.first
    BY <1>1, <1>4 DEF IsPart, JoinsCat
  <2>2. S \subseteq 0 .. b /\ S # {}
    BY <1>2, <2>1
  <2>3. PICK c \in S : \A i \in S : i <= c
    BY <2>2, GreatestIndex
  <2>4. c \in a + 1 .. b /\ p[c] \in P
    OBVIOUS
  <2>5. /\ \A i \in a + 1 .. c : p[i] \in P /\ <<p[i], word[i]>> \in A.match
        /\ \A i \in a + 1 .. c - 1 : <<p[i], p[i + 1]>> \in A.follow
    BY <1>1, <2>4, CatWalkLeft
  <2> HIDE DEF S
  <2> DEFINE left == [i \in a + 1 .. c |-> p[i]]
             right == [i \in c + 1 .. b |-> p[i]]
  <2>6. Connected(A, word, left, a, c) /\ a < c /\ left[a + 1] \in A.first /\ left[c] = p[c]
    <3>1. left \in [a + 1 .. c -> Nat]
      BY <1>1, <2>4
    <3>2. \A i \in a + 1 .. c - 1 : left[i] = p[i] /\ left[i + 1] = p[i + 1]
      BY <2>4
    <3>3. \A i \in a + 1 .. c : left[i] = p[i]
      OBVIOUS
    <3>4. a + 1 \in a + 1 .. c /\ c \in a + 1 .. c /\ a < c
      BY <2>4
    <3> HIDE DEF left
    <3> QED BY <2>1, <2>5, <3>1, <3>2, <3>3, <3>4 DEF Connected
  <2>7. CASE c = b
    <3>1. p[b] \in A.last /\ B.nullable
      BY <1>1, <2>4, <2>7 DEF IsPart, JoinsCat
    <3>2. Walk(A, word, left, a, b)
      <4> HIDE DEF left
      <4> QED BY <1>1, <2>6, <2>7, <3>1 DEF Walk
    <3> QED BY <1>2, <3>1, <3>2 DEF Reads
  <2>8. CASE c # b
    <3>1. c \in a .. b - 1 /\ c \in a + 1 .. b - 1 /\ c \in a .. b /\ c + 1 \in a + 1 .. b /\ c < b
      BY <2>4, <2>8
    <3>2. p[c + 1] \notin P
      <4>1. ~(c + 1 <= c)
        BY <2>4
      <4> QED BY <2>3, <3>1, <4>1 DEF S
    <3>3. p[c + 1] \in Q
      <4>1. <<p[c + 1], word[c + 1]>> \in C.match
        BY <1>1, <3>1
      <4>2. \A q, x : <<q, x>> \in C.match => q \in P \/ q \in Q
        BY DEF IsPart, JoinsCat
      <4> QED BY <3>2, <4>1, <4>2
    <3>4. /\ \A i \in c + 1 .. b : p[i] \in Q /\ <<p[i], word[i]>> \in B.match
          /\ \A i \in c + 1 .. b - 1 : <<p[i], p[i + 1]>> \in B.follow
      BY <1>1, <3>1, <3>3, CatWalkRight
    <3>5. p[c] \in A.last /\ p[c + 1] \in B.first
      <4>1. <<p[c], p[c + 1]>> \in C.follow
        BY <1>1, <3>1
      <4>2. \A q, r : <<q, r>> \in C.follow /\ r \in Q /\ q \in P => q \in A.last /\ r \in B.first
        BY DEF IsPart, JoinsCat
      <4> QED BY <2>4, <3>3, <4>1, <4>2
    <3>6. p[b] \in B.last
      <4>1. b \in c + 1 .. b
        BY <3>1
      <4>2. p[b] \in Q
        BY <3>4, <4>1
      <4> QED BY <1>1, <4>2 DEF IsPart, JoinsCat
    <3>7. Walk(B, word, right, c, b)
      <4>1. right \in [c + 1 .. b -> Nat]
        BY <1>1, <2>4
      <4>2. \A i \in c + 1 .. b : right[i] = p[i]
        OBVIOUS
      <4>3. \A i \in c + 1 .. b - 1 : right[i] = p[i] /\ right[i + 1] = p[i + 1]
        BY <2>4
      <4>4. c + 1 \in c + 1 .. b /\ b \in c + 1 .. b
        BY <3>1
      <4> HIDE DEF right
      <4> QED BY <3>1, <3>4, <3>5, <3>6, <4>1, <4>2, <4>3, <4>4 DEF Walk, Connected
    <3>8. Walk(A, word, left, a, c)
      <4> HIDE DEF left
      <4> QED BY <2>6, <3>5 DEF Walk
    <3> QED BY <3>1, <3>7, <3>8 DEF Reads
  <2> QED BY <2>7, <2>8
<1> QED BY <1>3, <1>4

\* Two walks in a row.
LEMMA WalksJoined ==
    ASSUME NEW A, NEW B, NEW C, NEW word, NEW a \in Nat, NEW c \in Nat, NEW b \in Nat,
           NEW p, NEW q, Connected(A, word, p, a, c), Connected(B, word, q, c, b), a < c, c < b,
           Within(A, C), Within(B, C),
           <<p[c], q[c + 1]>> \in C.follow
    PROVE  WalksFromTo(C, word, a, b, p[a + 1], q[b])
<1> DEFINE r == [i \in a + 1 .. b |-> IF i <= c THEN p[i] ELSE q[i]]
<1>1. /\ p \in [a + 1 .. c -> Nat] /\ q \in [c + 1 .. b -> Nat]
      /\ \A i \in a + 1 .. c : <<p[i], word[i]>> \in A.match
      /\ \A i \in c + 1 .. b : <<q[i], word[i]>> \in B.match
      /\ \A i \in a + 1 .. c - 1 : <<p[i], p[i + 1]>> \in A.follow
      /\ \A i \in c + 1 .. b - 1 : <<q[i], q[i + 1]>> \in B.follow
  BY DEF Connected
<1>2. ASSUME NEW i \in a + 1 .. b
      PROVE  (i \in a + 1 .. c /\ r[i] = p[i]) \/ (i \in c + 1 .. b /\ r[i] = q[i])
  OBVIOUS
<1>3. r \in [a + 1 .. b -> Nat]
  <2>1. \A i \in a + 1 .. b : (IF i <= c THEN p[i] ELSE q[i]) \in Nat
    BY <1>1
  <2> QED BY <2>1
<1>4. r[a + 1] = p[a + 1] /\ r[b] = q[b] /\ r[c] = p[c] /\ r[c + 1] = q[c + 1]
  OBVIOUS
<1>5. ASSUME NEW i \in a + 1 .. b - 1
      PROVE  \/ i \in a + 1 .. c - 1 /\ r[i] = p[i] /\ r[i + 1] = p[i + 1]
             \/ i = c
             \/ i \in c + 1 .. b - 1 /\ r[i] = q[i] /\ r[i + 1] = q[i + 1]
  OBVIOUS
<1> HIDE DEF r
<1>6. \A i \in a + 1 .. b : <<r[i], word[i]>> \in C.match
  BY <1>1, <1>2 DEF Within
<1>7. \A i \in a + 1 .. b - 1 : <<r[i], r[i + 1]>> \in C.follow
  BY <1>1, <1>4, <1>5 DEF Within
<1>8. Connected(C, word, r, a, b)
  BY <1>3, <1>6, <1>7 DEF Connected
<1> QED BY <1>4, <1>8 DEF WalksFromTo

LEMMA CatReads ==
    ASSUME NEW A, NEW B, NEW C, NEW P, NEW Q, IsPart(A, P), IsPart(B, Q), P \cap Q = {},
           JoinsCat(C, A, B), NEW word, NEW a \in Nat, NEW b \in Nat
    PROVE  Reads(C, word, a, b) <=>
             \E c \in a .. b : Reads(A, word, a, c) /\ Reads(B, word, c, b)
<1>1. ASSUME Reads(C, word, a, b)
      PROVE  \E c \in a .. b : Reads(A, word, a, c) /\ Reads(B, word, c, b)
  <2>1. CASE a = b /\ C.nullable
    <3>1. A.nullable /\ B.nullable
      BY <2>1, Zenon DEF JoinsCat
    <3>2. a \in a .. b
      BY <2>1
    <3> QED BY <2>1, <3>1, <3>2 DEF Reads
  <2>2. CASE \E p : Walk(C, word, p, a, b)
    BY <2>2, CatReadsParts
  <2> QED BY <1>1, <2>1, <2>2 DEF Reads
<1>2. ASSUME NEW c \in a .. b, Reads(A, word, a, c), Reads(B, word, c, b)
      PROVE  Reads(C, word, a, b)
  <2>1. CASE a = c /\ c = b /\ A.nullable /\ B.nullable
    BY <2>1 DEF Reads, JoinsCat
  <2>2. ASSUME a = c, A.nullable, NEW q, Walk(B, word, q, c, b)
        PROVE  Reads(C, word, a, b)
    <3>1. Walk(C, word, q, a, b)
      BY <2>2, WalkThroughMore DEF JoinsCat, Within
    <3> QED BY <3>1 DEF Reads
  <2>3. ASSUME c = b, B.nullable, NEW p, Walk(A, word, p, a, c)
        PROVE  Reads(C, word, a, b)
    <3>1. Walk(C, word, p, a, b)
      BY <2>3, WalkThroughMore DEF JoinsCat, Within
    <3> QED BY <3>1 DEF Reads
  <2>4. ASSUME NEW p, Walk(A, word, p, a, c), NEW q, Walk(B, word, q, c, b)
        PROVE  Reads(C, word, a, b)
    <3>1. /\ Connected(A, word, p, a, c) /\ Connected(B, word, q, c, b) /\ a < c /\ c < b
          /\ p[a + 1] \in A.first /\ p[c] \in A.last /\ q[c + 1] \in B.first /\ q[b] \in B.last
      BY <2>4 DEF Walk
    <3>2. WalksFromTo(C, word, a, b, p[a + 1], q[b])
      <4>1. c \in Nat /\ <<p[c], q[c + 1]>> \in C.follow
        BY <3>1 DEF JoinsCat
      <4>2. Within(A, C) /\ Within(B, C)
        BY DEF JoinsCat, Within
      <4>3. a \in Nat /\ b \in Nat
        OBVIOUS
      <4> QED BY ONLY <3>1, <4>1, <4>2, <4>3, WalksJoined
    <3>3. p[a + 1] \in C.first /\ q[b] \in C.last /\ a < b
      BY <3>1 DEF JoinsCat
    <3> QED BY <3>2, <3>3, WalkReads DEF Reads
  <2> QED BY <1>2, <2>1, <2>2, <2>3, <2>4 DEF Reads
<1> QED BY <1>1, <1>2

-----------------------------------------------------------------------------
\* The places that the repetitions of A reach from a.
Closed(S, A, word, limit) ==
    \A c, d \in 0 .. limit : Reads(A, word, c, d) /\ c \in S => d \in S

ReachedFrom(a, b, A, word, limit) ==
    \A S \in SUBSET (0 .. limit) : a \in S /\ Closed(S, A, word, limit) => b \in S

\* A walk through a part, from the middle of a walk through the whole.
LEMMA WalkCut ==
    ASSUME NEW C, NEW word, NEW a \in Nat, NEW b \in Nat, NEW p, Connected(C, word, p, a, b),
           NEW c \in a .. b, NEW d \in c .. b, c < d, NEW A,
           \A i \in c + 1 .. d : <<p[i], word[i]>> \in A.match,
           \A i \in c + 1 .. d - 1 : <<p[i], p[i + 1]>> \in A.follow
    PROVE  WalksFromTo(A, word, c, d, p[c + 1], p[d])
<1> DEFINE q == [i \in c + 1 .. d |-> p[i]]
<1>1. p \in [a + 1 .. b -> Nat]
  BY DEF Connected
<1>2. q \in [c + 1 .. d -> Nat]
  BY <1>1
<1>3. \A i \in c + 1 .. d : q[i] = p[i]
  OBVIOUS
<1>4. \A i \in c + 1 .. d - 1 : q[i] = p[i] /\ q[i + 1] = p[i + 1]
  OBVIOUS
<1>5. c + 1 \in c + 1 .. d /\ d \in c + 1 .. d
  OBVIOUS
<1> HIDE DEF q
<1>6. Connected(A, word, q, c, d)
  BY <1>2, <1>3, <1>4 DEF Connected
<1> QED BY <1>3, <1>5, <1>6 DEF WalksFromTo

\* A walk through a star_node falls into walks through its operand.
LEMMA StarWalkReaches ==
    ASSUME NEW A, NEW C, Repeats(C, A), NEW word, NEW limit \in Nat, NEW a \in 0 .. limit,
           NEW S \in SUBSET (0 .. limit), a \in S, Closed(S, A, word, limit)
    PROVE  \A b \in 0 .. limit : (\E p : Walk(C, word, p, a, b)) => b \in S
<1> DEFINE Bad == { b \in 0 .. limit : (\E p : Walk(C, word, p, a, b)) /\ b \notin S }
<1> SUFFICES ASSUME Bad # {} PROVE FALSE
  OBVIOUS
<1>1. PICK b \in Bad : \A k \in Bad : ~(k < b)
  <2>1. Bad \subseteq Nat
    OBVIOUS
  <2> HIDE DEF Bad
  <2> QED BY <2>1, LeastIndex
<1>2. a \in Nat /\ b \in Nat /\ b \in 0 .. limit /\ b \notin S /\ \E p : Walk(C, word, p, a, b)
  OBVIOUS
<1>3. PICK p : Walk(C, word, p, a, b)
  BY <1>2
<1>4. /\ a < b /\ Connected(C, word, p, a, b)
      /\ \A i \in a + 1 .. b : <<p[i], word[i]>> \in A.match
      /\ \A i \in a + 1 .. b - 1 : <<p[i], p[i + 1]>> \in C.follow
      /\ p[a + 1] \in A.first /\ p[b] \in A.last
  BY <1>3 DEF Walk, Connected, Repeats
\* The places where a repetition ends, and the last of them.
<1> DEFINE Ends == { i \in a + 1 .. b - 1 : <<p[i], p[i + 1]>> \notin A.follow }
<1>5. ASSUME NEW c \in a .. b - 1, c \in S, p[c + 1] \in A.first,
             \A i \in c + 1 .. b - 1 : <<p[i], p[i + 1]>> \in A.follow
      PROVE  FALSE
  <2>1. c \in a .. b /\ b \in c .. b /\ c < b /\ c \in 0 .. limit /\ c + 1 \in c + 1 .. b /\ b \in c + 1 .. b
    BY <1>2, <1>4
  <2>2. \A i \in c + 1 .. b : <<p[i], word[i]>> \in A.match
    BY <1>4
  <2>3. WalksFromTo(A, word, c, b, p[c + 1], p[b])
    BY ONLY <1>2, <1>4, <1>5, <2>1, <2>2, WalkCut
  <2>4. \E q : Walk(A, word, q, c, b)
    <3>1. c \in Nat
      BY <2>1
    <3> QED BY <1>2, <1>4, <1>5, <2>1, <2>3, <3>1, WalkReads
  <2>5. Reads(A, word, c, b)
    BY <2>4 DEF Reads
  <2> QED BY <1>2, <1>5, <2>1, <2>5 DEF Closed
<1>6. CASE Ends = {}
  <2>1. a \in a .. b - 1
    BY <1>2, <1>4
  <2>2. \A i \in a + 1 .. b - 1 : <<p[i], p[i + 1]>> \in A.follow
    BY <1>6
  <2> QED BY <1>4, <1>5, <2>1, <2>2
<1>7. CASE Ends # {}
  <2>1. Ends \subseteq 0 .. b /\ b \in Nat
    BY <1>2
  <2>2. PICK c \in Ends : \A i \in Ends : i <= c
    <3> HIDE DEF Ends
    <3> QED BY <1>2, <1>7, <2>1, GreatestIndex
  <2>3. c \in a + 1 .. b - 1 /\ <<p[c], p[c + 1]>> \notin A.follow
    OBVIOUS
  <2>4. p[c] \in A.last /\ p[c + 1] \in A.first
    <3>1. <<p[c], p[c + 1]>> \in C.follow
      BY <1>4, <2>3
    <3> QED BY <2>3, <3>1 DEF Repeats
  <2>5. c \in a .. b - 1 /\ c \in a .. b /\ a \in a .. b /\ c \in 0 .. limit /\ c < b /\ a < c /\ c \in Nat
    BY <1>2, <2>3
  <2>6. \A i \in c + 1 .. b - 1 : <<p[i], p[i + 1]>> \in A.follow
    <3> SUFFICES ASSUME NEW i \in c + 1 .. b - 1 PROVE <<p[i], p[i + 1]>> \in A.follow
      OBVIOUS
    <3>1. i \in a + 1 .. b - 1 /\ ~(i <= c)
      BY <2>5
    <3>2. i \notin Ends
      BY <2>2, <3>1
    <3> QED BY <3>1, <3>2
  <2>7. c \in S
    <3>1. /\ \A i \in a + 1 .. c : <<p[i], word[i]>> \in C.match
          /\ \A i \in a + 1 .. c - 1 : <<p[i], p[i + 1]>> \in C.follow
      <4>1. \A i \in a + 1 .. c : i \in a + 1 .. b
        BY <1>2, <2>5
      <4>2. \A i \in a + 1 .. c - 1 : i \in a + 1 .. b - 1
        BY <1>2, <2>5
      <4> QED BY <1>4, <4>1, <4>2 DEF Repeats
    <3>2. WalksFromTo(C, word, a, c, p[a + 1], p[c])
      <4>1. a \in a .. b /\ c \in a .. b /\ c \in a .. c
        BY <1>2, <2>5
      <4>2. /\ \A i \in a + 1 .. c : <<p[i], word[i]>> \in C.match
            /\ \A i \in a + 1 .. c - 1 : <<p[i], p[i + 1]>> \in C.follow
        BY <3>1
      <4> QED BY ONLY <1>2, <1>4, <2>5, <4>1, <4>2, WalkCut
    <3>3. p[a + 1] \in C.first /\ p[c] \in C.last
      BY <1>4, <2>4 DEF Repeats
    <3>4. \E q : Walk(C, word, q, a, c)
      BY <1>2, <2>5, <3>2, <3>3, WalkReads
    <3> QED BY <1>1, <2>5, <3>4
  <2> QED BY <1>5, <2>4, <2>5, <2>6, <2>7
<1> QED BY <1>6, <1>7

\* The places that walks through a star_node reach are closed.
LEMMA StarReadsOn ==
    ASSUME NEW A, NEW C, Repeats(C, A), NEW word, NEW a \in Nat, NEW c \in Nat, NEW d \in Nat,
           Reads(C, word, a, c), Reads(A, word, c, d)
    PROVE  Reads(C, word, a, d)
<1>1. CASE c = d
  BY <1>1
<1>2. ASSUME NEW q, Walk(A, word, q, c, d)
      PROVE  Reads(C, word, a, d)
  <2>1. Walk(C, word, q, c, d)
    BY <1>2, WalkThroughMore DEF Repeats, Within
  <2>2. CASE a = c
    BY <2>1, <2>2 DEF Reads
  <2>3. ASSUME NEW p, Walk(C, word, p, a, c)
        PROVE  Reads(C, word, a, d)
    <3>1. /\ Connected(C, word, p, a, c) /\ Connected(C, word, q, c, d) /\ a < c /\ c < d
          /\ p[a + 1] \in C.first /\ q[d] \in C.last
      BY <2>1, <2>3 DEF Walk
    <3>2. <<p[c], q[c + 1]>> \in C.follow
      <4>1. p[c] \in A.last /\ q[c + 1] \in A.first
        BY <2>1, <2>3 DEF Walk, Repeats
      <4> QED BY <4>1 DEF Repeats
    <3>3. Within(C, C)
      BY DEF Within
    <3>4. WalksFromTo(C, word, a, d, p[a + 1], q[d])
      <4>1. a \in Nat /\ c \in Nat /\ d \in Nat
        OBVIOUS
      <4> QED BY ONLY <3>1, <3>2, <3>3, <4>1, WalksJoined
    <3>5. \E r : Walk(C, word, r, a, d)
      <4>1. a < d
        BY <3>1
      <4> QED BY <3>1, <3>4, <4>1, WalkReads
    <3> QED BY <3>5 DEF Reads
  <2> QED BY <2>2, <2>3 DEF Reads
<1> QED BY <1>1, <1>2 DEF Reads

LEMMA StarReads ==
    ASSUME NEW A, NEW C, Repeats(C, A), NEW word, NEW limit \in Nat,
           NEW a \in 0 .. limit, NEW b \in 0 .. limit
    PROVE  Reads(C, word, a, b) <=> ReachedFrom(a, b, A, word, limit)
<1>1. ASSUME Reads(C, word, a, b), NEW S \in SUBSET (0 .. limit), a \in S,
             Closed(S, A, word, limit)
      PROVE  b \in S
  <2>1. CASE a = b
    BY <1>1, <2>1
  <2>2. CASE \E p : Walk(C, word, p, a, b)
    BY <1>1, <2>2, StarWalkReaches
  <2> QED BY <1>1, <2>1, <2>2 DEF Reads
<1>2. ASSUME ReachedFrom(a, b, A, word, limit)
      PROVE  Reads(C, word, a, b)
  <2> DEFINE S == { c \in 0 .. limit : Reads(C, word, a, c) }
  <2>1. S \in SUBSET (0 .. limit)
    OBVIOUS
  <2>2. a \in S
    <3>1. Reads(C, word, a, a)
      BY DEF Reads, Repeats
    <3> QED BY <3>1
  <2>3. Closed(S, A, word, limit)
    <3> SUFFICES ASSUME NEW c \in 0 .. limit, NEW d \in 0 .. limit,
                        Reads(A, word, c, d), c \in S
                 PROVE  d \in S
      BY DEF Closed
    <3>1. Reads(C, word, a, d)
      BY StarReadsOn
    <3> QED BY <3>1
  <2> HIDE DEF S
  <2>4. b \in S
    BY <1>2, <2>1, <2>2, <2>3 DEF ReachedFrom
  <2> QED BY <2>4 DEF S
<1> QED BY <1>1, <1>2 DEF ReachedFrom

-----------------------------------------------------------------------------
\* Induction over the places of a tree.
LEMMA CourseOfValues ==
    ASSUME NEW S, NEW N \in Nat, \A n \in 1 .. N : (\A m \in 1 .. n - 1 : m \in S) => n \in S
    PROVE  \A n \in 1 .. N : n \in S
<1> DEFINE Out == { n \in 1 .. N : n \notin S }
<1> SUFFICES ASSUME Out # {} PROVE FALSE
  OBVIOUS
<1>1. PICK n \in Out : \A k \in Out : ~(k < n)
  <2>1. Out \subseteq Nat
    OBVIOUS
  <2> HIDE DEF Out
  <2> QED BY <2>1, LeastIndex
<1>2. \A m \in 1 .. n - 1 : m \in S
  <2> SUFFICES ASSUME NEW m \in 1 .. n - 1 PROVE m \in S
    OBVIOUS
  <2>1. m \in 1 .. N /\ m < n
    OBVIOUS
  <2>2. m \notin Out
    BY <1>1, <2>1
  <2> QED BY <2>1, <2>2
<1> QED BY <1>2

\* A function on numbers, each of whose values comes from two earlier ones.
IsTreeRecursion(f, S, N, l, r, step) ==
    f \in [0 .. N -> S] /\ \A n \in 1 .. N : f[n] = step[<<n, f[l[n]], f[r[n]]>>]

Earlier(l, N) == \A n \in 1 .. N : l[n] \in 0 .. n - 1

LEMMA TreeRecursionExists ==
    ASSUME NEW S, NEW base \in S, NEW N \in Nat, NEW l, NEW r,
           Earlier(l, N), Earlier(r, N), NEW step \in [(1 .. N) \X S \X S -> S]
    PROVE  \E f : IsTreeRecursion(f, S, N, l, r, step)
<1> DEFINE Recursive(f, m) == \A i \in 1 .. m : f[i] = step[<<i, f[l[i]], f[r[i]]>>]
           M == { m \in Nat : m <= N => \E f \in [0 .. m -> S] : Recursive(f, m) }
<1>1. 0 \in M
  <2> DEFINE f == [i \in 0 .. 0 |-> base]
  <2>1. f \in [0 .. 0 -> S] /\ Recursive(f, 0)
    OBVIOUS
  <2> QED BY <2>1
<1>2. ASSUME NEW m \in Nat, m \in M
      PROVE  m + 1 \in M
  <2> SUFFICES ASSUME m + 1 <= N PROVE \E f \in [0 .. m + 1 -> S] : Recursive(f, m + 1)
    OBVIOUS
  <2>1. PICK f \in [0 .. m -> S] : Recursive(f, m)
    BY <1>2
  <2> DEFINE top == step[<<m + 1, f[l[m + 1]], f[r[m + 1]]>>]
             g == [i \in 0 .. m + 1 |-> IF i <= m THEN f[i] ELSE top]
  <2>2. m + 1 \in 1 .. N /\ f[l[m + 1]] \in S /\ f[r[m + 1]] \in S
    <3>1. m + 1 \in 1 .. N
      OBVIOUS
    <3>2. l[m + 1] \in 0 .. (m + 1) - 1 /\ r[m + 1] \in 0 .. (m + 1) - 1
      BY <3>1 DEF Earlier
    <3>3. (m + 1) - 1 = m
      OBVIOUS
    <3> QED BY <3>1, <3>2, <3>3
  <2>3. top \in S
    BY <2>2
  <2> HIDE DEF top
  <2>4. g \in [0 .. m + 1 -> S]
    BY <2>3
  <2>5. \A i \in 0 .. m : g[i] = f[i]
    OBVIOUS
  <2>6. g[m + 1] = top
    OBVIOUS
  <2> HIDE DEF g
  <2>7. ASSUME NEW i \in 1 .. m + 1
        PROVE  g[i] = step[<<i, g[l[i]], g[r[i]]>>]
    <3>1. l[i] \in 0 .. i - 1 /\ r[i] \in 0 .. i - 1
      BY DEF Earlier
    <3>2. l[i] \in 0 .. m /\ r[i] \in 0 .. m
      BY <3>1
    <3>3. g[l[i]] = f[l[i]] /\ g[r[i]] = f[r[i]]
      BY <2>5, <3>2
    <3>4. CASE i = m + 1
      BY <2>6, <3>3, <3>4 DEF top
    <3>5. CASE i # m + 1
      <4>1. i \in 1 .. m /\ i \in 0 .. m
        BY <3>5
      <4> QED BY <2>1, <2>5, <3>3, <4>1
    <3> QED BY <3>4, <3>5
  <2> QED BY <2>4, <2>7
<1> HIDE DEF M
<1>3. \A m \in Nat : m \in M
  BY <1>1, <1>2, Induction
<1>4. \E f \in [0 .. N -> S] : Recursive(f, N)
  BY <1>3 DEF M
<1> QED BY <1>4 DEF IsTreeRecursion

-----------------------------------------------------------------------------
\* The shape of a tree, at one of its places.
LEMMA ForestShape ==
    ASSUME NEW t, NEW chars, IsForest(t, chars)
    PROVE  /\ Len(t) \in Nat /\ DOMAIN t = 1 .. Len(t)
           /\ \A n \in 1 .. Len(t) :
                /\ t[n] \in Nodes(chars)
                /\ t[n].kind \in {"ccl", "epsilon", "eof", "or", "cat", "star"}
                /\ t[n].match \subseteq chars /\ t[n].size \in 1 .. n
                /\ m_left(t, n) \in 0 .. n - 1 /\ m_right(t, n) \in 0 .. n - 1
                /\ ~Leaf(t[n]) => m_left(t, n) \in 1 .. n - 1 /\ m_right(t, n) \in 1 .. n - 1
<1>1. Len(t) \in Nat /\ DOMAIN t = 1 .. Len(t)
  BY LenProperties DEF IsForest, HasOperands
<1>2. ASSUME NEW n \in 1 .. Len(t)
      PROVE  /\ t[n] \in Nodes(chars)
             /\ t[n].kind \in {"ccl", "epsilon", "eof", "or", "cat", "star"}
             /\ t[n].match \subseteq chars /\ t[n].size \in 1 .. n
  <2>1. t[n] \in Nodes(chars)
    BY ElementOfSeq DEF IsForest, HasOperands
  <2> QED BY <1>1, <2>1 DEF IsForest, HasOperands, Nodes
<1>3. ASSUME NEW n \in 1 .. Len(t)
      PROVE  /\ m_left(t, n) \in 0 .. n - 1 /\ m_right(t, n) \in 0 .. n - 1
             /\ ~Leaf(t[n]) => m_left(t, n) \in 1 .. n - 1 /\ m_right(t, n) \in 1 .. n - 1
  <2>1. n \in Nat /\ n >= 1
    OBVIOUS
  <2>2. CASE IsBinary(t[n])
    <3>1. n > 1 /\ m_left(t, n) >= 1 /\ m_left(t, n) = n - 1 - t[n - 1].size
      BY <1>1, <2>2 DEF IsForest, HasOperands, m_left, Leaf, IsBinary
    <3>2. n - 1 \in 1 .. Len(t)
      BY <2>1, <3>1
    <3>3. t[n - 1].size \in 1 .. n - 1
      BY <1>2, <3>2
    <3> QED BY <3>1, <3>3 DEF m_right
  <2>3. CASE ~IsBinary(t[n])
    <3>1. m_left(t, n) = n - 1 /\ m_right(t, n) = n - 1
      BY <2>3 DEF m_left, m_right
    <3>2. ~Leaf(t[n]) => n > 1
      BY <1>1 DEF IsForest, HasOperands
    <3> QED BY <2>1, <3>1, <3>2
  <2> QED BY <2>2, <2>3
<1> QED BY <1>1, <1>2, <1>3

-----------------------------------------------------------------------------
\* The numbers of the leaves.
LEMMA NumbersAscend ==
    ASSUME NEW t, NEW n \in Nat
    PROVE  /\ m_node_num(t, n) \in Nat
           /\ \A m \in 1 .. n - 1 : Leaf(t[m]) => m_node_num(t, m) < m_node_num(t, n)
<1> DEFINE Before(k) == { i \in 1 .. k - 1 : Leaf(t[i]) }
<1>1. ASSUME NEW k \in Nat
      PROVE  IsFiniteSet(Before(k)) /\ Cardinality(Before(k)) \in Nat
  <2>1. IsFiniteSet(1 .. k - 1)
    BY FS_Interval
  <2>2. Before(k) \subseteq 1 .. k - 1
    OBVIOUS
  <2> QED BY <2>1, <2>2, FS_Subset, FS_CardinalityType
<1>2. m_node_num(t, n) \in Nat
  BY <1>1 DEF m_node_num
<1>3. ASSUME NEW m \in 1 .. n - 1, Leaf(t[m])
      PROVE  m_node_num(t, m) < m_node_num(t, n)
  <2>1. Before(m) \subseteq Before(n) /\ m \in Before(n) /\ m \notin Before(m) /\ m \in Nat
    BY <1>3
  <2>2. Before(m) # Before(n)
    BY <2>1
  <2> HIDE DEF Before
  <2>3. Cardinality(Before(m)) <= Cardinality(Before(n))
        /\ (Cardinality(Before(m)) = Cardinality(Before(n)) => Before(m) = Before(n))
    BY <1>1, <2>1, FS_Subset
  <2>4. Cardinality(Before(m)) \in Nat /\ Cardinality(Before(n)) \in Nat
    BY <1>1, <2>1
  <2>5. Cardinality(Before(m)) < Cardinality(Before(n))
    BY <2>2, <2>3, <2>4
  <2> QED BY <2>5 DEF m_node_num, Before
<1> QED BY <1>2, <1>3

\* The numbers of the leaves of the tree that ends at n.
LeavesOf(t, n) == { i \in n - t[n].size + 1 .. n : Leaf(t[i]) }
NumbersOf(t, n) == { m_node_num(t, i) : i \in LeavesOf(t, n) }

LEMMA NumbersOfOperands ==
    ASSUME NEW t, NEW chars, IsForest(t, chars), NEW n \in 1 .. Len(t)
    PROVE  /\ NumbersOf(t, n) \subseteq Nat
           /\ Leaf(t[n]) => NumbersOf(t, n) = { m_node_num(t, n) }
           /\ t[n].kind = "star" => NumbersOf(t, m_left(t, n)) \subseteq NumbersOf(t, n)
           /\ IsBinary(t[n]) =>
                /\ NumbersOf(t, m_left(t, n)) \subseteq NumbersOf(t, n)
                /\ NumbersOf(t, m_right(t, n)) \subseteq NumbersOf(t, n)
                /\ NumbersOf(t, m_left(t, n)) \cap NumbersOf(t, m_right(t, n)) = {}
<1> DEFINE l == m_left(t, n)
           r == m_right(t, n)
<1>1. /\ Len(t) \in Nat /\ DOMAIN t = 1 .. Len(t)
      /\ \A i \in 1 .. Len(t) : t[i].size \in 1 .. i
      /\ l \in 0 .. n - 1 /\ r \in 0 .. n - 1
      /\ ~Leaf(t[n]) => l \in 1 .. n - 1 /\ r \in 1 .. n - 1
  BY ForestShape
<1>2. ASSUME NEW i \in 1 .. Len(t)
      PROVE  \A k \in i - t[i].size + 1 .. i : k \in 1 .. i
  BY <1>1
<1>3. NumbersOf(t, n) \subseteq Nat
  <2> SUFFICES ASSUME NEW i \in LeavesOf(t, n) PROVE m_node_num(t, i) \in Nat
    BY DEF NumbersOf
  <2>1. i \in Nat
    BY <1>2 DEF LeavesOf
  <2> QED BY <2>1, NumbersAscend
<1>4. ASSUME Leaf(t[n])
      PROVE  NumbersOf(t, n) = { m_node_num(t, n) }
  <2>1. t[n].size = 1
    BY <1>1, <1>4 DEF IsForest, HasOperands
  <2>2. LeavesOf(t, n) = {n}
    BY <1>4, <2>1 DEF LeavesOf
  <2> QED BY <2>2 DEF NumbersOf
<1>5. ASSUME t[n].kind = "star"
      PROVE  NumbersOf(t, l) \subseteq NumbersOf(t, n)
  <2>1. t[n].size = t[n - 1].size + 1 /\ l = n - 1
    BY <1>1, <1>5 DEF IsForest, HasOperands, m_left, IsBinary
  <2>2. l \in 1 .. n - 1 /\ t[l].size \in 1 .. l
    BY <1>1, <1>5 DEF Leaf
  <2>3. LeavesOf(t, l) \subseteq LeavesOf(t, n)
    BY <2>1, <2>2 DEF LeavesOf
  <2> QED BY <2>3 DEF NumbersOf
<1>6. ASSUME IsBinary(t[n])
      PROVE  /\ NumbersOf(t, l) \subseteq NumbersOf(t, n)
             /\ NumbersOf(t, r) \subseteq NumbersOf(t, n)
             /\ NumbersOf(t, l) \cap NumbersOf(t, r) = {}
  <2>1. t[n].size = t[r].size + t[l].size + 1 /\ l = r - t[r].size /\ r = n - 1
    BY <1>1, <1>6 DEF IsForest, HasOperands, m_left, m_right
  <2>2. l \in 1 .. n - 1 /\ r \in 1 .. n - 1 /\ t[l].size \in 1 .. l /\ t[r].size \in 1 .. r
    BY <1>1, <1>6 DEF Leaf, IsBinary
  <2> HIDE DEF l, r
  <2>3. LeavesOf(t, l) \subseteq LeavesOf(t, n) /\ LeavesOf(t, r) \subseteq LeavesOf(t, n)
    <3> DEFINE a == t[l].size
               b == t[r].size
               c == t[n].size
    <3>1. /\ a \in Nat /\ b \in Nat /\ l \in Nat /\ r \in Nat
          /\ n = r + 1 /\ c = b + a + 1 /\ l = r - b /\ l >= a
      BY <2>1, <2>2
    <3> HIDE DEF a, b, c
    <3>2. \A i \in l - a + 1 .. l : i \in n - c + 1 .. n
      BY <3>1
    <3>3. \A i \in r - b + 1 .. r : i \in n - c + 1 .. n
      BY <3>1
    <3> QED BY <3>2, <3>3 DEF LeavesOf, a, b, c
  <2>4. ASSUME NEW i \in LeavesOf(t, l), NEW k \in LeavesOf(t, r)
        PROVE  m_node_num(t, i) # m_node_num(t, k)
    <3>1. i \in 1 .. k - 1 /\ k \in Nat /\ Leaf(t[i]) /\ i \in Nat
      BY <2>1, <2>2 DEF LeavesOf
    <3>2. m_node_num(t, i) < m_node_num(t, k) /\ m_node_num(t, i) \in Nat
      BY <3>1, NumbersAscend
    <3> QED BY <3>2
  <2> QED BY <2>3, <2>4 DEF NumbersOf
<1> QED BY <1>3, <1>4, <1>5, <1>6

-----------------------------------------------------------------------------
\* What the methods of a node return.
AttributeTypes(chars) ==
    [ nullable : BOOLEAN, first : SUBSET Nat, last : SUBSET Nat,
      follow : SUBSET (Nat \X Nat), match : SUBSET (Nat \X chars), eof : SUBSET Nat ]

LEMMA AttributesAtType ==
    ASSUME NEW chars, NEW node \in Nodes(chars), NEW num \in Nat,
           NEW l \in AttributeTypes(chars), NEW r \in AttributeTypes(chars)
    PROVE  AttributesAt(node, num, chars, l, r) \in AttributeTypes(chars)
<1> DEFINE kind == node.kind
<1>1. /\ l.first \subseteq Nat /\ l.last \subseteq Nat /\ l.eof \subseteq Nat
      /\ l.follow \subseteq Nat \X Nat /\ l.match \subseteq Nat \X chars
      /\ r.first \subseteq Nat /\ r.last \subseteq Nat /\ r.eof \subseteq Nat
      /\ r.follow \subseteq Nat \X Nat /\ r.match \subseteq Nat \X chars
  BY DEF AttributeTypes
<1>2. kind \in {"ccl", "epsilon", "eof", "or", "cat", "star"} /\ node.match \subseteq chars
  BY DEF Nodes
<1>3. nullable(kind, l, r) \in BOOLEAN
  BY Zenon DEF nullable
<1>4. firstpos(kind, num, l, r) \subseteq Nat
  BY <1>1, <1>2 DEF firstpos
<1>5. lastpos(kind, num, l, r) \subseteq Nat
  BY <1>1, <1>2 DEF lastpos
<1>6. followpos(kind, l, r) \subseteq Nat \X Nat
  BY <1>1, <1>2 DEF followpos
<1>7. state_match(node, num, chars, l, r) \subseteq Nat \X chars
  BY <1>1, <1>2 DEF state_match, IsBinary
<1>8. get_eof_ids(kind, num, l, r) \subseteq Nat
  BY <1>1, <1>2 DEF get_eof_ids
<1> QED BY <1>3, <1>4, <1>5, <1>6, <1>7, <1>8 DEF AttributesAt, AttributeTypes

\* A leaf does not ask operands.
LEMMA LeafAttributes ==
    ASSUME NEW node, Leaf(node), NEW num, NEW chars, NEW l, NEW r, NEW ll, NEW rr
    PROVE  AttributesAt(node, num, chars, l, r) = AttributesAt(node, num, chars, ll, rr)
<1>1. node.kind \in {"ccl", "epsilon", "eof"}
  BY DEF Leaf
<1>2. nullable(node.kind, l, r) = nullable(node.kind, ll, rr)
  BY <1>1 DEF nullable
<1>3. /\ firstpos(node.kind, num, l, r) = firstpos(node.kind, num, ll, rr)
      /\ lastpos(node.kind, num, l, r) = lastpos(node.kind, num, ll, rr)
  BY <1>1 DEF firstpos, lastpos
<1>4. /\ followpos(node.kind, l, r) = followpos(node.kind, ll, rr)
      /\ get_eof_ids(node.kind, num, l, r) = get_eof_ids(node.kind, num, ll, rr)
  BY <1>1 DEF followpos, get_eof_ids
<1>5. state_match(node, num, chars, l, r) = state_match(node, num, chars, ll, rr)
  BY <1>1 DEF state_match
<1> QED BY <1>2, <1>3, <1>4, <1>5 DEF AttributesAt

\* The recursive function of Attributes has its values.
LEMMA AttributesRecursion ==
    ASSUME NEW t, NEW chars, IsForest(t, chars)
    PROVE  LET at == Attributes(t, chars)
           IN  \A n \in 1 .. Len(t) :
                 /\ at[n] = AttributesAt(t[n], m_node_num(t, n), chars,
                                         at[m_left(t, n)], at[m_right(t, n)])
<1> DEFINE S == AttributeTypes(chars)
           N == Len(t)
           num(n) == m_node_num(t, n)
           l == [n \in 1 .. N |-> m_left(t, n)]
           r == [n \in 1 .. N |-> m_right(t, n)]
           step == [x \in (1 .. N) \X S \X S |-> AttributesAt(t[x[1]], num(x[1]), chars, x[2], x[3])]
           base == [ nullable |-> FALSE, first |-> {}, last |-> {}, follow |-> {},
                     match |-> {}, eof |-> {} ]
           Body(f, n) == AttributesAt(t[n], num(n), chars, f[m_left(t, n)], f[m_right(t, n)])
           Recursive(f) == f = [n \in DOMAIN t |-> Body(f, n)]
           at == CHOOSE f : Recursive(f)
<1>1. /\ N \in Nat /\ DOMAIN t = 1 .. N
      /\ \A n \in 1 .. N : /\ t[n] \in Nodes(chars)
                           /\ m_left(t, n) \in 0 .. n - 1 /\ m_right(t, n) \in 0 .. n - 1
                           /\ ~Leaf(t[n]) => m_left(t, n) \in 1 .. n - 1 /\ m_right(t, n) \in 1 .. n - 1
  BY ForestShape
<1>2. \A n \in 1 .. N : num(n) \in Nat
  BY NumbersAscend
<1>3. step \in [(1 .. N) \X S \X S -> S]
  <2> SUFFICES ASSUME NEW n \in 1 .. N, NEW x \in S, NEW y \in S
               PROVE  AttributesAt(t[n], num(n), chars, x, y) \in S
    OBVIOUS
  <2> HIDE DEF num
  <2> QED BY <1>1, <1>2, AttributesAtType
<1>4. base \in S
  BY DEF AttributeTypes
<1>5. Earlier(l, N) /\ Earlier(r, N)
  BY <1>1 DEF Earlier
<1>6. PICK g : IsTreeRecursion(g, S, N, l, r, step)
  <2> HIDE DEF step, S, base, N, l, r
  <2> QED BY ONLY <1>1, <1>3, <1>4, <1>5, TreeRecursionExists
<1> DEFINE f == [n \in 1 .. N |-> g[n]]
<1>7. ASSUME NEW n \in 1 .. N
      PROVE  f[n] = Body(f, n)
  <2>1. l[n] = m_left(t, n) /\ r[n] = m_right(t, n)
    OBVIOUS
  <2>2. m_left(t, n) \in 0 .. N /\ m_right(t, n) \in 0 .. N
    BY <1>1
  <2>3. g \in [0 .. N -> S]
    BY <1>6 DEF IsTreeRecursion
  <2>4. g[m_left(t, n)] \in S /\ g[m_right(t, n)] \in S
    BY <2>2, <2>3
  <2>5. g[n] = Body(g, n)
    <3>1. g[n] = step[<<n, g[m_left(t, n)], g[m_right(t, n)]>>]
      BY <1>6, <2>1 DEF IsTreeRecursion
    <3> HIDE DEF num, S
    <3> QED BY <2>4, <3>1
  <2>6. f[n] = g[n]
    OBVIOUS
  <2>7. CASE Leaf(t[n])
    <3>1. Body(g, n) = Body(f, n)
      <4> HIDE DEF f, num
      <4> QED BY <2>7, LeafAttributes
    <3> QED BY <2>5, <2>6, <3>1
  <2>8. CASE ~Leaf(t[n])
    <3>1. m_left(t, n) \in 1 .. N /\ m_right(t, n) \in 1 .. N
      BY <1>1, <2>8
    <3>2. f[m_left(t, n)] = g[m_left(t, n)] /\ f[m_right(t, n)] = g[m_right(t, n)]
      BY <3>1
    <3> HIDE DEF f, num
    <3> QED BY <2>5, <2>6, <3>2
  <2> QED BY <2>7, <2>8
<1>8. Recursive(f)
  <2> HIDE DEF Body
  <2>1. f = [n \in 1 .. N |-> f[n]]
    OBVIOUS
  <2> HIDE DEF f
  <2>2. f = [n \in 1 .. N |-> Body(f, n)]
    BY <1>7, <2>1
  <2> QED BY <1>1, <2>2
<1>9. Recursive(at)
  <2> HIDE DEF Recursive
  <2> QED BY <1>8, Zenon
<1>10. Attributes(t, chars) = at
  BY DEF Attributes
<1> HIDE DEF at
<1>11. at = [n \in 1 .. N |-> Body(at, n)]
  BY <1>1, <1>9
<1>12. \A n \in 1 .. N : at[n] = Body(at, n)
  <2> HIDE DEF Body
  <2> QED BY <1>11
<1> QED BY <1>10, <1>12

-----------------------------------------------------------------------------
\* The same for the language.
LEMMA SpansAtType ==
    ASSUME NEW word, Len(word) \in Nat, NEW node, node.kind \in {"ccl", "epsilon", "eof", "or", "cat", "star"},
           NEW l \in SUBSET (Places(word) \X Places(word)), NEW r \in SUBSET (Places(word) \X Places(word))
    PROVE  SpansAt(node, word, l, r) \in SUBSET (Places(word) \X Places(word))
<1>1. Joining(l, r, word) \subseteq Places(word) \X Places(word)
  BY DEF Joining
<1>2. Repeating(l, word) \subseteq Places(word) \X Places(word)
  BY DEF Repeating
<1>3. OneOf(node.match, word) \subseteq Places(word) \X Places(word)
  BY DEF Places, OneOf
<1>4. { <<a, a>> : a \in Places(word) } \subseteq Places(word) \X Places(word)
  OBVIOUS
<1> HIDE DEF Places
<1> QED BY <1>1, <1>2, <1>3, <1>4 DEF SpansAt

LEMMA LeafSpans ==
    ASSUME NEW node, Leaf(node), NEW word, NEW l, NEW r, NEW ll, NEW rr
    PROVE  SpansAt(node, word, l, r) = SpansAt(node, word, ll, rr)
<1>1. node.kind \in {"ccl", "epsilon", "eof"}
  BY DEF Leaf
<1> QED BY <1>1 DEF SpansAt

LEMMA SpansRecursion ==
    ASSUME NEW t, NEW chars, IsForest(t, chars), NEW word, Len(word) \in Nat
    PROVE  LET at == Spans(t, word)
           IN  \A n \in 1 .. Len(t) :
                 /\ at[n] = SpansAt(t[n], word, at[m_left(t, n)], at[m_right(t, n)])
                 /\ at[n] \subseteq Places(word) \X Places(word)
<1> DEFINE S == SUBSET (Places(word) \X Places(word))
           N == Len(t)
           l == [n \in 1 .. N |-> m_left(t, n)]
           r == [n \in 1 .. N |-> m_right(t, n)]
           step == [x \in (1 .. N) \X S \X S |-> SpansAt(t[x[1]], word, x[2], x[3])]
           Body(f, n) == SpansAt(t[n], word, f[m_left(t, n)], f[m_right(t, n)])
           Recursive(f) == f = [n \in DOMAIN t |-> Body(f, n)]
           at == CHOOSE f : Recursive(f)
<1>1. /\ N \in Nat /\ DOMAIN t = 1 .. N
      /\ \A n \in 1 .. N : /\ t[n].kind \in {"ccl", "epsilon", "eof", "or", "cat", "star"}
                           /\ m_left(t, n) \in 0 .. n - 1 /\ m_right(t, n) \in 0 .. n - 1
                           /\ ~Leaf(t[n]) => m_left(t, n) \in 1 .. n - 1 /\ m_right(t, n) \in 1 .. n - 1
  BY ForestShape
<1>3. step \in [(1 .. N) \X S \X S -> S]
  <2> SUFFICES ASSUME NEW n \in 1 .. N, NEW x \in S, NEW y \in S
               PROVE  SpansAt(t[n], word, x, y) \in S
    OBVIOUS
  <2>1. t[n].kind \in {"ccl", "epsilon", "eof", "or", "cat", "star"}
    BY <1>1
  <2> DEFINE node == t[n]
  <2> HIDE DEF node
  <2> QED BY <2>1, SpansAtType DEF node
<1>4. {} \in S
  OBVIOUS
<1>5. Earlier(l, N) /\ Earlier(r, N)
  BY <1>1 DEF Earlier
<1>6. PICK g : IsTreeRecursion(g, S, N, l, r, step)
  <2> HIDE DEF step, S, N, l, r
  <2> QED BY ONLY <1>1, <1>3, <1>4, <1>5, TreeRecursionExists
<1> DEFINE f == [n \in 1 .. N |-> g[n]]
<1>7. ASSUME NEW n \in 1 .. N
      PROVE  f[n] = Body(f, n)
  <2>1. l[n] = m_left(t, n) /\ r[n] = m_right(t, n)
    OBVIOUS
  <2>2. m_left(t, n) \in 0 .. N /\ m_right(t, n) \in 0 .. N
    BY <1>1
  <2>3. g \in [0 .. N -> S]
    BY <1>6 DEF IsTreeRecursion
  <2>4. g[m_left(t, n)] \in S /\ g[m_right(t, n)] \in S
    BY <2>2, <2>3
  <2>5. g[n] = Body(g, n)
    <3>1. g[n] = step[<<n, g[m_left(t, n)], g[m_right(t, n)]>>]
      BY <1>6, <2>1 DEF IsTreeRecursion
    <3> HIDE DEF S
    <3> QED BY <2>4, <3>1
  <2>6. f[n] = g[n]
    OBVIOUS
  <2>7. CASE Leaf(t[n])
    <3>1. Body(g, n) = Body(f, n)
      <4> HIDE DEF f
      <4> QED BY <2>7, LeafSpans
    <3> QED BY <2>5, <2>6, <3>1
  <2>8. CASE ~Leaf(t[n])
    <3>1. m_left(t, n) \in 1 .. N /\ m_right(t, n) \in 1 .. N
      BY <1>1, <2>8
    <3>2. f[m_left(t, n)] = g[m_left(t, n)] /\ f[m_right(t, n)] = g[m_right(t, n)]
      BY <3>1
    <3> HIDE DEF f
    <3> QED BY <2>5, <2>6, <3>2
  <2> QED BY <2>7, <2>8
<1>8. Recursive(f)
  <2> HIDE DEF Body
  <2>1. f = [n \in 1 .. N |-> f[n]]
    OBVIOUS
  <2> HIDE DEF f
  <2>2. f = [n \in 1 .. N |-> Body(f, n)]
    BY <1>7, <2>1
  <2> QED BY <1>1, <2>2
<1>9. Recursive(at)
  <2> HIDE DEF Recursive
  <2> QED BY <1>8, Zenon
<1>10. Spans(t, word) = at
  BY DEF Spans
<1> HIDE DEF at
<1>11. at = [n \in 1 .. N |-> Body(at, n)]
  BY <1>1, <1>9
<1>12. \A n \in 1 .. N : at[n] = Body(at, n)
  <2> HIDE DEF Body
  <2> QED BY <1>11
<1> DEFINE Typed == { n \in 1 .. N : at[n] \in S }
<1>13. ASSUME NEW n \in 1 .. N, \A m \in 1 .. n - 1 : m \in Typed
       PROVE  n \in Typed
  <2>1. CASE Leaf(t[n])
    <3>1. SpansAt(t[n], word, {}, {}) \in S
      BY <1>1, <1>4, SpansAtType
    <3>2. SpansAt(t[n], word, {}, {}) = Body(at, n)
      BY <2>1, LeafSpans
    <3> QED BY <1>12, <3>1, <3>2
  <2>2. CASE ~Leaf(t[n])
    <3>1. m_left(t, n) \in Typed /\ m_right(t, n) \in Typed
      BY <1>1, <1>13, <2>2
    <3>2. at[m_left(t, n)] \in S /\ at[m_right(t, n)] \in S
      BY <3>1
    <3>3. Body(at, n) \in S
      BY <1>1, <3>2, SpansAtType
    <3> QED BY <1>12, <3>3
  <2> QED BY <2>1, <2>2
<1>14. \A n \in 1 .. N : n \in Typed
  <2> HIDE DEF Typed, N
  <2> QED BY <1>1, <1>13, CourseOfValues
<1> QED BY <1>10, <1>12, <1>14

-----------------------------------------------------------------------------
\* The attributes of a node next to those of its operands.
LEMMA NodeAttributes ==
    ASSUME NEW node, NEW num, NEW chars, NEW l, NEW r, NEW C, C = AttributesAt(node, num, chars, l, r)
    PROVE  /\ node.kind = "or" => JoinsOr(C, l, r) /\ C.eof = l.eof \cup r.eof
           /\ node.kind = "cat" => JoinsCat(C, l, r) /\ C.eof = l.eof \cup r.eof
           /\ node.kind = "star" => Repeats(C, l) /\ C.eof = l.eof
           /\ node.kind = "ccl" => /\ ~C.nullable /\ C.first = {num} /\ C.last = {num}
                                  /\ C.follow = {} /\ C.match = {num} \X node.match /\ C.eof = {}
           /\ node.kind = "epsilon" => /\ C.nullable /\ C.first = {} /\ C.last = {}
                                      /\ C.follow = {} /\ C.match = {num} \X chars /\ C.eof = {}
           /\ node.kind = "eof" => /\ ~C.nullable /\ C.first = {num} /\ C.last = {num}
                                  /\ C.follow = {} /\ C.match = {} /\ C.eof = {num}
<1>1. /\ C.nullable = nullable(node.kind, l, r)
      /\ C.first = firstpos(node.kind, num, l, r)
      /\ C.last = lastpos(node.kind, num, l, r)
      /\ C.follow = followpos(node.kind, l, r)
      /\ C.match = state_match(node, num, chars, l, r)
      /\ C.eof = get_eof_ids(node.kind, num, l, r)
  BY DEF AttributesAt
<1>2. ASSUME node.kind = "or"
      PROVE  JoinsOr(C, l, r) /\ C.eof = l.eof \cup r.eof
  <2>1. C.nullable = (l.nullable \/ r.nullable)
    <3>1. nullable("or", l, r) = (l.nullable \/ r.nullable)
      BY DEF nullable
    <3> QED BY <1>1, <1>2, <3>1
  <2>2. /\ C.first = l.first \cup r.first /\ C.last = l.last \cup r.last
        /\ C.follow = l.follow \cup r.follow /\ C.eof = l.eof \cup r.eof
    BY <1>1, <1>2 DEF firstpos, lastpos, followpos, get_eof_ids
  <2>3. C.match = l.match \cup r.match
    BY <1>1, <1>2 DEF state_match, IsBinary
  <2> QED BY <2>1, <2>2, <2>3 DEF JoinsOr
<1>3. ASSUME node.kind = "cat"
      PROVE  JoinsCat(C, l, r) /\ C.eof = l.eof \cup r.eof
  <2>1. C.nullable = (l.nullable /\ r.nullable)
    <3>1. nullable("cat", l, r) = (l.nullable /\ r.nullable)
      BY DEF nullable
    <3> QED BY <1>1, <1>3, <3>1
  <2>2. /\ C.first = l.first \cup (IF l.nullable THEN r.first ELSE {})
        /\ C.last = r.last \cup (IF r.nullable THEN l.last ELSE {})
        /\ C.follow = (l.last \X r.first) \cup l.follow \cup r.follow /\ C.eof = l.eof \cup r.eof
    BY <1>1, <1>3 DEF firstpos, lastpos, followpos, get_eof_ids
  <2>3. C.match = l.match \cup r.match
    BY <1>1, <1>3 DEF state_match, IsBinary
  <2> QED BY <2>1, <2>2, <2>3 DEF JoinsCat
<1>4. ASSUME node.kind = "star"
      PROVE  Repeats(C, l) /\ C.eof = l.eof
  <2>1. C.nullable
    BY <1>1, <1>4 DEF nullable
  <2>2. /\ C.first = l.first /\ C.last = l.last
        /\ C.follow = (l.last \X l.first) \cup l.follow /\ C.eof = l.eof
    BY <1>1, <1>4 DEF firstpos, lastpos, followpos, get_eof_ids
  <2>3. C.match = l.match
    BY <1>1, <1>4 DEF state_match, IsBinary
  <2> QED BY <2>1, <2>2, <2>3 DEF Repeats
<1>5. ASSUME Leaf(node)
      PROVE  /\ C.nullable <=> node.kind = "epsilon"
             /\ C.first = IF node.kind = "epsilon" THEN {} ELSE {num}
             /\ C.last = IF node.kind = "epsilon" THEN {} ELSE {num}
             /\ C.follow = {}
             /\ node.kind = "ccl" => C.match = {num} \X node.match /\ C.eof = {}
             /\ node.kind = "epsilon" => C.match = {num} \X chars /\ C.eof = {}
             /\ node.kind = "eof" => C.match = {} /\ C.eof = {num}
  <2>1. node.kind \in {"ccl", "epsilon", "eof"}
    BY <1>5 DEF Leaf
  <2>2. C.nullable <=> node.kind = "epsilon"
    BY <1>1, <2>1 DEF nullable
  <2>3. /\ C.first = IF node.kind = "epsilon" THEN {} ELSE {num}
        /\ C.last = IF node.kind = "epsilon" THEN {} ELSE {num}
        /\ C.follow = {}
    BY <1>1, <2>1 DEF firstpos, lastpos, followpos
  <2>4. /\ node.kind = "ccl" => C.match = {num} \X node.match /\ C.eof = {}
        /\ node.kind = "epsilon" => C.match = {num} \X chars /\ C.eof = {}
        /\ node.kind = "eof" => C.match = {} /\ C.eof = {num}
    BY <1>1 DEF state_match, get_eof_ids, IsBinary
  <2> QED BY <2>2, <2>3, <2>4
<1> QED BY <1>2, <1>3, <1>4, <1>5 DEF Leaf

\* The positions of a node are the numbers of its leaves.
LEMMA PartsOfTree ==
    ASSUME NEW t, NEW chars, IsForest(t, chars), NEW n \in 1 .. Len(t)
    PROVE  LET at == Attributes(t, chars)
           IN  IsPart(at[n], NumbersOf(t, n)) /\ at[n].eof \subseteq NumbersOf(t, n)
<1> DEFINE at == Attributes(t, chars)
           N == Len(t)
           P(k) == NumbersOf(t, k)
           Part(k) == IsPart(at[k], P(k)) /\ at[k].eof \subseteq P(k)
           S == { k \in 1 .. N : Part(k) }
<1>1. /\ N \in Nat
      /\ \A k \in 1 .. N :
           /\ t[k].kind \in {"ccl", "epsilon", "eof", "or", "cat", "star"}
           /\ ~Leaf(t[k]) => m_left(t, k) \in 1 .. k - 1 /\ m_right(t, k) \in 1 .. k - 1
  BY ForestShape
<1>2. ASSUME NEW k \in 1 .. N, \A m \in 1 .. k - 1 : m \in S
      PROVE  k \in S
  <2> DEFINE l == m_left(t, k)
             r == m_right(t, k)
             C == at[k]
             A == at[l]
             B == at[r]
             num == m_node_num(t, k)
  <2>1. C = AttributesAt(t[k], num, chars, A, B)
    BY AttributesRecursion
  <2>2. /\ P(k) \subseteq Nat
        /\ Leaf(t[k]) => P(k) = {num}
        /\ t[k].kind = "star" => P(l) \subseteq P(k)
        /\ IsBinary(t[k]) => P(l) \subseteq P(k) /\ P(r) \subseteq P(k)
    BY NumbersOfOperands
  <2>3. ~Leaf(t[k]) => Part(l) /\ Part(r)
    BY <1>1, <1>2
  <2> HIDE DEF at, P, l, r, num
  <2> HIDE DEF C, A, B
  <2>4. CASE t[k].kind = "or"
    <3>1. JoinsOr(C, A, B) /\ C.eof = A.eof \cup B.eof
      BY <2>1, <2>4, NodeAttributes
    <3>2. /\ IsPart(A, P(l)) /\ IsPart(B, P(r)) /\ A.eof \subseteq P(l) /\ B.eof \subseteq P(r)
          /\ P(l) \subseteq P(k) /\ P(r) \subseteq P(k)
      BY <2>2, <2>3, <2>4 DEF Leaf, IsBinary, A, B
    <3>3. IsPart(C, P(k)) /\ C.eof \subseteq P(k)
      BY <2>2, <3>1, <3>2 DEF IsPart, JoinsOr
    <3> QED BY <3>3 DEF C
  <2>5. CASE t[k].kind = "cat"
    <3>1. JoinsCat(C, A, B) /\ C.eof = A.eof \cup B.eof
      BY <2>1, <2>5, NodeAttributes
    <3>2. /\ IsPart(A, P(l)) /\ IsPart(B, P(r)) /\ A.eof \subseteq P(l) /\ B.eof \subseteq P(r)
          /\ P(l) \subseteq P(k) /\ P(r) \subseteq P(k)
      BY <2>2, <2>3, <2>5 DEF Leaf, IsBinary, A, B
    <3>3. IsPart(C, P(k)) /\ C.eof \subseteq P(k)
      BY <2>2, <3>1, <3>2 DEF IsPart, JoinsCat
    <3> QED BY <3>3 DEF C
  <2>6. CASE t[k].kind = "star"
    <3>1. Repeats(C, A) /\ C.eof = A.eof
      BY <2>1, <2>6, NodeAttributes
    <3>2. IsPart(A, P(l)) /\ A.eof \subseteq P(l) /\ P(l) \subseteq P(k)
      BY <2>2, <2>3, <2>6 DEF Leaf, A
    <3>3. IsPart(C, P(k)) /\ C.eof \subseteq P(k)
      BY <2>2, <3>1, <3>2 DEF IsPart, Repeats
    <3> QED BY <3>3 DEF C
  <2>7. CASE Leaf(t[k])
    <3>1. /\ C.first \subseteq {num} /\ C.last \subseteq {num} /\ C.follow = {}
          /\ \A q, c : <<q, c>> \in C.match => q = num
          /\ C.eof \subseteq {num}
      <4>1. t[k].kind \in {"ccl", "epsilon", "eof"}
        BY <2>7 DEF Leaf
      <4>2. C.match \in {{num} \X t[k].match, {num} \X chars, {}}
        BY <2>1, <4>1, NodeAttributes
      <4>3. C.first \subseteq {num} /\ C.last \subseteq {num} /\ C.follow = {} /\ C.eof \subseteq {num}
        BY <2>1, <4>1, NodeAttributes
      <4> QED BY <4>2, <4>3
    <3>2. IsPart(C, P(k)) /\ C.eof \subseteq P(k)
      BY <2>2, <2>7, <3>1 DEF IsPart
    <3> QED BY <3>2 DEF C
  <2> QED BY <1>1, <2>4, <2>5, <2>6, <2>7 DEF Leaf
<1>3. \A k \in 1 .. N : k \in S
  <2> HIDE DEF S, N
  <2> QED BY <1>1, <1>2, CourseOfValues
<1>4. n \in S
  BY <1>3
<1> QED BY <1>4

-----------------------------------------------------------------------------
(***************************************************************************)
(* The positions of a node read what the node stands for.                  *)
(***************************************************************************)
Agree(A, word, spans) ==
    \A a, b \in Places(word) : Reads(A, word, a, b) <=> <<a, b>> \in spans

LEMMA CclAgrees ==
    ASSUME NEW C, NEW num \in Nat, NEW chars, NEW word, Len(word) \in Nat,
           ~C.nullable, C.first = {num}, C.last = {num}, C.follow = {}, C.match = {num} \X chars
    PROVE  Agree(C, word, OneOf(chars, word))
<1> DEFINE spans == OneOf(chars, word)
<1> SUFFICES ASSUME NEW a \in Places(word), NEW b \in Places(word)
             PROVE  Reads(C, word, a, b) <=> <<a, b>> \in spans
  BY DEF Agree
<1>1. a \in Nat /\ b \in Nat /\ b <= Len(word)
  BY DEF Places
<1>2. ASSUME Reads(C, word, a, b)
      PROVE  <<a, b>> \in spans
  <2>1. PICK p : Walk(C, word, p, a, b)
    BY <1>2 DEF Reads
  <2>2. /\ a < b
        /\ \A i \in a + 1 .. b : <<p[i], word[i]>> \in {num} \X chars
        /\ \A i \in a + 1 .. b - 1 : FALSE
    BY <2>1 DEF Walk, Connected
  <2>3. b = a + 1
    <3>1. a + 1 \notin a + 1 .. b - 1
      BY <2>2
    <3> QED BY <1>1, <2>2, <3>1
  <2>4. b \in a + 1 .. b /\ b \in 1 .. Len(word) /\ a = b - 1
    BY <1>1, <2>3
  <2>5. word[b] \in chars
    BY <2>2, <2>4
  <2> QED BY <2>4, <2>5 DEF OneOf
<1>3. ASSUME <<a, b>> \in spans
      PROVE  Reads(C, word, a, b)
  <2>1. b \in 1 .. Len(word) /\ a = b - 1 /\ word[b] \in chars
    BY <1>1, <1>3 DEF OneOf
  <2> DEFINE p == [i \in a + 1 .. b |-> num]
  <2>2. p \in [a + 1 .. b -> Nat] /\ p[a + 1] = num /\ p[b] = num
    BY <1>1, <2>1
  <2>3. \A i \in a + 1 .. b : p[i] = num /\ i = b
    BY <1>1, <2>1
  <2>4. \A i \in a + 1 .. b - 1 : FALSE
    BY <1>1, <2>1
  <2> HIDE DEF p
  <2>5. \A i \in a + 1 .. b : <<p[i], word[i]>> \in C.match
    BY <2>1, <2>3
  <2>6. Connected(C, word, p, a, b)
    BY <2>2, <2>4, <2>5 DEF Connected
  <2>7. a < b
    BY <1>1, <2>1
  <2> QED BY <2>2, <2>6, <2>7 DEF Reads, Walk
<1> QED BY <1>2, <1>3

LEMMA EpsilonAgrees ==
    ASSUME NEW C, NEW word, C.nullable, C.first = {}
    PROVE  Agree(C, word, { <<a, a>> : a \in Places(word) })
BY DEF Agree, Reads, Walk

LEMMA EofAgrees ==
    ASSUME NEW C, NEW word, Len(word) \in Nat, ~C.nullable, C.match = {}
    PROVE  Agree(C, word, {})
<1> SUFFICES ASSUME NEW a \in Places(word), NEW b \in Places(word), Reads(C, word, a, b)
             PROVE  FALSE
  BY DEF Agree
<1>1. PICK p : Walk(C, word, p, a, b)
  BY DEF Reads
<1>2. a < b /\ \A i \in a + 1 .. b : <<p[i], word[i]>> \in {}
  BY <1>1 DEF Walk, Connected
<1>3. b \in a + 1 .. b
  BY <1>2 DEF Places
<1> QED BY <1>2, <1>3

LEMMA OrAgrees ==
    ASSUME NEW A, NEW B, NEW C, NEW P, NEW Q, IsPart(A, P), IsPart(B, Q), P \cap Q = {},
           JoinsOr(C, A, B), NEW word, Len(word) \in Nat, NEW l, NEW r, Agree(A, word, l), Agree(B, word, r)
    PROVE  Agree(C, word, l \cup r)
<1> SUFFICES ASSUME NEW a \in Places(word), NEW b \in Places(word)
             PROVE  Reads(C, word, a, b) <=> <<a, b>> \in l \cup r
  BY DEF Agree
<1>1. a \in Nat /\ b \in Nat
  BY DEF Places
<1>2. Reads(C, word, a, b) <=> Reads(A, word, a, b) \/ Reads(B, word, a, b)
  BY <1>1, OrReads
<1> QED BY <1>2 DEF Agree

LEMMA CatAgrees ==
    ASSUME NEW A, NEW B, NEW C, NEW P, NEW Q, IsPart(A, P), IsPart(B, Q), P \cap Q = {},
           JoinsCat(C, A, B), NEW word, Len(word) \in Nat, NEW l, NEW r,
           Agree(A, word, l), Agree(B, word, r)
    PROVE  Agree(C, word, Joining(l, r, word))
<1> SUFFICES ASSUME NEW a \in Places(word), NEW b \in Places(word)
             PROVE  Reads(C, word, a, b) <=> <<a, b>> \in Joining(l, r, word)
  BY DEF Agree
<1>1. a \in Nat /\ b \in Nat /\ \A c \in a .. b : c \in Places(word)
  BY DEF Places
<1>2. Reads(C, word, a, b) <=> \E c \in a .. b : Reads(A, word, a, c) /\ Reads(B, word, c, b)
  BY <1>1, CatReads
<1>3. <<a, b>> \in Joining(l, r, word) <=>
        \E c \in Places(word) : <<a, c>> \in l /\ <<c, b>> \in r
  BY DEF Joining
<1>4. ASSUME NEW c \in Places(word)
      PROVE  /\ <<a, c>> \in l <=> Reads(A, word, a, c)
             /\ <<c, b>> \in r <=> Reads(B, word, c, b)
  BY DEF Agree
<1>5. ASSUME NEW c \in Places(word), Reads(A, word, a, c), Reads(B, word, c, b)
      PROVE  c \in a .. b
  <2>1. a <= c /\ c <= b
    BY <1>1, <1>5 DEF Reads, Walk, Places
  <2> QED BY <2>1 DEF Places
<1> QED BY <1>1, <1>2, <1>3, <1>4, <1>5

LEMMA StarAgrees ==
    ASSUME NEW A, NEW C, Repeats(C, A), NEW word, Len(word) \in Nat, NEW l,
           l \subseteq Places(word) \X Places(word), Agree(A, word, l)
    PROVE  Agree(C, word, Repeating(l, word))
<1> SUFFICES ASSUME NEW a \in Places(word), NEW b \in Places(word)
             PROVE  Reads(C, word, a, b) <=> <<a, b>> \in Repeating(l, word)
  BY DEF Agree
<1>1. Reads(C, word, a, b) <=> ReachedFrom(a, b, A, word, Len(word))
  BY StarReads DEF Places
<1>2. ASSUME NEW S \in SUBSET Places(word)
      PROVE  (\A cd \in l : cd[1] \in S => cd[2] \in S) <=> Closed(S, A, word, Len(word))
  <2>1. (\A cd \in l : cd[1] \in S => cd[2] \in S) <=>
          \A c, d \in Places(word) : <<c, d>> \in l /\ c \in S => d \in S
    <3>1. ASSUME \A cd \in l : cd[1] \in S => cd[2] \in S, NEW c, NEW d, <<c, d>> \in l, c \in S
          PROVE  d \in S
      <4>1. <<c, d>>[1] = c /\ <<c, d>>[2] = d
        OBVIOUS
      <4> QED BY <3>1, <4>1
    <3>2. ASSUME \A c, d \in Places(word) : <<c, d>> \in l /\ c \in S => d \in S,
                 NEW cd \in l, cd[1] \in S
          PROVE  cd[2] \in S
      <4>1. cd = <<cd[1], cd[2]>> /\ cd[1] \in Places(word) /\ cd[2] \in Places(word)
        OBVIOUS
      <4> QED BY <3>2, <4>1
    <3> QED BY <3>1, <3>2
  <2> QED BY <2>1 DEF Agree, Closed, Places
<1>3. <<a, b>> \in Repeating(l, word) <=>
        \A S \in SUBSET Places(word) :
          (a \in S /\ \A cd \in l : cd[1] \in S => cd[2] \in S) => b \in S
  BY DEF Repeating
<1> QED BY <1>1, <1>2, <1>3 DEF ReachedFrom, Places

\* The first, last, follow and match of every node read its language.
LEMMA TreeAgrees ==
    ASSUME NEW t, NEW chars, IsForest(t, chars), NEW word, Len(word) \in Nat, NEW n \in 1 .. Len(t)
    PROVE  Agree(Attributes(t, chars)[n], word, Spans(t, word)[n])
<1> DEFINE at == Attributes(t, chars)
           sp == Spans(t, word)
           N == Len(t)
           P(k) == NumbersOf(t, k)
           S == { k \in 1 .. N : Agree(at[k], word, sp[k]) }
<1>1. /\ N \in Nat
      /\ \A k \in 1 .. N :
           /\ t[k].kind \in {"ccl", "epsilon", "eof", "or", "cat", "star"}
           /\ ~Leaf(t[k]) => m_left(t, k) \in 1 .. k - 1 /\ m_right(t, k) \in 1 .. k - 1
  BY ForestShape
<1>2. ASSUME NEW k \in 1 .. N, \A m \in 1 .. k - 1 : m \in S
      PROVE  k \in S
  <2> DEFINE l == m_left(t, k)
             r == m_right(t, k)
             C == at[k]
             A == at[l]
             B == at[r]
             num == m_node_num(t, k)
             sl == sp[l]
             sr == sp[r]
  <2>1. C = AttributesAt(t[k], num, chars, A, B)
    BY AttributesRecursion
  <2>2. sp[k] = SpansAt(t[k], word, sl, sr)
    BY SpansRecursion
  <2>3. num \in Nat
    BY NumbersAscend
  <2>4. ASSUME ~Leaf(t[k])
        PROVE  /\ IsPart(A, P(l)) /\ IsPart(B, P(r)) /\ Agree(A, word, sl) /\ Agree(B, word, sr)
               /\ sl \subseteq Places(word) \X Places(word)
    <3>1. l \in S /\ r \in S /\ l \in 1 .. N /\ r \in 1 .. N
      BY <1>1, <1>2, <2>4
    <3>2. sl \subseteq Places(word) \X Places(word)
      BY <3>1, SpansRecursion
    <3>3. IsPart(A, P(l)) /\ IsPart(B, P(r))
      BY <3>1, PartsOfTree
    <3> QED BY <3>1, <3>2, <3>3
  <2>5. IsBinary(t[k]) => P(l) \cap P(r) = {}
    BY NumbersOfOperands
  <2> HIDE DEF at, sp, P, l, r, num
  <2> HIDE DEF C, A, B, sl, sr
  <2>6. CASE t[k].kind = "or"
    <3>1. JoinsOr(C, A, B)
      BY <2>1, <2>6, NodeAttributes
    <3>2. ~Leaf(t[k]) /\ IsBinary(t[k])
      BY <2>6 DEF Leaf, IsBinary
    <3>3. Agree(C, word, sl \cup sr)
      BY <2>4, <2>5, <3>1, <3>2, OrAgrees
    <3>4. sp[k] = sl \cup sr
      BY <2>2, <2>6 DEF SpansAt
    <3> QED BY <3>3, <3>4 DEF C
  <2>7. CASE t[k].kind = "cat"
    <3>1. JoinsCat(C, A, B)
      BY <2>1, <2>7, NodeAttributes
    <3>2. ~Leaf(t[k]) /\ IsBinary(t[k])
      BY <2>7 DEF Leaf, IsBinary
    <3>3. Agree(C, word, Joining(sl, sr, word))
      BY <2>4, <2>5, <3>1, <3>2, CatAgrees
    <3>4. sp[k] = Joining(sl, sr, word)
      BY <2>2, <2>7 DEF SpansAt
    <3> QED BY <3>3, <3>4 DEF C
  <2>8. CASE t[k].kind = "star"
    <3>1. Repeats(C, A)
      BY <2>1, <2>8, NodeAttributes
    <3>2. ~Leaf(t[k])
      BY <2>8 DEF Leaf
    <3>3. Agree(C, word, Repeating(sl, word))
      BY <2>4, <3>1, <3>2, StarAgrees
    <3>4. sp[k] = Repeating(sl, word)
      BY <2>2, <2>8 DEF SpansAt
    <3> QED BY <3>3, <3>4 DEF C
  <2>9. CASE t[k].kind = "ccl"
    <3> DEFINE chosen == t[k].match
    <3>1. ~C.nullable /\ C.first = {num} /\ C.last = {num} /\ C.follow = {} /\ C.match = {num} \X chosen
      BY <2>1, <2>9, NodeAttributes
    <3>2. sp[k] = OneOf(chosen, word)
      BY <2>2, <2>9 DEF SpansAt
    <3>3. Agree(C, word, OneOf(chosen, word))
      <4> HIDE DEF chosen
      <4> QED BY <2>3, <3>1, CclAgrees
    <3> QED BY <3>2, <3>3 DEF C
  <2>10. CASE t[k].kind = "epsilon"
    <3>1. C.nullable /\ C.first = {}
      BY <2>1, <2>10, NodeAttributes
    <3>2. sp[k] = { <<a, a>> : a \in Places(word) }
      BY <2>2, <2>10 DEF SpansAt
    <3> QED BY <3>1, <3>2, EpsilonAgrees DEF C
  <2>11. CASE t[k].kind = "eof"
    <3>1. ~C.nullable /\ C.match = {}
      BY <2>1, <2>11, NodeAttributes
    <3>2. sp[k] = {}
      BY <2>2, <2>11 DEF SpansAt
    <3> QED BY <3>1, <3>2, EofAgrees DEF C
  <2> QED BY <1>1, <2>6, <2>7, <2>8, <2>9, <2>10, <2>11
<1>3. \A k \in 1 .. N : k \in S
  <2> HIDE DEF S, N
  <2> QED BY <1>1, <1>2, CourseOfValues
<1> QED BY <1>3

-----------------------------------------------------------------------------
(***************************************************************************)
(* A tree inside of another one, behind the first o nodes.                 *)
(***************************************************************************)
Embedded(s, t, o) == \A i \in 1 .. Len(s) : t[o + i] = s[i]

\* The nodes of a tree have their operands also inside of another one.
LEMMA EmbeddedShape ==
    ASSUME NEW s, NEW t, NEW chars, IsForest(s, chars), NEW o \in Nat, Embedded(s, t, o),
           NEW i \in 1 .. Len(s)
    PROVE  /\ HasOperands(t, o + i) /\ t[o + i] = s[i]
           /\ ~Leaf(s[i]) => /\ m_left(t, o + i) = o + m_left(s, i)
                            /\ m_right(t, o + i) = o + m_right(s, i)
<1>1. /\ Len(s) \in Nat /\ DOMAIN s = 1 .. Len(s)
      /\ \A k \in 1 .. Len(s) : t[o + k] = s[k] /\ s[k].size \in 1 .. k
      /\ ~Leaf(s[i]) => m_left(s, i) \in 1 .. i - 1 /\ m_right(s, i) \in 1 .. i - 1
  BY ForestShape DEF Embedded
<1>2. HasOperands(s, i)
  BY <1>1 DEF IsForest
<1>3. ASSUME ~Leaf(s[i])
      PROVE  /\ i - 1 \in 1 .. Len(s) /\ (o + i) - 1 = o + (i - 1)
             /\ m_left(t, o + i) = o + m_left(s, i)
             /\ m_right(t, o + i) = o + m_right(s, i)
             /\ t[m_left(t, o + i)] = s[m_left(s, i)]
  <2>1. i - 1 \in 1 .. Len(s) /\ (o + i) - 1 = o + (i - 1)
    <3>1. i > 1
      BY <1>2, <1>3 DEF HasOperands
    <3> QED BY <1>1, <3>1
  <2>2. t[(o + i) - 1] = s[i - 1] /\ t[o + i] = s[i] /\ s[i - 1].size \in Nat
    BY <1>1, <2>1
  <2>3. m_left(t, o + i) = o + m_left(s, i) /\ m_right(t, o + i) = o + m_right(s, i)
    <3>1. m_right(t, o + i) = o + m_right(s, i)
      BY <2>1 DEF m_right
    <3>2. CASE IsBinary(s[i])
      <4>1. /\ m_left(t, o + i) = (o + i) - 1 - s[i - 1].size
            /\ m_left(s, i) = i - 1 - s[i - 1].size
        BY <2>2, <3>2 DEF m_left
      <4>2. \A z \in Nat : (o + i) - 1 - z = o + (i - 1 - z)
        OBVIOUS
      <4> QED BY <2>2, <3>1, <4>1, <4>2
    <3>3. CASE ~IsBinary(s[i])
      <4>1. m_left(t, o + i) = (o + i) - 1 /\ m_left(s, i) = i - 1
        BY <2>2, <3>3 DEF m_left
      <4> QED BY <2>1, <3>1, <4>1
    <3> QED BY <3>2, <3>3
  <2>4. m_left(s, i) \in 1 .. Len(s)
    BY <1>1, <1>3
  <2> QED BY <1>1, <2>1, <2>3, <2>4
<1>4. t[o + i] = s[i] /\ s[i].size \in 1 .. o + i
  BY <1>1
<1>5. HasOperands(t, o + i)
  <2>1. CASE Leaf(s[i])
    BY <1>2, <1>4, <2>1 DEF HasOperands, Leaf, IsBinary
  <2>2. CASE ~Leaf(s[i])
    <3>1. t[(o + i) - 1] = s[i - 1] /\ o + i > 1
      BY <1>1, <1>2, <1>3, <2>2 DEF HasOperands
    <3>2. m_left(t, o + i) >= 1
      BY <1>1, <1>3, <2>2
    <3> QED BY <1>2, <1>3, <1>4, <2>2, <3>1, <3>2 DEF HasOperands
  <2> QED BY <2>1, <2>2
<1> QED BY <1>3, <1>4, <1>5

\* A tree inside of another one stands for the same language.
LEMMA EmbeddedSpans ==
    ASSUME NEW s, NEW t, NEW chars, IsForest(s, chars), IsForest(t, chars), NEW o \in Nat,
           Embedded(s, t, o), o + Len(s) <= Len(t), NEW word, Len(word) \in Nat
    PROVE  \A i \in 1 .. Len(s) : Spans(t, word)[o + i] = Spans(s, word)[i]
<1> DEFINE N == Len(s)
           st == Spans(t, word)
           ss == Spans(s, word)
           S == { i \in 1 .. N : st[o + i] = ss[i] }
<1>1. /\ N \in Nat /\ Len(t) \in Nat
      /\ \A k \in 1 .. N :
           ~Leaf(s[k]) => m_left(s, k) \in 1 .. k - 1 /\ m_right(s, k) \in 1 .. k - 1
  BY ForestShape
<1>2. ASSUME NEW k \in 1 .. N, \A m \in 1 .. k - 1 : m \in S
      PROVE  k \in S
  <2>1. o + k \in 1 .. Len(t) /\ t[o + k] = s[k]
    BY <1>1 DEF Embedded
  <2>2. /\ st[o + k] = SpansAt(s[k], word, st[m_left(t, o + k)], st[m_right(t, o + k)])
        /\ ss[k] = SpansAt(s[k], word, ss[m_left(s, k)], ss[m_right(s, k)])
    BY <2>1, SpansRecursion
  <2> HIDE DEF st, ss
  <2>3. CASE Leaf(s[k])
    BY <2>2, <2>3, LeafSpans
  <2>4. CASE ~Leaf(s[k])
    <3>1. m_left(t, o + k) = o + m_left(s, k) /\ m_right(t, o + k) = o + m_right(s, k)
      BY <2>4, EmbeddedShape
    <3>2. m_left(s, k) \in S /\ m_right(s, k) \in S
      BY <1>1, <1>2, <2>4
    <3> QED BY <2>2, <3>1, <3>2
  <2> QED BY <2>3, <2>4
<1>3. \A k \in 1 .. N : k \in S
  <2> HIDE DEF S, N
  <2> QED BY <1>1, <1>2, CourseOfValues
<1> QED BY <1>3

\* An expression has no eof_node.
LEMMA EmbeddedWithoutEof ==
    ASSUME NEW s, NEW t, NEW chars, IsExpression(s, chars), IsForest(t, chars), NEW o \in Nat,
           Embedded(s, t, o), o + Len(s) <= Len(t)
    PROVE  \A i \in 1 .. Len(s) : Attributes(t, chars)[o + i].eof = {}
<1> DEFINE N == Len(s)
           at == Attributes(t, chars)
           S == { i \in 1 .. N : at[o + i].eof = {} }
<1>1. /\ IsForest(s, chars) /\ N \in Nat /\ Len(t) \in Nat
      /\ \A k \in 1 .. N :
           /\ s[k].kind \in {"ccl", "epsilon", "or", "cat", "star"}
           /\ ~Leaf(s[k]) => m_left(s, k) \in 1 .. k - 1 /\ m_right(s, k) \in 1 .. k - 1
  BY ForestShape DEF IsExpression, IsTree
<1>2. ASSUME NEW k \in 1 .. N, \A m \in 1 .. k - 1 : m \in S
      PROVE  k \in S
  <2> DEFINE C == at[o + k]
             A == at[m_left(t, o + k)]
             B == at[m_right(t, o + k)]
             num == m_node_num(t, o + k)
  <2>1. o + k \in 1 .. Len(t) /\ t[o + k] = s[k]
    BY <1>1 DEF Embedded
  <2>2. C = AttributesAt(s[k], num, chars, A, B)
    BY <2>1, AttributesRecursion
  <2> HIDE DEF at, num
  <2>3. ASSUME ~Leaf(s[k])
        PROVE  A.eof = {} /\ B.eof = {}
    <3>1. m_left(t, o + k) = o + m_left(s, k) /\ m_right(t, o + k) = o + m_right(s, k)
      BY <1>1, <2>3, EmbeddedShape
    <3>2. m_left(s, k) \in S /\ m_right(s, k) \in S
      BY <1>1, <1>2, <2>3
    <3> QED BY <3>1, <3>2
  <2> HIDE DEF A, B
  <2>4. C.eof = {}
    <3> HIDE DEF C
    <3>1. CASE s[k].kind \in {"or", "cat", "star"}
      <4>1. A.eof = {} /\ B.eof = {}
        BY <2>3, <3>1 DEF Leaf
      <4> QED BY <2>2, <3>1, <4>1, NodeAttributes
    <3>2. CASE s[k].kind \in {"ccl", "epsilon"}
      BY <2>2, <3>2, NodeAttributes
    <3> QED BY <1>1, <3>1, <3>2
  <2> QED BY <2>4
<1>3. \A k \in 1 .. N : k \in S
  <2> HIDE DEF S, N
  <2> QED BY <1>1, <1>2, CourseOfValues
<1> QED BY <1>3

\* A node with two trees as its operands.
LEMMA BinaryShape ==
    ASSUME NEW l, NEW r, NEW chars, IsTree(l, chars), IsTree(r, chars), NEW kind \in {"or", "cat"}
    PROVE  LET b == Binary(l, r, kind)
           IN  /\ IsTree(b, chars) /\ Len(b) = Len(l) + Len(r) + 1
               /\ Embedded(l, b, 0) /\ Embedded(r, b, Len(l))
               /\ b[Len(b)].kind = kind
               /\ m_left(b, Len(b)) = Len(l) /\ m_right(b, Len(b)) = Len(l) + Len(r)
<1> DEFINE b == Binary(l, r, kind)
           S == Nodes(chars)
           top == Node(kind, {}, Len(l) + Len(r) + 1)
           n == Len(l) + Len(r) + 1
<1>1. /\ l \in Seq(S) /\ r \in Seq(S) /\ Len(l) \in Nat /\ Len(r) \in Nat
      /\ Len(l) >= 1 /\ Len(r) >= 1 /\ l[Len(l)].size = Len(l) /\ r[Len(r)].size = Len(r)
      /\ IsForest(l, chars) /\ IsForest(r, chars)
  <2>1. l \in Seq(S) /\ r \in Seq(S) /\ l # <<>> /\ r # <<>>
    BY DEF IsTree, IsForest
  <2> QED BY <2>1, LenProperties, EmptySeq DEF IsTree
<1>2. top \in S /\ top.kind = kind /\ top.size = n
  BY <1>1 DEF Node, Nodes
<1>3. /\ l \o r \in Seq(S) /\ Len(l \o r) = Len(l) + Len(r)
      /\ \A i \in 1 .. Len(l) : (l \o r)[i] = l[i]
      /\ \A i \in 1 .. Len(r) : (l \o r)[Len(l) + i] = r[i]
  <2> HIDE DEF S
  <2> QED BY <1>1, ConcatAt
<1> DEFINE both == l \o r
<1>4. /\ b \in Seq(S) /\ Len(b) = n /\ b[n] = top
      /\ \A i \in 1 .. Len(l) + Len(r) : b[i] = both[i]
  <2> HIDE DEF S, top, both
  <2>1. /\ Append(both, top) \in Seq(S) /\ Len(Append(both, top)) = Len(both) + 1
        /\ Append(both, top)[Len(both) + 1] = top
        /\ \A i \in 1 .. Len(both) : Append(both, top)[i] = both[i]
    BY <1>2, <1>3, AppendProperties DEF both
  <2>2. b = Append(both, top)
    BY DEF Binary, both, top
  <2> QED BY <1>3, <2>1, <2>2 DEF both
<1> HIDE DEF b, S
<1>5. Embedded(l, b, 0)
  <2> SUFFICES ASSUME NEW i \in 1 .. Len(l) PROVE b[0 + i] = l[i]
    BY DEF Embedded
  <2>1. i \in 1 .. Len(l) + Len(r) /\ 0 + i = i
    BY <1>1
  <2> QED BY <1>3, <1>4, <2>1
<1>6. Embedded(r, b, Len(l))
  <2> SUFFICES ASSUME NEW i \in 1 .. Len(r) PROVE b[Len(l) + i] = r[i]
    BY DEF Embedded
  <2>1. Len(l) + i \in 1 .. Len(l) + Len(r)
    BY <1>1
  <2> QED BY <1>3, <1>4, <2>1
<1>7. /\ m_left(b, n) = Len(l) /\ m_right(b, n) = Len(l) + Len(r)
      /\ b[n].kind = kind /\ b[n].size = n /\ b[n - 1].size = Len(r) /\ b[Len(l)].size = Len(l)
  <2>1. b[Len(l) + Len(r)] = r[Len(r)] /\ b[0 + Len(l)] = l[Len(l)]
    BY <1>1, <1>5, <1>6 DEF Embedded
  <2>2. n - 1 = Len(l) + Len(r) /\ 0 + Len(l) = Len(l)
    BY <1>1
  <2> HIDE DEF n, top
  <2>3. b[n].kind = kind /\ b[n].size = n /\ IsBinary(b[n])
    BY <1>2, <1>4 DEF IsBinary
  <2> QED BY <1>1, <2>1, <2>2, <2>3 DEF m_left, m_right
<1>8. ASSUME NEW i \in 1 .. n
      PROVE  HasOperands(b, i)
  <2>1. CASE i \in 1 .. Len(l)
    <3>1. HasOperands(b, 0 + i)
      BY <1>1, <1>5, <2>1, EmbeddedShape
    <3> QED BY <2>1, <3>1
  <2>2. CASE i \in Len(l) + 1 .. Len(l) + Len(r)
    <3> DEFINE k == i - Len(l)
    <3>1. k \in 1 .. Len(r) /\ Len(l) + k = i
      BY <1>1, <2>2
    <3> HIDE DEF k
    <3>2. HasOperands(b, Len(l) + k)
      BY <1>1, <1>6, <3>1, EmbeddedShape
    <3> QED BY <3>1, <3>2
  <2>3. CASE i = n
    <3>1. b[i].size = n /\ ~Leaf(b[i]) /\ i > 1 /\ b[i].kind # "star" /\ n \in 1 .. n
      BY <1>1, <1>7, <2>3 DEF Leaf
    <3>2. /\ m_left(b, i) = Len(l) /\ b[i - 1].size = Len(r) /\ b[i].size = n
          /\ b[m_left(b, i)].size = Len(l)
      <4> HIDE DEF n
      <4> QED BY <1>7, <2>3
    <3>3. m_left(b, i) >= 1 /\ b[i].size = b[i - 1].size + b[m_left(b, i)].size + 1
      BY <1>1, <3>2
    <3> QED BY <2>3, <3>1, <3>3 DEF HasOperands
  <2> QED BY <1>1, <2>1, <2>2, <2>3
<1>9. IsTree(b, chars)
  <2>1. DOMAIN b = 1 .. n
    BY <1>4, LenProperties
  <2>2. b # <<>>
    BY <1>1, <1>4
  <2> QED BY <1>4, <1>7, <1>8, <2>1, <2>2 DEF IsTree, IsForest, S
<1> QED BY <1>4, <1>5, <1>6, <1>7, <1>9 DEF b

-----------------------------------------------------------------------------
(***************************************************************************)
(* The tree of a list of expressions.                                      *)
(***************************************************************************)
Ended(regex) == Cat(regex, Eof)

\* The trees of parse_regexes after each of the expressions.
GrowsTo(regexes, tree) ==
    /\ tree[1] = Ended(regexes[1])
    /\ \A k \in 2 .. Len(regexes) : tree[k] = Or(tree[k - 1], Ended(regexes[k]))
    /\ parse_regexes(regexes) = tree[Len(regexes)]

IsList(regexes, chars) ==
    /\ Len(regexes) \in Nat \ {0} /\ DOMAIN regexes = 1 .. Len(regexes)
    /\ \A k \in 1 .. Len(regexes) : IsExpression(regexes[k], chars)

LEMMA EofIsTree == \A chars : IsTree(Eof, chars) /\ Len(Eof) = 1 /\ Eof[1].kind = "eof"
<1> SUFFICES ASSUME NEW chars
             PROVE  IsTree(Eof, chars) /\ Len(Eof) = 1 /\ Eof[1].kind = "eof"
  OBVIOUS
<1> DEFINE node == Node("eof", {}, 1)
<1>1. node \in Nodes(chars) /\ node.kind = "eof" /\ node.size = 1 /\ Leaf(node) /\ ~IsBinary(node)
  BY DEF Node, Nodes, Leaf, IsBinary
<1> HIDE DEF node
<1>2. Eof = <<node>>
  BY DEF Eof, node
<1>3. <<node>> \in Seq(Nodes(chars)) /\ Len(<<node>>) = 1 /\ <<node>>[1] = node /\ <<node>> # <<>>
  BY <1>1
<1>4. HasOperands(<<node>>, 1)
  BY <1>1, <1>3 DEF HasOperands
<1>5. \A n \in DOMAIN <<node>> : HasOperands(<<node>>, n)
  BY <1>4
<1> QED BY <1>1, <1>2, <1>3, <1>5 DEF IsTree, IsForest

\* An expression with its eof_node.
LEMMA EndedShape ==
    ASSUME NEW regex, NEW chars, IsExpression(regex, chars)
    PROVE  LET e == Ended(regex)
               n == Len(regex)
           IN  /\ n \in Nat \ {0} /\ IsTree(e, chars) /\ Len(e) = n + 2 /\ Embedded(regex, e, 0)
               /\ e[n + 1].kind = "eof"
               /\ e[n + 2].kind = "cat" /\ m_left(e, n + 2) = n /\ m_right(e, n + 2) = n + 1
<1> DEFINE e == Ended(regex)
           n == Len(regex)
<1>1. IsTree(regex, chars) /\ IsTree(Eof, chars) /\ Len(Eof) = 1 /\ Eof[1].kind = "eof"
  BY EofIsTree DEF IsExpression
<1>2. n \in Nat \ {0}
  <2>1. regex \in Seq(Nodes(chars)) /\ regex # <<>>
    BY <1>1 DEF IsTree, IsForest
  <2> QED BY <2>1, LenProperties, EmptySeq
<1>3. /\ IsTree(e, chars) /\ Len(e) = Len(regex) + Len(Eof) + 1
      /\ Embedded(regex, e, 0) /\ Embedded(Eof, e, Len(regex))
      /\ e[Len(e)].kind = "cat"
      /\ m_left(e, Len(e)) = Len(regex) /\ m_right(e, Len(e)) = Len(regex) + Len(Eof)
  BY <1>1, BinaryShape DEF Ended, Cat
<1> HIDE DEF e
<1>4. Len(e) = n + 2
  BY <1>1, <1>2, <1>3
<1>5. e[n + 1].kind = "eof"
  <2>1. e[Len(regex) + 1] = Eof[1]
    BY <1>1, <1>3 DEF Embedded
  <2> QED BY <1>1, <2>1
<1> QED BY <1>1, <1>2, <1>3, <1>4, <1>5 DEF e

\* The recursive function of parse_regexes has its values.
LEMMA ParseRegexesRecursion ==
    ASSUME NEW regexes, NEW chars, IsList(regexes, chars)
    PROVE  \E tree : GrowsTo(regexes, tree)
<1> DEFINE K == Len(regexes)
           S == { t \in Seq(Nodes(chars)) : IsTree(t, chars) }
           Body(f, k) == IF k = 1 THEN Ended(regexes[k]) ELSE Or(f[k - 1], Ended(regexes[k]))
           Recursive(f) == f = [k \in DOMAIN regexes |-> Body(f, k)]
           tree == CHOOSE f : Recursive(f)
           step == [x \in Nat \X S |->
                      IF x[1] \notin 1 .. K THEN Eof
                      ELSE IF x[1] = 1 THEN Ended(regexes[x[1]]) ELSE Or(x[2], Ended(regexes[x[1]]))]
<1>1. K \in Nat /\ K >= 1 /\ DOMAIN regexes = 1 .. K
  BY DEF IsList
<1>2. \A t : IsTree(t, chars) => t \in S
  BY DEF IsTree, IsForest
<1>3. Eof \in S
  BY <1>2, EofIsTree
<1>4. ASSUME NEW k \in 1 .. K
      PROVE  Ended(regexes[k]) \in S
  <2>1. IsExpression(regexes[k], chars)
    BY DEF IsList
  <2> QED BY <1>2, <2>1, EndedShape
<1>5. ASSUME NEW k \in 1 .. K, NEW t \in S
      PROVE  Or(t, Ended(regexes[k])) \in S
  <2>1. IsTree(t, chars) /\ IsTree(Ended(regexes[k]), chars)
    BY <1>4
  <2>2. IsTree(Or(t, Ended(regexes[k])), chars)
    BY <2>1, BinaryShape DEF Or
  <2> QED BY <1>2, <2>2
<1> HIDE DEF S, K
<1>6. step \in [Nat \X S -> S]
  <2> SUFFICES ASSUME NEW k \in Nat, NEW t \in S
               PROVE  (IF k \notin 1 .. K THEN Eof
                       ELSE IF k = 1 THEN Ended(regexes[k]) ELSE Or(t, Ended(regexes[k]))) \in S
    OBVIOUS
  <2> QED BY <1>3, <1>4, <1>5
<1>7. PICK g \in [0 .. K -> S] : \A i \in 1 .. K : g[i] = step[<<i, g[i - 1]>>]
  <2> HIDE DEF step
  <2>1. \E f : IsRecursion(f, S, Eof, step, K)
    BY <1>1, <1>3, <1>6, RecursionExists
  <2> QED BY <2>1 DEF IsRecursion
<1>8. ASSUME NEW i \in 1 .. K
      PROVE  g[i] = IF i = 1 THEN Ended(regexes[i]) ELSE Or(g[i - 1], Ended(regexes[i]))
  <2>1. i \in Nat /\ i - 1 \in 0 .. K
    BY <1>1
  <2>2. g[i - 1] \in S
    BY <2>1
  <2>3. step[<<i, g[i - 1]>>] =
          IF i = 1 THEN Ended(regexes[i]) ELSE Or(g[i - 1], Ended(regexes[i]))
    BY <2>1, <2>2
  <2> QED BY <1>7, <2>3
<1> DEFINE f == [i \in 1 .. K |-> g[i]]
<1>9. ASSUME NEW i \in 1 .. K
      PROVE  f[i] = Body(f, i)
  <2>1. CASE i = 1
    <3>1. f[i] = g[i]
      OBVIOUS
    <3> HIDE DEF f
    <3> QED BY <1>8, <2>1, <3>1
  <2>2. CASE i # 1
    <3>1. i - 1 \in 1 .. K
      BY <1>1, <2>2
    <3>2. f[i] = g[i] /\ f[i - 1] = g[i - 1]
      BY <3>1
    <3> HIDE DEF f
    <3> QED BY <1>8, <2>2, <3>2
  <2> QED BY <2>1, <2>2
<1>10. Recursive(f)
  <2> HIDE DEF Body
  <2>1. f = [i \in 1 .. K |-> f[i]]
    OBVIOUS
  <2> HIDE DEF f
  <2>2. f = [i \in 1 .. K |-> Body(f, i)]
    BY <1>9, <2>1
  <2> QED BY <1>1, <2>2
<1>11. Recursive(tree)
  <2> HIDE DEF Recursive
  <2> QED BY <1>10, Zenon
<1>12. parse_regexes(regexes) = tree[K]
  BY DEF parse_regexes, Ended, K
<1> HIDE DEF tree
<1>13. tree = [k \in 1 .. K |-> Body(tree, k)]
  BY <1>1, <1>11
<1>14. \A k \in 1 .. K : tree[k] = Body(tree, k)
  <2> HIDE DEF Body
  <2> QED BY <1>13
<1>15. tree[1] = Ended(regexes[1])
  BY <1>1, <1>14
<1>16. ASSUME NEW k \in 2 .. K
       PROVE  tree[k] = Or(tree[k - 1], Ended(regexes[k]))
  <2>1. k \in 1 .. K /\ k # 1
    OBVIOUS
  <2> QED BY <1>14, <2>1
<1>17. GrowsTo(regexes, tree)
  BY <1>12, <1>15, <1>16 DEF GrowsTo, K
<1> QED BY <1>17

\* What is built after each expression is a tree.
LEMMA TreesOfList ==
    ASSUME NEW regexes, NEW chars, IsList(regexes, chars), NEW tree, GrowsTo(regexes, tree),
           NEW k \in 1 .. Len(regexes)
    PROVE  IsTree(tree[k], chars)
<1> DEFINE K == Len(regexes)
           N == { n \in Nat : n + 1 \in 1 .. K => IsTree(tree[n + 1], chars) }
<1>1. K \in Nat /\ \A i \in 1 .. K : IsTree(Ended(regexes[i]), chars)
  BY EndedShape DEF IsList
<1>2. 0 \in N
  BY <1>1 DEF GrowsTo
<1>3. ASSUME NEW n \in Nat, n \in N
      PROVE  n + 1 \in N
  <2> SUFFICES ASSUME (n + 1) + 1 \in 1 .. K PROVE IsTree(tree[(n + 1) + 1], chars)
    OBVIOUS
  <2>1. n + 1 \in 1 .. K /\ (n + 1) + 1 \in 2 .. K /\ ((n + 1) + 1) - 1 = n + 1
    BY <1>1
  <2>2. tree[(n + 1) + 1] = Or(tree[n + 1], Ended(regexes[(n + 1) + 1]))
    BY <2>1 DEF GrowsTo
  <2>3. IsTree(tree[n + 1], chars) /\ IsTree(Ended(regexes[(n + 1) + 1]), chars)
    BY <1>1, <1>3, <2>1
  <2> QED BY <2>2, <2>3, BinaryShape DEF Or
<1> HIDE DEF N
<1>4. \A n \in Nat : n \in N
  BY <1>2, <1>3, Induction
<1>5. k - 1 \in Nat /\ (k - 1) + 1 = k
  OBVIOUS
<1> QED BY <1>4, <1>5 DEF N

\* Where the expression k starts in the tree, and where its root is.
Start(tree, k)          == IF k = 1 THEN 0 ELSE Len(tree[k - 1])
RegexRoot(regexes, tree, k) == Start(tree, k) + Len(regexes[k])
EndedRoot(regexes, tree, k) == Start(tree, k) + Len(regexes[k]) + 2

\* One more expression.
LEMMA TreeGrows ==
    ASSUME NEW regexes, NEW chars, IsList(regexes, chars), NEW tree, GrowsTo(regexes, tree),
           NEW k \in 1 .. Len(regexes)
    PROVE  LET o == Start(tree, k)
               cat == EndedRoot(regexes, tree, k)
               t == tree[k]
           IN  /\ IsTree(t, chars) /\ Len(t) \in Nat /\ o \in Nat
               /\ Embedded(Ended(regexes[k]), t, o) /\ Len(Ended(regexes[k])) = Len(regexes[k]) + 2
               /\ Len(t) = IF k = 1 THEN cat ELSE cat + 1
               /\ k > 1 => /\ Embedded(tree[k - 1], t, 0) /\ t[Len(t)].kind = "or"
                           /\ m_left(t, Len(t)) = Len(tree[k - 1]) /\ m_right(t, Len(t)) = cat
<1> DEFINE e == Ended(regexes[k])
<1>1. IsTree(e, chars) /\ Len(regexes[k]) \in Nat /\ Len(e) = Len(regexes[k]) + 2
  BY EndedShape DEF IsList
<1>2. IsTree(tree[k], chars) /\ Len(tree[k]) \in Nat
  <2>1. IsTree(tree[k], chars)
    BY TreesOfList
  <2> QED BY <2>1, LenProperties DEF IsTree, IsForest
<1>3. CASE k = 1
  <2>1. tree[k] = e /\ Start(tree, k) = 0
    BY <1>3 DEF GrowsTo, Start
  <2>2. Embedded(e, e, 0)
    BY <1>1 DEF Embedded
  <2> QED BY <1>1, <1>2, <1>3, <2>1, <2>2 DEF EndedRoot
<1>4. CASE k # 1
  <2> DEFINE s == tree[k - 1]
  <2>1. k - 1 \in 1 .. Len(regexes) /\ k \in 2 .. Len(regexes) /\ k > 1
    BY <1>4 DEF IsList
  <2>2. tree[k] = Or(s, e) /\ Start(tree, k) = Len(s)
    BY <1>4, <2>1 DEF GrowsTo, Start
  <2>3. IsTree(s, chars) /\ Len(s) \in Nat
    <3>1. IsTree(s, chars)
      BY <2>1, TreesOfList
    <3> QED BY <3>1, LenProperties DEF IsTree, IsForest
  <2>4. EndedRoot(regexes, tree, k) = Len(s) + Len(regexes[k]) + 2
    BY <2>2 DEF EndedRoot
  <2> HIDE DEF e, s
  <2>5. LET b == Or(s, e)
        IN  /\ Len(b) = Len(s) + Len(e) + 1
            /\ Embedded(s, b, 0) /\ Embedded(e, b, Len(s)) /\ b[Len(b)].kind = "or"
            /\ m_left(b, Len(b)) = Len(s) /\ m_right(b, Len(b)) = Len(s) + Len(e)
    <3>1. IsTree(s, chars) /\ IsTree(e, chars) /\ "or" \in {"or", "cat"}
      BY <1>1, <2>3 DEF e
    <3> DEFINE b == Binary(s, e, "or")
    <3>2. /\ Len(b) = Len(s) + Len(e) + 1
          /\ Embedded(s, b, 0) /\ Embedded(e, b, Len(s)) /\ b[Len(b)].kind = "or"
          /\ m_left(b, Len(b)) = Len(s) /\ m_right(b, Len(b)) = Len(s) + Len(e)
      BY ONLY <3>1, BinaryShape
    <3> QED BY <3>2 DEF Or
  <2>6. Len(s) + Len(e) = EndedRoot(regexes, tree, k)
    BY <1>1, <2>3, <2>4
  <2>7. Len(tree[k]) = EndedRoot(regexes, tree, k) + 1
    BY <2>2, <2>5, <2>6
  <2> QED BY <1>1, <1>2, <1>4, <2>1, <2>2, <2>3, <2>4, <2>5, <2>6, <2>7 DEF e, s
<1> QED BY <1>3, <1>4

LEMMA EmbeddedIn ==
    ASSUME NEW s, NEW t, NEW u, NEW o \in Nat, NEW q \in Nat, Len(s) \in Nat, Len(t) \in Nat,
           Embedded(s, t, o), Embedded(t, u, q), o + Len(s) <= Len(t)
    PROVE  Embedded(s, u, q + o)
<1> SUFFICES ASSUME NEW i \in 1 .. Len(s) PROVE u[(q + o) + i] = s[i]
  BY DEF Embedded
<1>1. o + i \in 1 .. Len(t) /\ (q + o) + i = q + (o + i)
  OBVIOUS
<1> QED BY <1>1 DEF Embedded

\* The tree after the expression k is the beginning of that after a later one m.
LEMMA EarlierTrees ==
    ASSUME NEW regexes, NEW chars, IsList(regexes, chars), NEW tree, GrowsTo(regexes, tree),
           NEW k \in 1 .. Len(regexes)
    PROVE  \A m \in k .. Len(regexes) : Embedded(tree[k], tree[m], 0) /\ Len(tree[k]) <= Len(tree[m])
<1> DEFINE K == Len(regexes)
           Holds(m) == Embedded(tree[k], tree[m], 0) /\ Len(tree[k]) <= Len(tree[m])
           N == { n \in Nat : k + n \in k .. K => Holds(k + n) }
<1>1. K \in Nat
  BY DEF IsList
<1>2. 0 \in N
  <2>1. k + 0 = k /\ Len(tree[k]) \in Nat
    BY TreeGrows
  <2>2. Embedded(tree[k], tree[k], 0)
    BY <2>1 DEF Embedded
  <2> QED BY <2>1, <2>2
<1>3. ASSUME NEW n \in Nat, n \in N
      PROVE  n + 1 \in N
  <2> SUFFICES ASSUME k + (n + 1) \in k .. K PROVE Holds(k + (n + 1))
    OBVIOUS
  <2> DEFINE m == k + (n + 1)
  <2>1. /\ m \in 1 .. K /\ m > 1 /\ m # 1 /\ m - 1 = k + n
        /\ k + n \in k .. K /\ k + n \in 1 .. K /\ m - 1 \in 1 .. K
    BY <1>1
  <2>2. Embedded(tree[k], tree[m - 1], 0) /\ Len(tree[k]) <= Len(tree[m - 1])
    BY <1>3, <2>1
  <2> HIDE DEF m
  <2>3. /\ Len(tree[m]) \in Nat /\ Len(tree[m - 1]) \in Nat /\ Len(tree[k]) \in Nat
        /\ Len(Ended(regexes[m])) = Len(regexes[m]) + 2 /\ Len(regexes[m]) \in Nat
    <3>1. Len(tree[m]) \in Nat /\ Len(Ended(regexes[m])) = Len(regexes[m]) + 2
      BY <2>1, TreeGrows
    <3>2. Len(tree[m - 1]) \in Nat /\ Len(tree[k]) \in Nat
      BY <2>1, TreeGrows
    <3>3. Len(regexes[m]) \in Nat
      BY <2>1, EndedShape DEF IsList
    <3> QED BY <3>1, <3>2, <3>3
  <2>4. Embedded(tree[m - 1], tree[m], 0) /\ Len(tree[m]) = EndedRoot(regexes, tree, m) + 1
    BY <2>1, TreeGrows
  <2>5. EndedRoot(regexes, tree, m) = Len(tree[m - 1]) + Len(regexes[m]) + 2
    <3>1. Start(tree, m) = Len(tree[m - 1])
      BY <2>1 DEF Start
    <3> QED BY <3>1 DEF EndedRoot
  <2>6. Len(tree[m - 1]) <= Len(tree[m])
    <3>1. Len(tree[m]) = Len(tree[m - 1]) + Len(regexes[m]) + 2 + 1
      BY <2>4, <2>5
    <3> DEFINE before == Len(tree[m - 1])
               added  == Len(regexes[m])
    <3>2. before \in Nat /\ added \in Nat /\ Len(tree[m]) = before + added + 2 + 1
      BY <2>3, <3>1
    <3> HIDE DEF before, added
    <3>3. before <= Len(tree[m])
      BY <3>2
    <3> QED BY <3>3 DEF before
  <2>7. Embedded(tree[k], tree[m], 0)
    <3>1. 0 + Len(tree[k]) <= Len(tree[m - 1]) /\ 0 + 0 = 0 /\ 0 \in Nat
      BY <2>2, <2>3
    <3>2. Embedded(tree[k], tree[m], 0 + 0)
      BY ONLY <2>2, <2>3, <2>4, <3>1, EmbeddedIn
    <3> QED BY <3>1, <3>2
  <2>8. Holds(m)
    BY <2>2, <2>3, <2>6, <2>7
  <2> QED BY <2>8 DEF m
<1> HIDE DEF N
<1>4. \A n \in Nat : n \in N
  BY <1>2, <1>3, Induction
<1>5. ASSUME NEW m \in k .. K
      PROVE  Holds(m)
  <2>1. m - k \in Nat /\ k + (m - k) = m
    BY <1>1
  <2> HIDE DEF Holds
  <2>2. m - k \in N
    BY <1>4, <2>1
  <2> QED BY <2>1, <2>2 DEF N
<1> QED BY <1>5

LEMMA EmbeddedPlace ==
    ASSUME NEW s, NEW t, NEW o \in Nat, Embedded(s, t, o), NEW i \in 1 .. Len(s)
    PROVE  t[o + i] = s[i]
BY DEF Embedded

\* Where the expression k is in the tree of the whole list, and how the nodes
\* above it join it to the others.
LEMMA PlacesOfList ==
    ASSUME NEW regexes, NEW chars, IsList(regexes, chars), NEW tree, GrowsTo(regexes, tree),
           NEW k \in 1 .. Len(regexes)
    PROVE  LET t    == parse_regexes(regexes)
               o    == Start(tree, k)
               root == RegexRoot(regexes, tree, k)
               cat  == EndedRoot(regexes, tree, k)
               last == Len(tree[k])
           IN  /\ IsTree(t, chars) /\ o \in Nat /\ Embedded(regexes[k], t, o)
               /\ o + Len(regexes[k]) = root /\ Len(regexes[k]) \in Nat \ {0}
               /\ root \in 1 .. Len(t) /\ root + 1 \in 1 .. Len(t) /\ cat \in 1 .. Len(t)
               /\ cat = root + 2 /\ last \in 1 .. Len(t) /\ last <= Len(t)
               /\ t[root + 1].kind = "eof" /\ t[cat].kind = "cat" /\ t[cat].size = cat - o
               /\ m_left(t, cat) = root /\ m_right(t, cat) = root + 1
               /\ last = IF k = 1 THEN cat ELSE cat + 1
               /\ k > 1 => /\ t[last].kind = "or"
                           /\ m_left(t, last) = Len(tree[k - 1]) /\ m_right(t, last) = cat
<1> DEFINE K == Len(regexes)
           t == parse_regexes(regexes)
           e == Ended(regexes[k])
           s == tree[k]
           n == Len(regexes[k])
           o == Start(tree, k)
           root == RegexRoot(regexes, tree, k)
           cat  == EndedRoot(regexes, tree, k)
           last == Len(s)
<1>1. K \in 1 .. K /\ K \in k .. K /\ t = tree[K]
  BY DEF IsList, GrowsTo
<1>2. IsTree(t, chars) /\ Len(t) \in Nat
  BY <1>1, TreeGrows
<1>3. Embedded(s, t, 0) /\ last <= Len(t)
  BY <1>1, EarlierTrees
<1>4. /\ IsTree(s, chars) /\ last \in Nat /\ o \in Nat
      /\ Embedded(e, s, o) /\ Len(e) = n + 2
      /\ last = IF k = 1 THEN cat ELSE cat + 1
      /\ k > 1 => /\ s[last].kind = "or"
                  /\ m_left(s, last) = Len(tree[k - 1]) /\ m_right(s, last) = cat
  BY TreeGrows
<1>5. /\ n \in Nat \ {0} /\ IsTree(e, chars) /\ Embedded(regexes[k], e, 0)
      /\ e[n + 1].kind = "eof" /\ e[n + 2].kind = "cat"
      /\ m_left(e, n + 2) = n /\ m_right(e, n + 2) = n + 1
  <2>1. IsExpression(regexes[k], chars)
    BY DEF IsList
  <2> QED BY <2>1, EndedShape
<1>6. root = o + n /\ cat = o + n + 2
  BY DEF RegexRoot, EndedRoot
<1> HIDE DEF K, t, e, s, n, o, root, cat, last
<1>7. o + (n + 2) <= last
  BY <1>4, <1>5, <1>6
<1>8. Embedded(e, t, o)
  <2>1. 0 \in Nat /\ 0 + o = o /\ Len(e) \in Nat /\ Len(s) \in Nat /\ o + Len(e) <= Len(s)
    BY <1>4, <1>5, <1>7 DEF last
  <2>2. Embedded(e, t, 0 + o)
    BY ONLY <1>3, <1>4, <2>1, EmbeddedIn
  <2> QED BY <2>1, <2>2
<1>9. Embedded(regexes[k], t, o)
  <2>1. 0 \in Nat /\ o + 0 = o /\ Len(e) \in Nat /\ 0 + Len(regexes[k]) <= Len(e)
        /\ Len(regexes[k]) \in Nat
    BY <1>4, <1>5 DEF n
  <2>2. Embedded(regexes[k], t, o + 0)
    BY ONLY <1>4, <1>5, <1>8, <2>1, EmbeddedIn
  <2> QED BY <2>1, <2>2
<1>10. /\ root \in 1 .. Len(t) /\ root + 1 \in 1 .. Len(t) /\ cat \in 1 .. Len(t)
       /\ cat = root + 2 /\ last \in 1 .. Len(t) /\ root + 1 = o + (n + 1) /\ cat = o + (n + 2)
  BY <1>2, <1>3, <1>4, <1>5, <1>6, <1>7
<1>11. t[root + 1].kind = "eof"
  <2>1. n + 1 \in 1 .. Len(e)
    BY <1>4, <1>5
  <2>2. t[o + (n + 1)] = e[n + 1]
    BY <1>4, <1>8, <2>1, EmbeddedPlace
  <2> QED BY <1>5, <1>10, <2>2
<1>12. /\ t[cat].kind = "cat" /\ t[cat].size = cat - o
       /\ m_left(t, cat) = root /\ m_right(t, cat) = root + 1
  <2>1. n + 2 \in 1 .. Len(e) /\ IsForest(e, chars)
    BY <1>4, <1>5 DEF IsTree
  <2>2. /\ t[o + (n + 2)] = e[n + 2]
        /\ ~Leaf(e[n + 2]) => /\ m_left(t, o + (n + 2)) = o + m_left(e, n + 2)
                             /\ m_right(t, o + (n + 2)) = o + m_right(e, n + 2)
    <3> DEFINE i == n + 2
    <3>1. i \in 1 .. Len(e)
      BY <2>1
    <3> HIDE DEF i
    <3>2. /\ t[o + i] = e[i]
          /\ ~Leaf(e[i]) => m_left(t, o + i) = o + m_left(e, i) /\ m_right(t, o + i) = o + m_right(e, i)
      BY ONLY <1>4, <1>8, <2>1, <3>1, EmbeddedShape
    <3> QED BY <3>2 DEF i
  <2>3. ~Leaf(e[n + 2])
    BY <1>5 DEF Leaf
  <2>4. e[n + 2].size = n + 2
    BY <1>4, <1>5 DEF IsTree
  <2> QED BY <1>4, <1>5, <1>6, <1>10, <2>2, <2>3, <2>4
<1>13. ASSUME k > 1
       PROVE  /\ t[last].kind = "or"
              /\ m_left(t, last) = Len(tree[k - 1]) /\ m_right(t, last) = cat
  <2>1. last \in 1 .. Len(s) /\ 0 + last = last /\ IsForest(s, chars) /\ 0 \in Nat
    BY <1>4, <1>10 DEF IsTree, last
  <2>2. ~Leaf(s[last])
    BY <1>4, <1>13 DEF Leaf
  <2>3. /\ t[0 + last] = s[last]
        /\ m_left(t, 0 + last) = 0 + m_left(s, last)
        /\ m_right(t, 0 + last) = 0 + m_right(s, last)
    BY <1>3, <2>1, <2>2, EmbeddedShape
  <2>4. m_left(s, last) \in Nat /\ m_right(s, last) \in Nat
    <3>1. m_left(s, last) \in 0 .. last - 1 /\ m_right(s, last) \in 0 .. last - 1
      BY <2>1, ForestShape
    <3> QED BY <1>4, <3>1
  <2>5. t[last] = s[last] /\ m_left(t, last) = m_left(s, last) /\ m_right(t, last) = m_right(s, last)
    BY <2>1, <2>3, <2>4
  <2> QED BY <1>4, <1>13, <2>5
<1> QED BY <1>2, <1>3, <1>4, <1>5, <1>6, <1>9, <1>10, <1>11, <1>12, <1>13 DEF t, s, n, o, root, cat, last

(***************************************************************************)
(* The positions P of an expression and those of it with its end e, as     *)
(* what reads them, A and C, sees them.                                    *)
(***************************************************************************)
WithEnd(A, C, e, P, Q) ==
    /\ C.first = A.first \cup (IF A.nullable THEN {e} ELSE {})
    /\ C.follow = (A.last \X {e}) \cup A.follow
    /\ C.match = A.match
    /\ IsPart(A, P) /\ IsPart(C, Q)
    /\ P \subseteq Q /\ e \in Q /\ e \notin P

LEMMA CatWithEof ==
    ASSUME NEW A, NEW C, NEW E, NEW e, JoinsCat(C, A, E), ~E.nullable, E.first = {e},
           E.follow = {}, E.match = {}
    PROVE  /\ C.first = A.first \cup (IF A.nullable THEN {e} ELSE {})
           /\ C.follow = (A.last \X {e}) \cup A.follow /\ C.match = A.match
BY DEF JoinsCat

\* A language that is read.
ReadsLanguage(A, regex) ==
    \A word : Len(word) \in Nat => Agree(A, word, Spans(regex, word)[Len(regex)])

LEMMA PartsOfList ==
    ASSUME NEW regexes, NEW chars, IsList(regexes, chars), NEW tree, GrowsTo(regexes, tree),
           NEW k \in 1 .. Len(regexes)
    PROVE  LET t    == parse_regexes(regexes)
               at   == Attributes(t, chars)
               root == RegexRoot(regexes, tree, k)
               cat  == EndedRoot(regexes, tree, k)
               e    == m_node_num(t, root + 1)
           IN  /\ WithEnd(at[root], at[cat], e, NumbersOf(t, root), NumbersOf(t, cat))
               /\ at[cat].eof = {e}
               /\ ReadsLanguage(at[root], regexes[k])
<1> DEFINE t    == parse_regexes(regexes)
           at   == Attributes(t, chars)
           s    == regexes[k]
           o    == Start(tree, k)
           root == RegexRoot(regexes, tree, k)
           cat  == EndedRoot(regexes, tree, k)
           eof  == root + 1
           e    == m_node_num(t, eof)
           A    == at[root]
           C    == at[cat]
           E    == at[eof]
<1>1. /\ IsForest(t, chars) /\ o \in Nat /\ Embedded(s, t, o)
      /\ o + Len(s) = root /\ Len(s) \in Nat \ {0}
      /\ root \in 1 .. Len(t) /\ eof \in 1 .. Len(t) /\ cat \in 1 .. Len(t)
      /\ t[eof].kind = "eof" /\ t[cat].kind = "cat"
      /\ m_left(t, cat) = root /\ m_right(t, cat) = eof
  BY PlacesOfList DEF IsTree
<1>2. IsExpression(s, chars) /\ IsForest(s, chars)
  <2>1. IsExpression(s, chars)
    BY DEF IsList
  <2> QED BY <2>1 DEF IsExpression, IsTree
<1> HIDE DEF t, s, o, root, cat, eof
<1>3. C = AttributesAt(t[cat], m_node_num(t, cat), chars, A, E)
  BY <1>1, AttributesRecursion
<1>4. E = AttributesAt(t[eof], e, chars, at[m_left(t, eof)], at[m_right(t, eof)])
  BY <1>1, AttributesRecursion
<1>5. /\ IsPart(A, NumbersOf(t, root)) /\ IsPart(C, NumbersOf(t, cat))
  BY <1>1, PartsOfTree
<1>6. /\ NumbersOf(t, root) \subseteq NumbersOf(t, cat) /\ e \in NumbersOf(t, cat)
      /\ e \notin NumbersOf(t, root)
  <2>1. /\ NumbersOf(t, root) \subseteq NumbersOf(t, cat) /\ NumbersOf(t, eof) \subseteq NumbersOf(t, cat)
        /\ NumbersOf(t, root) \cap NumbersOf(t, eof) = {}
    <3>1. IsBinary(t[cat])
      BY <1>1 DEF IsBinary
    <3> QED BY <1>1, <3>1, NumbersOfOperands
  <2>2. NumbersOf(t, eof) = {e}
    <3>1. Leaf(t[eof])
      BY <1>1 DEF Leaf
    <3> QED BY <1>1, <3>1, NumbersOfOperands
  <2> QED BY <2>1, <2>2
<1>7. A.eof = {}
  <2>1. Len(s) \in 1 .. Len(s) /\ o + Len(s) <= Len(t)
    BY <1>1
  <2>2. \A i \in 1 .. Len(s) : at[o + i].eof = {}
    BY <1>1, <1>2, <2>1, EmbeddedWithoutEof
  <2>3. at[o + Len(s)].eof = {}
    BY <2>1, <2>2
  <2> QED BY <1>1, <2>3
<1>8. ASSUME NEW word, Len(word) \in Nat
      PROVE  Agree(A, word, Spans(s, word)[Len(s)])
  <2>1. Len(s) \in 1 .. Len(s) /\ o + Len(s) <= Len(t)
    BY <1>1
  <2>2. \A i \in 1 .. Len(s) : Spans(t, word)[o + i] = Spans(s, word)[i]
    BY <1>1, <1>2, <1>8, <2>1, EmbeddedSpans
  <2>3. Spans(t, word)[root] = Spans(s, word)[Len(s)]
    <3>1. Spans(t, word)[o + Len(s)] = Spans(s, word)[Len(s)]
      BY <2>1, <2>2
    <3> QED BY <1>1, <3>1
  <2>4. Agree(A, word, Spans(t, word)[root])
    BY <1>1, <1>8, TreeAgrees
  <2> QED BY <2>3, <2>4
<1> HIDE DEF at, e
<1> HIDE DEF A, C, E
<1>9. /\ ~E.nullable /\ E.first = {e} /\ E.follow = {} /\ E.match = {} /\ E.eof = {e}
  BY <1>1, <1>4, NodeAttributes
<1>10. JoinsCat(C, A, E) /\ C.eof = A.eof \cup E.eof
  BY <1>1, <1>3, NodeAttributes
<1>11. WithEnd(A, C, e, NumbersOf(t, root), NumbersOf(t, cat))
  <2>1. /\ C.first = A.first \cup (IF A.nullable THEN {e} ELSE {})
        /\ C.follow = (A.last \X {e}) \cup A.follow /\ C.match = A.match
    BY ONLY <1>9, <1>10, CatWithEof
  <2> QED BY ONLY <1>5, <1>6, <2>1, Zenon DEF WithEnd
<1>12. C.eof = {e}
  BY <1>7, <1>9, <1>10
<1>13. ReadsLanguage(A, s)
  BY <1>8 DEF ReadsLanguage
<1> QED BY <1>11, <1>12, <1>13 DEF at, e, A, C, t, s, root, cat, eof

\* The numbers ascend from one expression of the list to the next.
LEMMA NumbersOfList ==
    ASSUME NEW regexes, NEW chars, IsList(regexes, chars), NEW tree, GrowsTo(regexes, tree),
           NEW k \in 1 .. Len(regexes), NEW m \in 1 .. Len(regexes), k < m
    PROVE  LET t == parse_regexes(regexes)
           IN  \A q \in NumbersOf(t, EndedRoot(regexes, tree, k)),
                  r \in NumbersOf(t, EndedRoot(regexes, tree, m)) : q < r
<1> DEFINE t == parse_regexes(regexes)
           cat(i) == EndedRoot(regexes, tree, i)
           o(i) == Start(tree, i)
<1>1. ASSUME NEW i \in 1 .. Len(regexes)
      PROVE  /\ o(i) \in Nat /\ cat(i) \in Nat /\ Len(tree[i]) \in Nat
             /\ t[cat(i)].size = cat(i) - o(i) /\ cat(i) <= Len(tree[i])
  <2>1. /\ IsTree(t, chars) /\ o(i) \in Nat /\ cat(i) \in 1 .. Len(t) /\ Len(tree[i]) \in 1 .. Len(t)
        /\ t[cat(i)].size = cat(i) - o(i)
        /\ Len(tree[i]) = IF i = 1 THEN cat(i) ELSE cat(i) + 1
    BY PlacesOfList
  <2> QED BY <2>1
<1>2. m - 1 \in k .. Len(regexes) /\ m - 1 \in 1 .. Len(regexes) /\ m # 1
  BY DEF IsList
<1>3. Len(tree[k]) <= Len(tree[m - 1])
  BY <1>2, EarlierTrees
<1>4. o(m) = Len(tree[m - 1])
  BY <1>2 DEF Start
<1>5. cat(k) <= o(m)
  <2>1. cat(k) \in Nat /\ Len(tree[k]) \in Nat /\ o(m) \in Nat /\ cat(k) <= Len(tree[k])
    BY <1>1
  <2> QED BY <1>3, <1>4, <2>1
<1>6. ASSUME NEW i \in 1 .. Len(regexes)
      PROVE  LeavesOf(t, cat(i)) = { n \in o(i) + 1 .. cat(i) : Leaf(t[n]) }
  <2>1. cat(i) - t[cat(i)].size + 1 = o(i) + 1
    BY <1>1
  <2> QED BY <2>1 DEF LeavesOf
<1> HIDE DEF t, cat, o
<1> SUFFICES ASSUME NEW x \in LeavesOf(t, cat(k)), NEW y \in LeavesOf(t, cat(m))
             PROVE  m_node_num(t, x) < m_node_num(t, y)
  BY DEF NumbersOf, t, cat
<1>7. y \in Nat /\ x \in 1 .. y - 1 /\ Leaf(t[x])
  <2>1. /\ x \in o(k) + 1 .. cat(k) /\ y \in o(m) + 1 .. cat(m) /\ Leaf(t[x])
    BY <1>6
  <2>2. o(k) \in Nat /\ cat(k) \in Nat /\ o(m) \in Nat /\ cat(m) \in Nat
    BY <1>1
  <2> QED BY <1>5, <2>1, <2>2
<1> QED BY <1>7, NumbersAscend

\* The tree after the expression k has what the expressions up to k have.
Unites(U, C, k) ==
    /\ \A x : x \in U.first <=> \E i \in 1 .. k : x \in C[i].first
    /\ \A x : x \in U.follow <=> \E i \in 1 .. k : x \in C[i].follow
    /\ \A x : x \in U.match <=> \E i \in 1 .. k : x \in C[i].match
    /\ \A x : x \in U.eof <=> \E i \in 1 .. k : x \in C[i].eof

LEMMA UnitesOne ==
    ASSUME NEW U, NEW C, U = C[1]
    PROVE  Unites(U, C, 1)
BY DEF Unites

LEMMA UnitesOneMore ==
    ASSUME NEW U, NEW V, NEW C, NEW k \in Nat, k > 1, Unites(U, C, k - 1), JoinsOr(V, U, C[k]),
           V.eof = U.eof \cup C[k].eof
    PROVE  Unites(V, C, k)
<1>1. \A i : i \in 1 .. k <=> i \in 1 .. k - 1 \/ i = k
  OBVIOUS
<1>2. /\ V.first = U.first \cup C[k].first /\ V.follow = U.follow \cup C[k].follow
      /\ V.match = U.match \cup C[k].match /\ V.eof = U.eof \cup C[k].eof
  BY DEF JoinsOr
<1>3. \A x : x \in V.first <=> \E i \in 1 .. k : x \in C[i].first
  BY <1>1, <1>2 DEF Unites
<1>4. \A x : x \in V.follow <=> \E i \in 1 .. k : x \in C[i].follow
  BY <1>1, <1>2 DEF Unites
<1>5. \A x : x \in V.match <=> \E i \in 1 .. k : x \in C[i].match
  BY <1>1, <1>2 DEF Unites
<1>6. \A x : x \in V.eof <=> \E i \in 1 .. k : x \in C[i].eof
  BY <1>1, <1>2 DEF Unites
<1> QED BY <1>3, <1>4, <1>5, <1>6 DEF Unites

LEMMA ListUnites ==
    ASSUME NEW regexes, NEW chars, IsList(regexes, chars), NEW tree, GrowsTo(regexes, tree), NEW C,
           \A k \in 1 .. Len(regexes) :
               C[k] = Attributes(parse_regexes(regexes), chars)[EndedRoot(regexes, tree, k)]
    PROVE  Unites(Positions(regexes, chars), C, Len(regexes))
<1> DEFINE t == parse_regexes(regexes)
           at == Attributes(t, chars)
           K == Len(regexes)
           U(k) == at[Len(tree[k])]
           N == { n \in Nat : n + 1 \in 1 .. K => Unites(U(n + 1), C, n + 1) }
<1>1. K \in Nat /\ K >= 1
  BY DEF IsList
<1>2. 0 \in N
  <2> SUFFICES 1 \in 1 .. K => Unites(U(1), C, 1)
    OBVIOUS
  <2>1. 1 \in 1 .. K
    BY <1>1
  <2>2. Len(tree[1]) = EndedRoot(regexes, tree, 1)
    BY <2>1, PlacesOfList
  <2>3. U(1) = C[1]
    BY <2>1, <2>2
  <2> HIDE DEF U
  <2> QED BY <2>3, UnitesOne
<1>3. ASSUME NEW n \in Nat, n \in N
      PROVE  n + 1 \in N
  <2> DEFINE k == (n + 1) + 1
  <2> SUFFICES ASSUME k \in 1 .. K PROVE Unites(U(k), C, k)
    OBVIOUS
  <2>1. n + 1 \in 1 .. K /\ k \in 1 .. K /\ k - 1 = n + 1 /\ k > 1 /\ k \in Nat /\ k # 1
    BY <1>1
  <2>2. Unites(U(k - 1), C, k - 1)
    BY <1>3, <2>1
  <2> HIDE DEF k
  <2>3. /\ IsTree(t, chars) /\ Len(tree[k]) \in 1 .. Len(t) /\ t[Len(tree[k])].kind = "or"
        /\ m_left(t, Len(tree[k])) = Len(tree[k - 1])
        /\ m_right(t, Len(tree[k])) = EndedRoot(regexes, tree, k)
    BY <2>1, PlacesOfList
  <2>4. U(k) = AttributesAt(t[Len(tree[k])], m_node_num(t, Len(tree[k])), chars, U(k - 1), C[k])
    <3>1. IsForest(t, chars)
      BY <2>3 DEF IsTree
    <3>2. U(k) = AttributesAt(t[Len(tree[k])], m_node_num(t, Len(tree[k])), chars,
                              at[m_left(t, Len(tree[k]))], at[m_right(t, Len(tree[k]))])
      BY <2>3, <3>1, AttributesRecursion
    <3> QED BY <2>1, <2>3, <3>2
  <2> DEFINE V == U(k)
             W == U(k - 1)
             node == t[Len(tree[k])]
             num == m_node_num(t, Len(tree[k]))
  <2> HIDE DEF U
  <2>5. V = AttributesAt(node, num, chars, W, C[k]) /\ node.kind = "or" /\ Unites(W, C, k - 1)
    BY <2>2, <2>3, <2>4
  <2> HIDE DEF V, W, node, num
  <2>6. JoinsOr(V, W, C[k]) /\ V.eof = W.eof \cup C[k].eof
    BY ONLY <2>5, NodeAttributes
  <2>7. Unites(V, C, k)
    BY ONLY <2>1, <2>5, <2>6, UnitesOneMore
  <2> QED BY <2>7 DEF V
<1> HIDE DEF N
<1>4. \A n \in Nat : n \in N
  BY <1>2, <1>3, Induction
<1>5. K - 1 \in Nat /\ (K - 1) + 1 = K /\ K \in 1 .. K
  BY <1>1
<1>6. Unites(U(K), C, K)
  <2> HIDE DEF U
  <2>1. K - 1 \in N
    BY <1>4, <1>5
  <2> QED BY <1>5, <2>1 DEF N
<1>7. U(K) = Positions(regexes, chars)
  BY DEF Positions, GrowsTo
<1> QED BY <1>6, <1>7

(***************************************************************************)
(* What the automaton of a list is composed of.                            *)
(***************************************************************************)
Composed(p, K, A, C, e, P, Q) ==
    /\ \A x : x \in p.first <=> \E k \in 1 .. K : x \in C[k].first
    /\ \A x : x \in p.follow <=> \E k \in 1 .. K : x \in C[k].follow
    /\ \A x : x \in p.match <=> \E k \in 1 .. K : x \in C[k].match
    /\ \A x : x \in p.eof <=> \E k \in 1 .. K : x = e[k]
    /\ \A k \in 1 .. K : WithEnd(A[k], C[k], e[k], P[k], Q[k])
    /\ \A k, m \in 1 .. K : k < m => \A q \in Q[k], r \in Q[m] : q < r

ReadsList(p, regexes) ==
    \E A, C, e, P, Q :
        /\ Composed(p, Len(regexes), A, C, e, P, Q)
        /\ \A k \in 1 .. Len(regexes) : ReadsLanguage(A[k], regexes[k])

\* parse_regexes keeps the expressions apart, and each reads its language.
LEMMA ListComposed ==
    ASSUME NEW regexes, NEW chars, IsList(regexes, chars)
    PROVE  ReadsList(Positions(regexes, chars), regexes)
<1>1. PICK tree : GrowsTo(regexes, tree)
  BY ParseRegexesRecursion
<1> DEFINE p == Positions(regexes, chars)
           t == parse_regexes(regexes)
           at == Attributes(t, chars)
           K == Len(regexes)
           root(k) == RegexRoot(regexes, tree, k)
           cat(k) == EndedRoot(regexes, tree, k)
           A == [k \in 1 .. K |-> at[root(k)]]
           C == [k \in 1 .. K |-> at[cat(k)]]
           e == [k \in 1 .. K |-> m_node_num(t, root(k) + 1)]
           P == [k \in 1 .. K |-> NumbersOf(t, root(k))]
           Q == [k \in 1 .. K |-> NumbersOf(t, cat(k))]
<1>2. ASSUME NEW k \in 1 .. K
      PROVE  /\ A[k] = at[root(k)] /\ C[k] = at[cat(k)] /\ e[k] = m_node_num(t, root(k) + 1)
             /\ P[k] = NumbersOf(t, root(k)) /\ Q[k] = NumbersOf(t, cat(k))
  OBVIOUS
<1> HIDE DEF A, C, e, P, Q
<1>3. ASSUME NEW k \in 1 .. K
      PROVE  WithEnd(A[k], C[k], e[k], P[k], Q[k]) /\ C[k].eof = {e[k]} /\ ReadsLanguage(A[k], regexes[k])
  BY <1>1, <1>2, PartsOfList
<1>4. Unites(p, C, K)
  BY <1>1, <1>2, ListUnites
<1>5. ASSUME NEW k \in 1 .. K, NEW m \in 1 .. K, k < m
      PROVE  \A q \in Q[k], r \in Q[m] : q < r
  <2>1. \A q \in NumbersOf(t, cat(k)), r \in NumbersOf(t, cat(m)) : q < r
    BY <1>1, <1>5, NumbersOfList
  <2> QED BY <1>2, <2>1
<1> HIDE DEF p, K
<1>6. Composed(p, K, A, C, e, P, Q)
  <2>1. \A x : x \in p.eof <=> \E k \in 1 .. K : x = e[k]
    BY <1>3, <1>4 DEF Unites
  <2> QED BY <1>3, <1>4, <1>5, <2>1 DEF Composed, Unites
<1>7. ReadsList(p, regexes)
  BY <1>3, <1>6 DEF ReadsList, K
<1> QED BY <1>7 DEF p

-----------------------------------------------------------------------------
(***************************************************************************)
(* The types that the steps rely on; the state in progress is marked.      *)
(***************************************************************************)
VectorTypes ==
    /\ nfa \in Automata
    /\ dstates \in Seq(SUBSET Nat)
    /\ marked \in Seq(BOOLEAN)
    /\ transition_table \in Seq([Alphabet -> Int])
    /\ acceptance_index \in Seq(Int)
    /\ T \in {invalid_node} \cup 0 .. Len(dstates) - 1
    /\ j \in 0 .. Chars

InProgressMarked == T # invalid_node => marked[Index(T)]

SubsetInv == VectorTypes /\ TablesAligned /\ InProgressMarked /\ TableExact

\* What a pass of the inner loop looks at.
U == Followers(T, j)

-----------------------------------------------------------------------------
LEMMA AutomatonTypes ==
    ASSUME nfa \in Automata
    PROVE  /\ nfa.first \subseteq Nat /\ nfa.follow \subseteq Nat \X Nat
           /\ nfa.eof \subseteq Nat /\ IsFiniteSet(nfa.eof)
BY AutomataAssumption

LEMMA EofIndexNat ==
    ASSUME nfa \in Automata, NEW id
    PROVE  EofIndex(id) \in Nat
<1>1. IsFiniteSet({ e \in nfa.eof : e < id })
  BY AutomatonTypes, FS_Subset
<1> QED BY <1>1, FS_CardinalityType DEF EofIndex

LEMMA AcceptanceIndexInt ==
    ASSUME nfa \in Automata, NEW S
    PROVE  AcceptanceIndex(S) \in Int
BY EofIndexNat DEF AcceptanceIndex, invalid_node

LEMMA FollowersAreNext ==
    ASSUME VectorTypes, T # invalid_node
    PROVE  U = NextOf(dstates[Index(T)], j) /\ U \in SUBSET Nat
<1>1. nfa.follow \subseteq Nat \X Nat
  BY AutomatonTypes DEF VectorTypes
<1> DEFINE S == dstates[Index(T)]
<1>2. \A f \in nfa.follow : f[1] \in Nat /\ f[2] \in Nat /\ f = <<f[1], f[2]>>
  BY <1>1
<1>3. \A q : q \in U <=> \E f \in nfa.follow : f[1] \in S /\ <<f[1], j>> \in nfa.match /\ q = f[2]
  BY DEF U, Followers
<1>4. \A q : q \in NextOf(S, j) <=>
        /\ \E f \in nfa.follow : q = f[2]
        /\ \E p \in S : <<p, j>> \in nfa.match /\ <<p, q>> \in nfa.follow
  BY DEF NextOf
<1>5. \A q : q \in U => q \in NextOf(S, j)
  <2> SUFFICES ASSUME NEW q, q \in U PROVE q \in NextOf(S, j)
    OBVIOUS
  <2> PICK f \in nfa.follow : f[1] \in S /\ <<f[1], j>> \in nfa.match /\ q = f[2]
    BY <1>3
  <2>1. <<f[1], q>> \in nfa.follow
    BY <1>2
  <2> QED BY <1>4, <2>1
<1>6. \A q : q \in NextOf(S, j) => q \in U
  <2> SUFFICES ASSUME NEW q, q \in NextOf(S, j) PROVE q \in U
    OBVIOUS
  <2> PICK p \in S : <<p, j>> \in nfa.match /\ <<p, q>> \in nfa.follow
    BY <1>4
  <2>1. <<p, q>>[1] = p /\ <<p, q>>[2] = q
    OBVIOUS
  <2> QED BY <1>3, <2>1
<1>7. U \subseteq Nat
  BY <1>2, <1>3
<1>8. U = NextOf(S, j)
  BY <1>5, <1>6
<1> QED BY <1>7, <1>8

LEMMA InitSubsetInv == SubsetInit => SubsetInv
<1> SUFFICES ASSUME SubsetInit PROVE SubsetInv
  OBVIOUS
<1>1. nfa.first \in SUBSET Nat /\ AcceptanceIndex(nfa.first) \in Int
  BY AutomatonTypes, AcceptanceIndexInt DEF SubsetInit
<1>2. EmptyRow \in [Alphabet -> {invalid_node}]
  BY DEF EmptyRow
<1>3. VectorTypes
  <2>1. EmptyRow \in [Alphabet -> Int]
    BY <1>2 DEF invalid_node
  <2>2. /\ <<nfa.first>> \in Seq(SUBSET Nat) /\ <<FALSE>> \in Seq(BOOLEAN)
        /\ <<EmptyRow>> \in Seq([Alphabet -> Int])
        /\ <<AcceptanceIndex(nfa.first)>> \in Seq(Int)
    BY <1>1, <2>1
  <2> QED BY <2>2, CharsAssumption DEF SubsetInit, VectorTypes
<1>4. TablesAligned
  BY <1>2 DEF SubsetInit, TablesAligned
<1>5. InProgressMarked
  BY DEF SubsetInit, InProgressMarked
<1>6. TableExact
  <2>1. Len(dstates) = 1 /\ Len(marked) = 1 /\ ~marked[1] /\ transition_table[1] = EmptyRow
    BY DEF SubsetInit
  <2>2. DOMAIN dstates = 1 .. 1
    BY <2>1, <1>3, LenProperties DEF VectorTypes
  <2>3. \A n \in DOMAIN dstates, c \in Alphabet :
          ~Passed(n, c) /\ transition_table[n][c] = invalid_node
    BY <2>1, <2>2 DEF Passed, EmptyRow
  <2> QED BY <2>2, <2>3 DEF TableExact
<1> QED BY <1>3, <1>4, <1>5, <1>6 DEF SubsetInv

LEMMA MarkKeepsInv ==
    ASSUME SubsetInv, Mark
    PROVE  SubsetInv'
<1> USE DEF SubsetInv
<1> PICK n \in Unmarked : marked' = [marked EXCEPT ![n] = TRUE] /\ T' = Number(n)
  BY DEF Mark
<1>1. /\ T = invalid_node /\ j' = 0
      /\ UNCHANGED <<nfa, dstates, transition_table, acceptance_index>>
  BY DEF Mark
<1>2. n \in 1 .. Len(dstates) /\ marked[n] = FALSE /\ Len(marked) = Len(dstates)
  <2>1. n \in DOMAIN marked /\ ~marked[n]
    BY DEF Unmarked
  <2>2. DOMAIN marked = 1 .. Len(marked) /\ \A k \in 1 .. Len(marked) : marked[k] \in BOOLEAN
    BY LenProperties, ElementOfSeq DEF VectorTypes
  <2> QED BY <2>1, <2>2 DEF TablesAligned
<1>3. marked' \in Seq(BOOLEAN) /\ Len(marked') = Len(marked)
      /\ marked'[n] /\ \A k \in 1 .. Len(marked) : k # n => marked'[k] = marked[k]
  <2>1. marked \in Seq(BOOLEAN) /\ n \in 1 .. Len(marked) /\ TRUE \in BOOLEAN
    BY <1>2 DEF VectorTypes
  <2>2. /\ [marked EXCEPT ![n] = TRUE] \in Seq(BOOLEAN)
        /\ Len([marked EXCEPT ![n] = TRUE]) = Len(marked)
    BY <2>1, ExceptSeq
  <2>3. DOMAIN marked = 1 .. Len(marked)
    BY <2>1, LenProperties
  <2> QED BY <2>1, <2>2, <2>3
<1>4. Len(dstates) \in Nat
  BY LenProperties DEF VectorTypes
<1>5. VectorTypes'
  BY <1>1, <1>2, <1>3, <1>4, CharsAssumption DEF VectorTypes, Number
<1>6. TablesAligned'
  BY <1>1, <1>3 DEF TablesAligned
<1>7. InProgressMarked'
  BY <1>2, <1>3 DEF InProgressMarked, Index, Number
<1>8. TableExact'
  <2>1. \A m, k \in DOMAIN dstates' : dstates'[m] = dstates'[k] => m = k
    BY <1>1 DEF TableExact
  <2>2. \A k \in 1 .. Len(dstates), c \in Alphabet : Passed(k, c)' <=> Passed(k, c)
    <3> SUFFICES ASSUME NEW k \in 1 .. Len(dstates), NEW c \in Alphabet
                 PROVE  Passed(k, c)' <=> Passed(k, c)
      OBVIOUS
    <3>1. Number(k) # T
      BY <1>1 DEF Number, invalid_node
    <3>2. CASE k = n
      <4>1. ~Passed(k, c)
        BY <1>2, <3>2 DEF Passed
      <4>2. Number(k) = T' /\ ~(c < j')
        BY <1>1, <3>2, CharsAssumption DEF Alphabet
      <4>3. ~Passed(k, c)'
        BY <4>2 DEF Passed
      <4> QED BY <4>1, <4>3
    <3>3. CASE k # n
      <4>1. Number(k) # T' /\ marked'[k] = marked[k]
        BY <1>2, <1>3, <3>3 DEF Number
      <4> QED BY <3>1, <4>1 DEF Passed
    <3> QED BY <3>2, <3>3
  <2>3. DOMAIN dstates = 1 .. Len(dstates)
    BY LenProperties DEF VectorTypes
  <2>4. \A k \in 1 .. Len(dstates), c \in Alphabet :
          /\ transition_table'[k][c] = transition_table[k][c]
          /\ NextOf(dstates[k], c)' = NextOf(dstates[k], c)
          /\ dstates'[Index(transition_table[k][c])] = dstates[Index(transition_table[k][c])]
    BY <1>1 DEF NextOf
  <2> QED BY <1>1, <2>1, <2>2, <2>3, <2>4 DEF TableExact
<1> QED BY <1>5, <1>6, <1>7, <1>8

LEMMA EndOfRowKeepsInv ==
    ASSUME SubsetInv, EndOfRow
    PROVE  SubsetInv'
<1> USE DEF SubsetInv
<1>1. /\ T # invalid_node /\ j = Chars /\ T' = invalid_node
      /\ UNCHANGED <<nfa, dstates, marked, transition_table, acceptance_index, j>>
  BY DEF EndOfRow
<1>2. DOMAIN dstates = 1 .. Len(dstates)
  BY LenProperties DEF VectorTypes
<1>3. \A k \in 1 .. Len(dstates), c \in Alphabet : Passed(k, c)' <=> Passed(k, c)
  <2>1. \A k \in 1 .. Len(dstates), c \in Alphabet : Number(k) # T' /\ c < j /\ c < j'
    BY <1>1, CharsAssumption DEF Number, invalid_node, Alphabet
  <2> QED BY <1>1, <2>1 DEF Passed
<1>4. VectorTypes' /\ TablesAligned' /\ InProgressMarked'
  BY <1>1 DEF VectorTypes, TablesAligned, InProgressMarked
<1>5. TableExact'
  <2>1. \A k \in 1 .. Len(dstates), c \in Alphabet :
          /\ transition_table'[k][c] = transition_table[k][c]
          /\ NextOf(dstates[k], c)' = NextOf(dstates[k], c)
          /\ dstates'[Index(transition_table[k][c])] = dstates[Index(transition_table[k][c])]
    BY <1>1 DEF NextOf
  <2> QED BY <1>1, <1>2, <1>3, <2>1 DEF TableExact
<1> QED BY <1>4, <1>5

(***************************************************************************)
(* What a pass of the inner loop does to the vectors, whether the set of   *)
(* followers is empty, known or new: at most one state is added, and at    *)
(* most the entry of the character is filled in.                           *)
(***************************************************************************)
GrowsByOne ==
    /\ dstates' \in Seq(SUBSET Nat) /\ marked' \in Seq(BOOLEAN)
    /\ transition_table' \in Seq([Alphabet -> Int]) /\ acceptance_index' \in Seq(Int)
    /\ Len(dstates') \in {Len(dstates), Len(dstates) + 1}
    /\ Len(marked') = Len(dstates') /\ Len(transition_table') = Len(dstates')
    /\ Len(acceptance_index') = Len(dstates')
    /\ \A n \in 1 .. Len(dstates) : dstates'[n] = dstates[n] /\ marked'[n] = marked[n]
    /\ \A n \in 1 .. Len(dstates') : n > Len(dstates) => ~marked'[n]
    /\ \A m, n \in 1 .. Len(dstates') : dstates'[m] = dstates'[n] => m = n

RowsAfter ==
    /\ \A n \in 1 .. Len(dstates), c \in Alphabet :
         <<n, c>> # <<Index(T), j>> => transition_table'[n][c] = transition_table[n][c]
    /\ \A n \in 1 .. Len(dstates'), c \in Alphabet :
         n > Len(dstates) => transition_table'[n][c] = invalid_node

EntryAfter ==
    LET entry == transition_table'[Index(T)][j]
    IN  IF U = {} THEN entry = invalid_node
        ELSE entry \in 0 .. Len(dstates') - 1 /\ dstates'[Index(entry)] = U

EnterEffect == GrowsByOne /\ RowsAfter /\ EntryAfter

\* Where the loop stands.
LEMMA InTheLoop ==
    ASSUME SubsetInv, Enter
    PROVE  /\ Index(T) \in 1 .. Len(dstates) /\ marked[Index(T)] /\ Number(Index(T)) = T
           /\ j \in Alphabet /\ Len(dstates) \in Nat /\ DOMAIN dstates = 1 .. Len(dstates)
           /\ ~Passed(Index(T), j) /\ transition_table[Index(T)][j] = invalid_node
           /\ U \in SUBSET Nat
<1> USE DEF SubsetInv
<1>1. T # invalid_node /\ j < Chars
  BY DEF Enter
<1>2. Len(dstates) \in Nat /\ DOMAIN dstates = 1 .. Len(dstates)
  BY LenProperties DEF VectorTypes
<1>3. Index(T) \in 1 .. Len(dstates) /\ Number(Index(T)) = T
  BY <1>1, <1>2 DEF VectorTypes, Index, Number
<1>4. marked[Index(T)]
  BY <1>1 DEF InProgressMarked
<1>5. j \in Alphabet /\ ~(j < j)
  BY <1>1, CharsAssumption DEF VectorTypes, Alphabet
<1>6. ~Passed(Index(T), j)
  BY <1>3, <1>5 DEF Passed
<1>7. transition_table[Index(T)][j] = invalid_node
  BY <1>2, <1>3, <1>5, <1>6 DEF TableExact
<1>8. U \in SUBSET Nat
  BY <1>1, FollowersAreNext
<1> QED BY <1>2, <1>3, <1>4, <1>5, <1>6, <1>7, <1>8

LEMMA EnterNothing ==
    ASSUME SubsetInv, Enter, U = {}
    PROVE  EnterEffect
<1> USE DEF SubsetInv
<1>1. UNCHANGED <<dstates, marked, transition_table, acceptance_index>>
  BY DEF Enter, U
<1>2. GrowsByOne
  <2>1. \A m, n \in 1 .. Len(dstates) : dstates[m] = dstates[n] => m = n
    BY InTheLoop DEF TableExact
  <2>2. Len(dstates) \in Nat
    BY InTheLoop
  <2> QED BY <1>1, <2>1, <2>2 DEF VectorTypes, TablesAligned, GrowsByOne
<1>3. RowsAfter
  BY <1>1, InTheLoop DEF RowsAfter
<1>4. EntryAfter
  BY <1>1, InTheLoop DEF EntryAfter
<1> QED BY <1>2, <1>3, <1>4 DEF EnterEffect

\* Filling in one entry of a table.
LEMMA FillEntry ==
    ASSUME NEW table \in Seq([Alphabet -> Int]), NEW r \in 1 .. Len(table),
           NEW c \in Alphabet, NEW v \in Int
    PROVE  LET filled == [table EXCEPT ![r][c] = v]
           IN  /\ filled \in Seq([Alphabet -> Int]) /\ Len(filled) = Len(table)
               /\ filled[r][c] = v
               /\ \A n \in 1 .. Len(table), d \in Alphabet :
                    <<n, d>> # <<r, c>> => filled[n][d] = table[n][d]
<1> DEFINE row == [table[r] EXCEPT ![c] = v]
           filled == [table EXCEPT ![r] = row]
<1>1. table[r] \in [Alphabet -> Int]
  BY ElementOfSeq
<1>2. row \in [Alphabet -> Int] /\ row[c] = v /\ \A d \in Alphabet : d # c => row[d] = table[r][d]
  BY <1>1
<1>3. DOMAIN table = 1 .. Len(table)
  BY LenProperties
<1>4. [table EXCEPT ![r][c] = v] = filled
  OBVIOUS
<1> HIDE DEF row
<1>5. filled \in Seq([Alphabet -> Int]) /\ Len(filled) = Len(table)
  BY <1>2, ExceptSeq
<1>6. filled[r] = row /\ \A n \in 1 .. Len(table) : n # r => filled[n] = table[n]
  BY <1>3
<1>7. \A n \in 1 .. Len(table), d \in Alphabet :
        <<n, d>> # <<r, c>> => filled[n][d] = table[n][d]
  BY <1>2, <1>6
<1> QED BY <1>2, <1>4, <1>5, <1>6, <1>7

LEMMA EnterKnown ==
    ASSUME SubsetInv, Enter, U # {}, NEW k \in 1 .. Len(dstates), dstates[k] = U
    PROVE  EnterEffect
<1> USE DEF SubsetInv
<1>1. TargetState(U) = Number(k) /\ Number(k) \in 0 .. Len(dstates) - 1
  <2>1. \A n \in DOMAIN dstates : dstates[n] = U => n = k
    BY InTheLoop DEF TableExact
  <2>2. k \in DOMAIN dstates
    BY InTheLoop
  <2>3. (CHOOSE n \in DOMAIN dstates : dstates[n] = U) = k
    BY <2>1, <2>2
  <2>4. TargetState(U) = Number(k)
    BY <2>2, <2>3 DEF TargetState
  <2>5. Len(dstates) \in Nat
    BY InTheLoop
  <2> QED BY <2>4, <2>5 DEF Number
<1>2. Number(k) # Len(dstates)
  BY <1>1, InTheLoop
<1>3. /\ UNCHANGED <<dstates, marked, acceptance_index>>
      /\ transition_table' = [transition_table EXCEPT ![Index(T)][j] = Number(k)]
  BY <1>1, <1>2 DEF Enter, U
<1>4. Index(T) \in 1 .. Len(transition_table) /\ Number(k) \in Int
  BY <1>1, InTheLoop DEF TablesAligned
<1>5. /\ transition_table' \in Seq([Alphabet -> Int])
      /\ Len(transition_table') = Len(transition_table)
      /\ transition_table'[Index(T)][j] = Number(k)
      /\ \A n \in 1 .. Len(transition_table), d \in Alphabet :
           <<n, d>> # <<Index(T), j>> => transition_table'[n][d] = transition_table[n][d]
  <2> DEFINE filled == [transition_table EXCEPT ![Index(T)][j] = Number(k)]
  <2>1. transition_table \in Seq([Alphabet -> Int]) /\ j \in Alphabet
    BY InTheLoop DEF VectorTypes
  <2>2. /\ filled \in Seq([Alphabet -> Int]) /\ Len(filled) = Len(transition_table)
        /\ filled[Index(T)][j] = Number(k)
        /\ \A n \in 1 .. Len(transition_table), d \in Alphabet :
             <<n, d>> # <<Index(T), j>> => filled[n][d] = transition_table[n][d]
    <3> HIDE DEF SubsetInv
    <3> QED BY <1>4, <2>1, FillEntry
  <2>3. transition_table' = filled
    BY <1>3
  <2> HIDE DEF filled
  <2> QED BY <2>2, <2>3
<1>6. GrowsByOne
  <2>1. /\ dstates' \in Seq(SUBSET Nat) /\ marked' \in Seq(BOOLEAN)
        /\ acceptance_index' \in Seq(Int)
    BY <1>3 DEF VectorTypes
  <2>2. /\ Len(dstates') = Len(dstates)
        /\ Len(marked') = Len(dstates') /\ Len(transition_table') = Len(dstates')
        /\ Len(acceptance_index') = Len(dstates')
    BY <1>3, <1>5 DEF TablesAligned
  <2>3. \A m, n \in 1 .. Len(dstates') : dstates'[m] = dstates'[n] => m = n
    BY <1>3, InTheLoop DEF TableExact
  <2>4. \A n \in 1 .. Len(dstates) : dstates'[n] = dstates[n] /\ marked'[n] = marked[n]
    BY <1>3
  <2>5. \A n \in 1 .. Len(dstates') : ~(n > Len(dstates))
    BY <2>2, InTheLoop
  <2> QED BY <1>5, <2>1, <2>2, <2>3, <2>4, <2>5 DEF GrowsByOne
<1>7. RowsAfter
  BY <1>3, <1>5, InTheLoop DEF RowsAfter, TablesAligned
<1>8. EntryAfter
  BY <1>1, <1>3, <1>5 DEF EntryAfter, Index, Number
<1> QED BY <1>6, <1>7, <1>8 DEF EnterEffect

LEMMA EnterNew ==
    ASSUME SubsetInv, Enter, U # {}, \A n \in 1 .. Len(dstates) : dstates[n] # U
    PROVE  EnterEffect
<1> USE DEF SubsetInv
<1> DEFINE K == Len(dstates)
           table == Append(transition_table, EmptyRow)
<1>1. TargetState(U) = K
  BY InTheLoop DEF TargetState
<1>2. /\ dstates' = Append(dstates, U) /\ marked' = Append(marked, FALSE)
      /\ acceptance_index' = Append(acceptance_index, AcceptanceIndex(U))
      /\ transition_table' = [table EXCEPT ![Index(T)][j] = K]
  BY <1>1 DEF Enter, U
<1>3. Len(marked) = K /\ Len(transition_table) = K /\ Len(acceptance_index) = K /\ K \in Nat
  BY InTheLoop DEF TablesAligned
<1>4. /\ dstates' \in Seq(SUBSET Nat) /\ Len(dstates') = K + 1
      /\ dstates'[K + 1] = U /\ \A n \in 1 .. K : dstates'[n] = dstates[n]
  BY <1>2, InTheLoop, AppendProperties, SMTT(30) DEF VectorTypes
<1>5. /\ marked' \in Seq(BOOLEAN) /\ Len(marked') = K + 1
      /\ ~marked'[K + 1] /\ \A n \in 1 .. K : marked'[n] = marked[n]
  <2> DEFINE B == BOOLEAN
             unmarked == FALSE
  <2>1. marked \in Seq(B) /\ unmarked \in B /\ marked' = Append(marked, unmarked)
    BY <1>2 DEF VectorTypes
  <2> HIDE DEF B, unmarked
  <2>2. /\ marked' \in Seq(B) /\ Len(marked') = K + 1
        /\ marked'[K + 1] = unmarked /\ \A n \in 1 .. K : marked'[n] = marked[n]
    BY <1>3, <2>1, AppendProperties
  <2>3. marked'[K + 1] = FALSE
    BY <2>2, Zenon DEF unmarked
  <2>4. marked' \in Seq(BOOLEAN)
    BY <2>2 DEF B
  <2>5. ~marked'[K + 1]
    BY <2>3, Zenon
  <2> QED BY <2>2, <2>4, <2>5, Zenon
<1>6. acceptance_index' \in Seq(Int) /\ Len(acceptance_index') = K + 1
  <2>1. AcceptanceIndex(U) \in Int
    BY AcceptanceIndexInt DEF VectorTypes
  <2> QED BY <1>2, <1>3, <2>1, AppendProperties DEF VectorTypes
<1>7. /\ table \in Seq([Alphabet -> Int]) /\ Len(table) = K + 1
      /\ table[K + 1] = EmptyRow /\ \A n \in 1 .. K : table[n] = transition_table[n]
  <2>1. EmptyRow \in [Alphabet -> Int]
    BY DEF EmptyRow, invalid_node
  <2> QED BY <1>3, <2>1, AppendProperties DEF VectorTypes
<1> HIDE DEF table
<1>8. Index(T) \in 1 .. Len(table) /\ Index(T) # K + 1 /\ K \in Int
  BY <1>3, <1>7, InTheLoop
<1>9. /\ transition_table' \in Seq([Alphabet -> Int]) /\ Len(transition_table') = K + 1
      /\ transition_table'[Index(T)][j] = K
      /\ \A n \in 1 .. K + 1, d \in Alphabet :
           <<n, d>> # <<Index(T), j>> => transition_table'[n][d] = table[n][d]
  BY <1>2, <1>7, <1>8, FillEntry, InTheLoop
<1>10. GrowsByOne
  <2>1. \A m, n \in 1 .. K + 1 : dstates'[m] = dstates'[n] => m = n
    <3>1. \A m, n \in 1 .. K : dstates[m] = dstates[n] => m = n
      BY InTheLoop DEF TableExact
    <3>2. \A n \in 1 .. K + 1 : n \in 1 .. K \/ n = K + 1
      BY <1>3
    <3> QED BY <1>4, <3>1, <3>2
  <2>2. \A n \in 1 .. K + 1 : n > K => ~marked'[n]
    BY <1>3, <1>5
  <2> QED BY <1>4, <1>5, <1>6, <1>9, <2>1, <2>2, SMTT(30) DEF GrowsByOne
<1>11. RowsAfter
  <2>1. \A n \in 1 .. K, c \in Alphabet :
          <<n, c>> # <<Index(T), j>> => transition_table'[n][c] = transition_table[n][c]
    BY <1>3, <1>7, <1>9
  <2>2. \A c \in Alphabet : transition_table'[K + 1][c] = invalid_node
    <3>1. \A c \in Alphabet : transition_table'[K + 1][c] = table[K + 1][c]
      BY <1>3, <1>8, <1>9
    <3> QED BY <1>7, <3>1 DEF EmptyRow
  <2>3. \A n \in 1 .. K + 1 : n > K => n = K + 1
    BY <1>3
  <2> QED BY <1>4, <2>1, <2>2, <2>3 DEF RowsAfter
<1>12. EntryAfter
  <2>1. K \in 0 .. K + 1 - 1
    BY <1>3
  <2> QED BY <1>4, <1>9, <2>1 DEF EntryAfter, Index
<1> QED BY <1>10, <1>11, <1>12 DEF EnterEffect

LEMMA EnterHasEffect ==
    ASSUME SubsetInv, Enter
    PROVE  EnterEffect
<1>1. CASE U = {}
  BY <1>1, EnterNothing
<1>2. CASE U # {} /\ \E k \in 1 .. Len(dstates) : dstates[k] = U
  BY <1>2, EnterKnown
<1>3. CASE U # {} /\ \A k \in 1 .. Len(dstates) : dstates[k] # U
  BY <1>3, EnterNew
<1> QED BY <1>1, <1>2, <1>3

LEMMA EnterKeepsInv ==
    ASSUME SubsetInv, Enter
    PROVE  SubsetInv'
<1> DEFINE K == Len(dstates)
           R == Index(T)
<1>1. /\ T # invalid_node /\ j < Chars /\ j' = j + 1 /\ T' = T /\ nfa' = nfa
  BY DEF Enter
<1>2. GrowsByOne /\ RowsAfter /\ EntryAfter
  BY EnterHasEffect DEF EnterEffect
<1>3. /\ R \in 1 .. K /\ marked[R] /\ Number(R) = T /\ j \in Alphabet /\ K \in Nat
      /\ DOMAIN dstates = 1 .. K
  BY InTheLoop
<1>4. Len(dstates') \in Nat /\ Len(dstates') >= K /\ DOMAIN dstates' = 1 .. Len(dstates')
  BY <1>2, <1>3, LenProperties DEF GrowsByOne
<1>5. VectorTypes'
  <2>1. T \in 0 .. Len(dstates') - 1
    BY <1>1, <1>3, <1>4 DEF SubsetInv, VectorTypes, invalid_node
  <2>2. j + 1 \in 0 .. Chars
    BY <1>1, CharsAssumption DEF SubsetInv, VectorTypes
  <2> QED BY <1>1, <1>2, <2>1, <2>2 DEF SubsetInv, VectorTypes, GrowsByOne
<1>6. InProgressMarked'
  BY <1>1, <1>2, <1>3 DEF InProgressMarked, GrowsByOne
<1>7. TablesAligned'
  <2>1. \A n \in 1 .. Len(dstates'), c \in Alphabet :
          transition_table'[n][c] \in {invalid_node} \cup 0 .. Len(dstates') - 1
    <3> SUFFICES ASSUME NEW n \in 1 .. Len(dstates'), NEW c \in Alphabet
                 PROVE  transition_table'[n][c] \in {invalid_node} \cup 0 .. Len(dstates') - 1
      OBVIOUS
    <3>1. CASE n > K
      BY <1>2, <3>1 DEF RowsAfter
    <3>2. CASE n = R /\ c = j
      BY <1>2, <3>2 DEF EntryAfter
    <3>3. CASE n \in 1 .. K /\ ~(n = R /\ c = j)
      <4>1. transition_table'[n][c] = transition_table[n][c]
        BY <1>2, <3>3 DEF RowsAfter
      <4>2. n \in DOMAIN transition_table
        BY <3>3, LenProperties DEF SubsetInv, VectorTypes, TablesAligned
      <4>3. transition_table[n][c] \in {invalid_node} \cup 0 .. K - 1
        BY <4>2 DEF SubsetInv, TablesAligned
      <4> QED BY <1>3, <1>4, <4>1, <4>3
    <3> QED BY <1>3, <1>4, <3>1, <3>2, <3>3
  <2>2. /\ DOMAIN transition_table' = 1 .. Len(dstates')
        /\ \A n \in 1 .. Len(dstates') : transition_table'[n] \in [Alphabet -> Int]
    BY <1>2, LenProperties, ElementOfSeq DEF GrowsByOne
  <2>3. \A n \in 1 .. Len(dstates') :
          transition_table'[n] \in [Alphabet -> {invalid_node} \cup 0 .. Len(dstates') - 1]
    BY <2>1, <2>2
  <2> QED BY <1>2, <2>2, <2>3 DEF TablesAligned, GrowsByOne
<1>8. TableExact'
  <2> SUFFICES ASSUME NEW n \in 1 .. Len(dstates'), NEW c \in Alphabet
               PROVE  IF Passed(n, c)' /\ NextOf(dstates[n], c)' # {}
                      THEN /\ transition_table'[n][c] # invalid_node
                           /\ dstates'[Index(transition_table'[n][c])] = NextOf(dstates[n], c)'
                      ELSE transition_table'[n][c] = invalid_node
    BY <1>2, <1>4 DEF TableExact, GrowsByOne
  <2>1. CASE n > K
    <3>1. ~Passed(n, c)' /\ transition_table'[n][c] = invalid_node
      BY <1>2, <2>1 DEF RowsAfter, GrowsByOne, Passed
    <3> QED BY <3>1
  <2>2. CASE n = R /\ c = j
    <3>1. Passed(n, c)'
      <4>1. marked'[R] /\ j < j'
        BY <1>1, <1>2, <1>3, CharsAssumption DEF GrowsByOne, Alphabet
      <4> QED BY <2>2, <4>1 DEF Passed
    <3>2. NextOf(dstates[n], c)' = U
      <4>1. dstates'[n] = dstates[R]
        BY <1>2, <1>3, <2>2 DEF GrowsByOne
      <4>2. NextOf(dstates[n], c)' = NextOf(dstates[R], j)
        BY <1>1, <2>2, <4>1 DEF NextOf
      <4> QED BY <1>1, <4>2, FollowersAreNext DEF SubsetInv
    <3>3. U # {} => transition_table'[n][c] # invalid_node
      BY <1>2, <1>4, <2>2 DEF EntryAfter, invalid_node
    <3> QED BY <1>2, <2>2, <3>1, <3>2, <3>3 DEF EntryAfter
  <2>3. CASE n \in 1 .. K /\ ~(n = R /\ c = j)
    <3>1. Passed(n, c)' <=> Passed(n, c)
      <4>1. marked'[n] = marked[n]
        BY <1>2, <2>3 DEF GrowsByOne
      <4>2. Number(n) = T => (c < j' <=> c < j)
        <5>1. Number(n) = T => n = R
          BY <1>3, <2>3 DEF Number
        <5>2. c # j => (c < j + 1 <=> c < j)
          BY <1>3, CharsAssumption DEF Alphabet
        <5> QED BY <1>1, <2>3, <5>1, <5>2
      <4> QED BY <1>1, <4>1, <4>2 DEF Passed
    <3>2. /\ transition_table'[n][c] = transition_table[n][c]
          /\ dstates'[n] = dstates[n]
      BY <1>2, <2>3 DEF RowsAfter, GrowsByOne
    <3>3. NextOf(dstates[n], c)' = NextOf(dstates[n], c)
      BY <1>1, <3>2 DEF NextOf
    <3> DEFINE entry == transition_table[n][c]
    <3>4. entry # invalid_node => dstates'[Index(entry)] = dstates[Index(entry)]
      <4>1. n \in DOMAIN transition_table
        BY <2>3, LenProperties DEF SubsetInv, VectorTypes, TablesAligned
      <4>2. entry \in {invalid_node} \cup 0 .. K - 1
        BY <4>1 DEF SubsetInv, TablesAligned
      <4>3. entry # invalid_node => Index(entry) \in 1 .. K
        BY <1>3, <4>2 DEF Index
      <4> QED BY <1>2, <4>3 DEF GrowsByOne
    <3>5. IF Passed(n, c) /\ NextOf(dstates[n], c) # {}
          THEN entry # invalid_node /\ dstates[Index(entry)] = NextOf(dstates[n], c)
          ELSE entry = invalid_node
      BY <1>3, <2>3 DEF SubsetInv, TableExact
    <3> HIDE DEF entry
    <3>6. transition_table'[n][c] = entry
      BY <3>2 DEF entry
    <3> QED BY <3>1, <3>3, <3>4, <3>5, <3>6
  <2> QED BY <1>3, <1>4, <2>1, <2>2, <2>3
<1> QED BY <1>5, <1>6, <1>7, <1>8 DEF SubsetInv

LEMMA StepKeepsInv == SubsetInv /\ [SubsetNext]_vars => SubsetInv'
<1> SUFFICES ASSUME SubsetInv, [SubsetNext]_vars PROVE SubsetInv'
  OBVIOUS
<1>1. CASE Mark
  BY <1>1, MarkKeepsInv
<1>2. CASE Enter
  BY <1>2, EnterKeepsInv
<1>3. CASE EndOfRow
  BY <1>3, EndOfRowKeepsInv
<1>4. CASE UNCHANGED <<nfa, dstates, marked, transition_table, acceptance_index, T, j>>
  <2>1. VectorTypes' /\ TablesAligned' /\ InProgressMarked'
    BY <1>4 DEF SubsetInv, VectorTypes, TablesAligned, InProgressMarked
  <2>2. \A n \in DOMAIN dstates, c \in Alphabet :
          /\ Passed(n, c)' <=> Passed(n, c)
          /\ NextOf(dstates[n], c)' = NextOf(dstates[n], c)
          /\ transition_table'[n][c] = transition_table[n][c]
          /\ dstates'[Index(transition_table[n][c])] = dstates[Index(transition_table[n][c])]
    BY <1>4 DEF NextOf, Passed
  <2>3. TableExact'
    BY <1>4, <2>2 DEF SubsetInv, TableExact
  <2> QED BY <2>1, <2>3 DEF SubsetInv
<1> QED BY <1>1, <1>2, <1>3, <1>4 DEF SubsetNext, Finish, vars

LEMMA InvAlways == SubsetSpec => []SubsetInv
BY InitSubsetInv, StepKeepsInv, PTL DEF SubsetSpec

(***************************************************************************)
(* The assertions of create_dfa_for_state: at every step the four vectors  *)
(* are of one length, and no entry leads outside of them.                  *)
(***************************************************************************)
THEOREM TablesAlwaysAligned == SubsetSpec => []TablesAligned
<1>1. SubsetInv => TablesAligned
  BY DEF SubsetInv
<1> QED BY <1>1, InvAlways, PTL

(***************************************************************************)
(* The subset construction: whatever the automaton, every entry filled in  *)
(* leads to the state of exactly the positions that follow.                *)
(***************************************************************************)
THEOREM TableAlwaysExact == SubsetSpec => []TableExact
<1>1. SubsetInv => TableExact
  BY DEF SubsetInv
<1> QED BY <1>1, InvAlways, PTL
-----------------------------------------------------------------------------
(***************************************************************************)
(* What do_match makes of a complete table: the first state is that of the *)
(* first positions, each state accepts what its positions say, and none is *)
(* left to be processed.                                                   *)
(***************************************************************************)
FirstState == Len(dstates) >= 1 /\ dstates[1] = nfa.first

AcceptanceExact == \A n \in 1 .. Len(dstates) : acceptance_index[n] = AcceptanceIndex(dstates[n])

AllMarked == m_compiled_dfa => T = invalid_node /\ \A n \in 1 .. Len(dstates) : marked[n]

MatchInv == SubsetInv /\ FirstState /\ AcceptanceExact /\ AllMarked

LEMMA InitMatchInv == SubsetInit => MatchInv
<1> SUFFICES ASSUME SubsetInit PROVE MatchInv
  OBVIOUS
<1>1. Len(dstates) = 1 /\ dstates[1] = nfa.first
  BY DEF SubsetInit
<1>2. acceptance_index[1] = AcceptanceIndex(dstates[1])
  BY DEF SubsetInit
<1>3. AllMarked
  BY DEF SubsetInit, AllMarked
<1> QED BY <1>1, <1>2, <1>3, InitSubsetInv DEF MatchInv, FirstState, AcceptanceExact

\* The state that a pass of the inner loop adds accepts what its positions say.
LEMMA EnterKeepsAcceptance ==
    ASSUME MatchInv, Enter
    PROVE  FirstState' /\ AcceptanceExact'
<1> DEFINE K == Len(dstates)
<1>1. SubsetInv
  BY DEF MatchInv
<1>2. GrowsByOne /\ nfa' = nfa /\ K \in Nat
  BY <1>1, EnterHasEffect, InTheLoop DEF EnterEffect, Enter
<1>3. \A S : AcceptanceIndex(S)' = AcceptanceIndex(S)
  BY <1>2 DEF AcceptanceIndex, EofIndex
<1>4. FirstState'
  <2>1. K >= 1 /\ dstates[1] = nfa.first
    BY DEF MatchInv, FirstState
  <2>2. 1 \in 1 .. K /\ Len(dstates') >= 1
    BY <1>2, <2>1 DEF GrowsByOne
  <2> QED BY <1>2, <2>1, <2>2 DEF FirstState, GrowsByOne
<1>5. /\ \A n \in 1 .. K : acceptance_index'[n] = acceptance_index[n]
      /\ Len(dstates') = K + 1 => acceptance_index'[K + 1] = AcceptanceIndex(dstates'[K + 1])
  <2> DEFINE isNew == U # {} /\ TargetState(U) = Len(dstates)
  <2>1. /\ dstates' = IF isNew THEN Append(dstates, U) ELSE dstates
        /\ acceptance_index' = IF isNew THEN Append(acceptance_index, AcceptanceIndex(U))
                               ELSE acceptance_index
    BY DEF Enter, U
  <2>2. Len(acceptance_index) = K /\ acceptance_index \in Seq(Int) /\ dstates \in Seq(SUBSET Nat)
        /\ U \in SUBSET Nat
    BY <1>1, InTheLoop DEF SubsetInv, VectorTypes, TablesAligned
  <2> HIDE DEF isNew
  <2>3. CASE isNew
    <3>1. AcceptanceIndex(U) \in Int
      BY <1>1, AcceptanceIndexInt DEF SubsetInv, VectorTypes
    <3>2. /\ acceptance_index' = Append(acceptance_index, AcceptanceIndex(U))
          /\ dstates' = Append(dstates, U)
      BY <2>1, <2>3
    <3>3. /\ acceptance_index'[K + 1] = AcceptanceIndex(U)
          /\ \A n \in 1 .. K : acceptance_index'[n] = acceptance_index[n]
      BY <1>2, <2>2, <3>1, <3>2, AppendProperties
    <3>4. dstates'[K + 1] = U
      BY <1>2, <2>2, <3>2, AppendProperties
    <3> QED BY <3>3, <3>4
  <2>4. CASE ~isNew
    <3>1. dstates' = dstates /\ acceptance_index' = acceptance_index
      BY <2>1, <2>4
    <3> QED BY <1>2, <3>1
  <2> QED BY <2>3, <2>4
<1>6. AcceptanceExact'
  <2> SUFFICES ASSUME NEW n \in 1 .. Len(dstates')
               PROVE  acceptance_index'[n] = AcceptanceIndex(dstates[n])'
    BY DEF AcceptanceExact
  <2>1. AcceptanceIndex(dstates[n])' = AcceptanceIndex(dstates'[n])
    BY <1>2 DEF AcceptanceIndex, EofIndex
  <2>2. CASE n \in 1 .. K
    <3>1. acceptance_index[n] = AcceptanceIndex(dstates[n]) /\ dstates'[n] = dstates[n]
      BY <1>2, <2>2 DEF MatchInv, AcceptanceExact, GrowsByOne
    <3> QED BY <1>5, <2>1, <2>2, <3>1
  <2>3. CASE n \notin 1 .. K
    <3>1. Len(dstates') \in {K, K + 1}
      BY <1>2 DEF GrowsByOne
    <3> HIDE DEF K
    <3>2. n = K + 1 /\ Len(dstates') = K + 1
      BY <1>2, <2>3, <3>1
    <3> QED BY <1>5, <2>1, <3>2
  <2> QED BY <2>2, <2>3
<1> QED BY <1>4, <1>6

LEMMA StepKeepsMatchInv == MatchInv /\ [SubsetNext]_vars => MatchInv'
<1> SUFFICES ASSUME MatchInv, [SubsetNext]_vars PROVE MatchInv'
  OBVIOUS
<1>1. SubsetInv /\ SubsetInv'
  BY StepKeepsInv DEF MatchInv
<1>2. Len(dstates) \in Nat /\ Len(marked) = Len(dstates) /\ DOMAIN marked = 1 .. Len(marked)
  BY <1>1, LenProperties DEF SubsetInv, VectorTypes, TablesAligned
<1>3. UNCHANGED <<nfa, dstates, acceptance_index>> => FirstState' /\ AcceptanceExact'
  <2>1. FirstState /\ AcceptanceExact
    BY DEF MatchInv
  <2> QED BY <2>1 DEF FirstState, AcceptanceExact, AcceptanceIndex, EofIndex
<1>4. CASE Mark
  BY <1>1, <1>3, <1>4 DEF Mark, MatchInv, AllMarked
<1>5. CASE Enter
  <2>1. AllMarked'
    BY <1>5 DEF Enter, MatchInv, AllMarked
  <2> QED BY <1>1, <1>5, <2>1, EnterKeepsAcceptance DEF MatchInv
<1>6. CASE EndOfRow
  BY <1>1, <1>3, <1>6 DEF EndOfRow, MatchInv, AllMarked
<1>7. CASE Finish
  <2>1. \A n \in 1 .. Len(dstates) : marked[n]
    BY <1>2, <1>7 DEF Finish, Unmarked
  <2>2. AllMarked'
    BY <1>7, <2>1 DEF Finish, AllMarked
  <2> QED BY <1>1, <1>3, <1>7, <2>2 DEF Finish, MatchInv
<1>8. CASE UNCHANGED vars
  BY <1>1, <1>3, <1>8 DEF vars, MatchInv, AllMarked
<1> QED BY <1>4, <1>5, <1>6, <1>7, <1>8 DEF SubsetNext

-----------------------------------------------------------------------------
(***************************************************************************)
(* The positions at which the automaton stands behind each prefix of an    *)
(* input, and what is the longest match by them: the longest prefix after  *)
(* which it stands at an eof position, the smallest of which says which    *)
(* expression matched.                                                     *)
(***************************************************************************)
PositionsAfter(input) ==
    LET p[n \in 0 .. Len(input)] == IF n = 0 THEN nfa.first ELSE NextOf(p[n - 1], input[n])
    IN  p

MatchLengths(input) ==
    { n \in 1 .. Len(input) : PositionsAfter(input)[n] \cap nfa.eof # {} }

FirstEof(input, length, index) ==
    \E e \in PositionsAfter(input)[length] \cap nfa.eof :
        /\ \A f \in PositionsAfter(input)[length] \cap nfa.eof : e <= f
        /\ index = EofIndex(e)

LongestMatch(input) ==
    LET result == do_match(input)
    IN  IF MatchLengths(input) = {} THEN result = [matched |-> FALSE]
        ELSE /\ result.matched
             /\ result.length \in MatchLengths(input)
             /\ \A n \in MatchLengths(input) : n <= result.length
             /\ FirstEof(input, result.length, result.regex_index)
             /\ \E n \in result.length .. Len(input) : result.token = SubSeq(input, 1, n)

MatchesLongest == m_compiled_dfa => \A input \in Seq(Alphabet) : LongestMatch(input)

\* An input and its length.
LEMMA InputShape ==
    ASSUME NEW input \in Seq(Alphabet)
    PROVE  Len(input) \in Nat /\ \A n \in 1 .. Len(input) : input[n] \in Alphabet
BY LenProperties, ElementOfSeq

LEMMA NextOfType ==
    ASSUME nfa \in Automata, NEW S, NEW c
    PROVE  NextOf(S, c) \in SUBSET Nat
<1>1. \A pair \in nfa.follow : pair[2] \in Nat
  BY AutomatonTypes
<1> QED BY <1>1 DEF NextOf

LEMMA PositionsRecursion ==
    ASSUME nfa \in Automata, NEW input \in Seq(Alphabet)
    PROVE  /\ PositionsAfter(input)[0] = nfa.first
           /\ \A n \in 1 .. Len(input) :
                PositionsAfter(input)[n] = NextOf(PositionsAfter(input)[n - 1], input[n])
<1> DEFINE S == SUBSET Nat
           k == Len(input)
           Recursive(f) == f = [n \in 0 .. Len(input) |->
                                  IF n = 0 THEN nfa.first ELSE NextOf(f[n - 1], input[n])]
           step == [p \in Nat \X S |-> NextOf(p[2], input[p[1]])]
           positions == CHOOSE f : Recursive(f)
<1>1. k \in Nat /\ nfa.first \in S
  BY InputShape, AutomatonTypes
<1>2. step \in [Nat \X S -> S]
  <2>1. \A p \in Nat \X S : NextOf(p[2], input[p[1]]) \in S
    BY NextOfType
  <2> QED BY <2>1
<1> HIDE DEF S, k
<1>3. PICK f \in [0 .. k -> S] : f[0] = nfa.first /\ \A i \in 1 .. k : f[i] = step[<<i, f[i - 1]>>]
  <2> HIDE DEF step
  <2>1. \E f : IsRecursion(f, S, nfa.first, step, k)
    BY <1>1, <1>2, RecursionExists
  <2> QED BY <2>1 DEF IsRecursion
<1>4. ASSUME NEW i \in 1 .. k
      PROVE  f[i] = NextOf(f[i - 1], input[i])
  <2>1. i \in Nat /\ i - 1 \in 0 .. k
    BY <1>1
  <2>2. f[i - 1] \in S
    BY <2>1
  <2>3. step[<<i, f[i - 1]>>] = NextOf(f[i - 1], input[i])
    BY <2>1, <2>2
  <2> QED BY <1>3, <2>3
<1>5. Recursive(f)
  <2> DEFINE g == [n \in 0 .. Len(input) |->
                     IF n = 0 THEN nfa.first ELSE NextOf(f[n - 1], input[n])]
  <2>1. ASSUME NEW n \in 0 .. k
        PROVE  f[n] = g[n]
    <3>1. CASE n = 0
      BY <1>1, <1>3, <3>1 DEF k
    <3>2. CASE n # 0
      <4>1. n \in 1 .. k /\ n \in 0 .. Len(input)
        BY <1>1, <3>2 DEF k
      <4>2. g[n] = NextOf(f[n - 1], input[n])
        BY <3>2, <4>1
      <4> HIDE DEF g
      <4> QED BY <1>4, <4>1, <4>2
    <3> QED BY <3>1, <3>2
  <2>2. g = [n \in 0 .. k |-> g[n]] /\ f = [n \in 0 .. k |-> f[n]]
    BY DEF k
  <2> HIDE DEF g
  <2>3. f = g
    BY <2>1, <2>2
  <2> QED BY <2>3 DEF g
<1>6. Recursive(positions)
  <2> HIDE DEF Recursive
  <2> QED BY <1>5, Zenon
<1>7. PositionsAfter(input) = positions
  BY DEF PositionsAfter
<1> HIDE DEF positions
<1>8. ASSUME NEW n \in 0 .. k
      PROVE  positions[n] = IF n = 0 THEN nfa.first ELSE NextOf(positions[n - 1], input[n])
  <2> DEFINE g == [i \in 0 .. Len(input) |->
                     IF i = 0 THEN nfa.first ELSE NextOf(positions[i - 1], input[i])]
  <2>1. positions = g
    BY <1>6, Zenon
  <2>2. g[n] = IF n = 0 THEN nfa.first ELSE NextOf(positions[n - 1], input[n])
    BY DEF k
  <2> HIDE DEF g
  <2> QED BY <2>1, <2>2
<1>9. positions[0] = nfa.first
  BY <1>1, <1>8
<1>10. ASSUME NEW n \in 1 .. k
       PROVE  positions[n] = NextOf(positions[n - 1], input[n])
  <2>1. n \in 0 .. k /\ n # 0
    BY <1>1
  <2> QED BY <1>8, <2>1
<1> QED BY <1>7, <1>9, <1>10 DEF k

\* The states of the table, and the one between two.
States == {invalid_node} \cup 0 .. Len(dstates) - 1

StateAfter(state, c) ==
    IF state = invalid_node THEN invalid_node ELSE transition_table[Index(state)][c]

LEMMA StateAfterType ==
    ASSUME SubsetInv, NEW state \in States, NEW c \in Alphabet
    PROVE  StateAfter(state, c) \in States
<1>1. CASE state = invalid_node
  BY <1>1 DEF StateAfter, States
<1>2. CASE state # invalid_node
  <2>1. Len(dstates) \in Nat
    BY LenProperties DEF SubsetInv, VectorTypes
  <2>2. Index(state) \in 1 .. Len(dstates)
    BY <1>2, <2>1 DEF States, Index
  <2>3. DOMAIN transition_table = 1 .. Len(dstates)
    BY LenProperties DEF SubsetInv, VectorTypes, TablesAligned
  <2>4. transition_table[Index(state)] \in [Alphabet -> States]
    BY <2>2, <2>3 DEF SubsetInv, TablesAligned, States
  <2> QED BY <1>2, <2>4 DEF StateAfter
<1> QED BY <1>1, <1>2

LEMMA RunRecursion ==
    ASSUME SubsetInv, Len(dstates) >= 1, NEW input \in Seq(Alphabet)
    PROVE  /\ Run(input)[0] = 0
           /\ \A n \in 1 .. Len(input) : Run(input)[n] = StateAfter(Run(input)[n - 1], input[n])
           /\ \A n \in 0 .. Len(input) : Run(input)[n] \in States
<1> DEFINE S == States
           k == Len(input)
           Recursive(f) == f = [n \in 0 .. Len(input) |->
                                  IF n = 0 THEN 0
                                  ELSE IF f[n - 1] = invalid_node THEN invalid_node
                                  ELSE transition_table[Index(f[n - 1])][input[n]]]
           step == [p \in Nat \X S |-> IF p[1] \in 1 .. k THEN StateAfter(p[2], input[p[1]]) ELSE 0]
           states == CHOOSE f : Recursive(f)
<1>1. k \in Nat /\ 0 \in S
  <2>1. Len(dstates) \in Nat
    BY LenProperties DEF SubsetInv, VectorTypes
  <2> QED BY <2>1, InputShape DEF States
<1>2. step \in [Nat \X S -> S]
  <2>1. ASSUME NEW p \in Nat \X S, p[1] \in 1 .. k
        PROVE  StateAfter(p[2], input[p[1]]) \in S
    BY <2>1, InputShape, StateAfterType
  <2> QED BY <1>1, <2>1
<1> HIDE DEF S, k
<1>3. PICK f \in [0 .. k -> S] : f[0] = 0 /\ \A i \in 1 .. k : f[i] = step[<<i, f[i - 1]>>]
  <2> HIDE DEF step
  <2>1. \E f : IsRecursion(f, S, 0, step, k)
    BY <1>1, <1>2, RecursionExists
  <2> QED BY <2>1 DEF IsRecursion
<1>4. ASSUME NEW i \in 1 .. k
      PROVE  f[i] = StateAfter(f[i - 1], input[i])
  <2>1. i \in Nat /\ i - 1 \in 0 .. k
    BY <1>1
  <2>2. f[i - 1] \in S
    BY <2>1
  <2>3. step[<<i, f[i - 1]>>] = StateAfter(f[i - 1], input[i])
    BY <2>1, <2>2
  <2> QED BY <1>3, <2>3
<1>5. Recursive(f)
  <2> DEFINE g == [n \in 0 .. Len(input) |->
                     IF n = 0 THEN 0
                     ELSE IF f[n - 1] = invalid_node THEN invalid_node
                     ELSE transition_table[Index(f[n - 1])][input[n]]]
  <2>1. ASSUME NEW n \in 0 .. k
        PROVE  f[n] = g[n]
    <3>1. CASE n = 0
      BY <1>1, <1>3, <3>1 DEF k
    <3>2. CASE n # 0
      <4>1. n \in 1 .. k /\ n \in 0 .. Len(input)
        BY <1>1, <3>2 DEF k
      <4>2. g[n] = StateAfter(f[n - 1], input[n])
        BY <3>2, <4>1 DEF StateAfter
      <4> HIDE DEF g
      <4> QED BY <1>4, <4>1, <4>2
    <3> QED BY <3>1, <3>2
  <2>2. g = [n \in 0 .. k |-> g[n]] /\ f = [n \in 0 .. k |-> f[n]]
    BY DEF k
  <2> HIDE DEF g
  <2>3. f = g
    BY <2>1, <2>2
  <2> QED BY <2>3 DEF g
<1>6. Recursive(states)
  <2> HIDE DEF Recursive
  <2> QED BY <1>5, Zenon
<1>7. Run(input) = states
  BY DEF Run
<1> HIDE DEF states
<1>8. ASSUME NEW n \in 0 .. k
      PROVE  states[n] = IF n = 0 THEN 0 ELSE StateAfter(states[n - 1], input[n])
  <2> DEFINE g == [i \in 0 .. Len(input) |->
                     IF i = 0 THEN 0
                     ELSE IF states[i - 1] = invalid_node THEN invalid_node
                     ELSE transition_table[Index(states[i - 1])][input[i]]]
  <2>1. states = g
    BY <1>6, Zenon
  <2>2. g[n] = IF n = 0 THEN 0 ELSE StateAfter(states[n - 1], input[n])
    BY DEF k, StateAfter
  <2> HIDE DEF g
  <2> QED BY <2>1, <2>2
<1>9. states[0] = 0 /\ \A n \in 1 .. k : states[n] = StateAfter(states[n - 1], input[n])
  <2>1. states[0] = 0
    BY <1>1, <1>8
  <2>2. ASSUME NEW n \in 1 .. k
        PROVE  states[n] = StateAfter(states[n - 1], input[n])
    <3>1. n \in 0 .. k /\ n # 0
      BY <1>1
    <3> QED BY <1>8, <3>1
  <2> QED BY <2>1, <2>2
<1>10. \A n \in 0 .. k : states[n] \in S
  <2> DEFINE N == { n \in Nat : n \in 0 .. k => states[n] \in S }
  <2>1. 0 \in N
    BY <1>1, <1>9
  <2>2. ASSUME NEW n \in Nat, n \in N
        PROVE  n + 1 \in N
    <3>1. CASE n + 1 \in 1 .. k
      <4>1. n \in 0 .. k /\ n + 1 - 1 = n
        BY <1>1, <3>1
      <4>2. states[n] \in S /\ input[n + 1] \in Alphabet
        BY <2>2, <3>1, <4>1, InputShape DEF k
      <4>3. states[n + 1] = StateAfter(states[n], input[n + 1])
        BY <1>9, <3>1, <4>1
      <4> QED BY <4>2, <4>3, StateAfterType DEF S
    <3> QED BY <3>1
  <2> HIDE DEF N
  <2>3. \A n \in Nat : n \in N
    BY <2>1, <2>2, Induction
  <2> QED BY <1>1, <2>3 DEF N
<1> QED BY <1>7, <1>9, <1>10 DEF k, S

(***************************************************************************)
(* The run over a complete table stands on the state of the positions, or  *)
(* nowhere when there are none.                                            *)
(***************************************************************************)
StandsAt(state, positions) ==
    IF state = invalid_node THEN positions = {}
    ELSE state \in 0 .. Len(dstates) - 1 /\ dstates[Index(state)] = positions

LEMMA NextOfNone == \A c : NextOf({}, c) = {}
BY DEF NextOf

LEMMA StandsAtNext ==
    ASSUME MatchInv, m_compiled_dfa, NEW state, NEW positions, NEW c \in Alphabet,
           StandsAt(state, positions)
    PROVE  StandsAt(StateAfter(state, c), NextOf(positions, c))
<1>1. CASE state = invalid_node
  BY <1>1, NextOfNone DEF StandsAt, StateAfter
<1>2. CASE state # invalid_node
  <2> DEFINE n == Index(state)
             entry == transition_table[n][c]
  <2>1. SubsetInv /\ Len(dstates) \in Nat /\ DOMAIN dstates = 1 .. Len(dstates)
    BY LenProperties DEF MatchInv, SubsetInv, VectorTypes
  <2>2. n \in 1 .. Len(dstates) /\ state \in States /\ dstates[n] = positions
    BY <1>2, <2>1 DEF StandsAt, Index, States
  <2>3. StateAfter(state, c) = entry
    BY <1>2 DEF StateAfter
  <2>4. Passed(n, c)
    <3>1. marked[n] /\ T = invalid_node
      BY <2>2 DEF MatchInv, AllMarked
    <3>2. Number(n) # T
      BY <2>2, <3>1 DEF Number, invalid_node
    <3> QED BY <3>1, <3>2 DEF Passed
  <2>5. IF NextOf(positions, c) # {}
        THEN entry # invalid_node /\ dstates[Index(entry)] = NextOf(positions, c)
        ELSE entry = invalid_node
    <3>1. IF Passed(n, c) /\ NextOf(dstates[n], c) # {}
          THEN entry # invalid_node /\ dstates[Index(entry)] = NextOf(dstates[n], c)
          ELSE entry = invalid_node
      BY <2>1, <2>2 DEF SubsetInv, TableExact
    <3> QED BY <2>2, <2>4, <3>1
  <2>6. entry \in States
    BY <2>1, <2>2, <2>3, StateAfterType
  <2> HIDE DEF entry
  <2> QED BY <2>3, <2>5, <2>6 DEF StandsAt, States
<1> QED BY <1>1, <1>2

LEMMA RunStandsAtPositions ==
    ASSUME MatchInv, m_compiled_dfa, NEW input \in Seq(Alphabet)
    PROVE  \A n \in 0 .. Len(input) : StandsAt(Run(input)[n], PositionsAfter(input)[n])
<1> DEFINE N == { n \in Nat : n \in 0 .. Len(input) =>
                                StandsAt(Run(input)[n], PositionsAfter(input)[n]) }
<1>1. SubsetInv /\ Len(dstates) >= 1 /\ dstates[1] = nfa.first /\ nfa \in Automata
  BY DEF MatchInv, FirstState, SubsetInv, VectorTypes
<1>2. Len(input) \in Nat /\ Len(dstates) \in Nat
  BY <1>1, InputShape, LenProperties DEF SubsetInv, VectorTypes
<1>3. 0 \in N
  <2>1. Run(input)[0] = 0 /\ PositionsAfter(input)[0] = nfa.first
    BY <1>1, RunRecursion, PositionsRecursion
  <2>2. 0 # invalid_node /\ 0 \in 0 .. Len(dstates) - 1 /\ Index(0) = 1
    BY <1>1, <1>2 DEF invalid_node, Index
  <2> QED BY <1>1, <2>1, <2>2 DEF StandsAt
<1>4. ASSUME NEW n \in Nat, n \in N
      PROVE  n + 1 \in N
  <2>1. CASE n + 1 \in 1 .. Len(input)
    <3>1. n \in 0 .. Len(input) /\ n + 1 - 1 = n /\ input[n + 1] \in Alphabet
      BY <1>2, <2>1, InputShape
    <3>2. StandsAt(Run(input)[n], PositionsAfter(input)[n])
      BY <1>4, <3>1
    <3>3. Run(input)[n + 1] = StateAfter(Run(input)[n], input[n + 1])
      BY <1>1, <2>1, <3>1, RunRecursion
    <3>4. PositionsAfter(input)[n + 1] = NextOf(PositionsAfter(input)[n], input[n + 1])
      BY <1>1, <2>1, <3>1, PositionsRecursion
    <3>5. StandsAt(Run(input)[n + 1], PositionsAfter(input)[n + 1])
      BY <3>1, <3>2, <3>3, <3>4, StandsAtNext
    <3> QED BY <3>5
  <2> QED BY <2>1
<1> HIDE DEF N
<1>5. \A n \in Nat : n \in N
  BY <1>3, <1>4, Induction
<1> QED BY <1>2, <1>5 DEF N

\* A state accepts if its positions meet those of the ends of expressions, and
\* its index is that of the first of them.
LEMMA AcceptsByPositions ==
    ASSUME MatchInv, NEW state, NEW positions \in SUBSET Nat, StandsAt(state, positions)
    PROVE  /\ Accepts(state) <=> positions \cap nfa.eof # {}
           /\ Accepts(state) =>
                \E e \in positions \cap nfa.eof :
                    /\ \A f \in positions \cap nfa.eof : e <= f
                    /\ acceptance_index[Index(state)] = EofIndex(e)
<1>1. CASE state = invalid_node
  BY <1>1 DEF StandsAt, Accepts
<1>2. CASE state # invalid_node
  <2> DEFINE ends == positions \cap nfa.eof
             first == CHOOSE e \in ends : \A f \in ends : e <= f
  <2>1. Index(state) \in 1 .. Len(dstates) /\ dstates[Index(state)] = positions
    <3>1. Len(dstates) \in Nat
      BY LenProperties DEF MatchInv, SubsetInv, VectorTypes
    <3> QED BY <1>2, <3>1 DEF StandsAt, Index
  <2>2. acceptance_index[Index(state)] = AcceptanceIndex(positions)
    BY <2>1 DEF MatchInv, AcceptanceExact
  <2>3. CASE ends = {}
    BY <2>2, <2>3 DEF Accepts, AcceptanceIndex
  <2>4. CASE ends # {}
    <3>1. \E e \in ends : \A f \in ends : e <= f
      <4>1. ends \subseteq Nat
        OBVIOUS
      <4>2. PICK e \in ends : \A f \in ends : ~(f < e)
        BY <2>4, <4>1, LeastIndex
      <4>3. \A f \in ends : e <= f
        BY <4>1, <4>2
      <4> QED BY <4>3
    <3>2. first \in ends /\ \A f \in ends : first <= f
      BY <3>1
    <3>3. acceptance_index[Index(state)] = EofIndex(first)
      BY <2>2, <2>4 DEF AcceptanceIndex
    <3>4. EofIndex(first) # invalid_node
      <4>1. EofIndex(first) \in Nat
        BY EofIndexNat DEF MatchInv, SubsetInv, VectorTypes
      <4> QED BY <4>1 DEF invalid_node
    <3> HIDE DEF first
    <3>5. Accepts(state)
      BY <1>2, <3>3, <3>4 DEF Accepts
    <3> QED BY <2>4, <3>2, <3>3, <3>5
  <2> QED BY <2>3, <2>4
<1> QED BY <1>1, <1>2

\* Once there was no transition, there is none any more.
LEMMA RunEnds ==
    ASSUME SubsetInv, Len(dstates) >= 1, NEW input \in Seq(Alphabet),
           NEW m \in 0 .. Len(input), Run(input)[m] = invalid_node
    PROVE  \A n \in m .. Len(input) : Run(input)[n] = invalid_node
<1> DEFINE N == { n \in Nat : m + n \in 0 .. Len(input) => Run(input)[m + n] = invalid_node }
<1>1. Len(input) \in Nat
  BY InputShape
<1>2. 0 \in N
  BY <1>1
<1>3. ASSUME NEW n \in Nat, n \in N
      PROVE  n + 1 \in N
  <2>1. CASE m + (n + 1) \in 0 .. Len(input)
    <3>1. m + n \in 0 .. Len(input) /\ m + (n + 1) \in 1 .. Len(input) /\ m + (n + 1) - 1 = m + n
      BY <1>1, <2>1
    <3>2. Run(input)[m + n] = invalid_node
      BY <1>3, <3>1
    <3>3. Run(input)[m + (n + 1)] = StateAfter(Run(input)[m + n], input[m + (n + 1)])
      BY <3>1, RunRecursion
    <3>4. Run(input)[m + (n + 1)] = invalid_node
      BY <3>2, <3>3 DEF StateAfter
    <3> QED BY <3>4
  <2> QED BY <2>1
<1> HIDE DEF N
<1>4. \A n \in Nat : n \in N
  BY <1>2, <1>3, Induction
<1>5. ASSUME NEW n \in m .. Len(input)
      PROVE  Run(input)[n] = invalid_node
  <2>1. n - m \in Nat /\ m + (n - m) = n /\ n \in 0 .. Len(input)
    BY <1>1
  <2>2. n - m \in N
    BY <1>4, <2>1
  <2> QED BY <2>1, <2>2 DEF N
<1> QED BY <1>5

\* How far the run gets.
LEMMA RunReaches ==
    ASSUME SubsetInv, Len(dstates) >= 1, NEW input \in Seq(Alphabet)
    PROVE  LET Ends(n) == /\ Run(input)[n] # invalid_node
                          /\ n = Len(input) \/ Run(input)[n + 1] = invalid_node
               reached == CHOOSE n \in 0 .. Len(input) : Ends(n)
           IN  /\ reached \in 0 .. Len(input)
               /\ \A n \in 0 .. Len(input) : Run(input)[n] # invalid_node => n <= reached
<1> DEFINE Ends(n) == /\ Run(input)[n] # invalid_node
                      /\ n = Len(input) \/ Run(input)[n + 1] = invalid_node
           reached == CHOOSE n \in 0 .. Len(input) : Ends(n)
           Alive == { n \in 0 .. Len(input) : Run(input)[n] # invalid_node }
<1>1. Len(input) \in Nat
  BY InputShape
<1>2. 0 \in Alive
  BY <1>1, RunRecursion DEF invalid_node
<1>3. PICK i \in Alive : \A n \in Alive : n <= i
  BY <1>1, <1>2, GreatestIndex
<1>4. Ends(i)
  <2>1. i + 1 \notin Alive
    BY <1>1, <1>3
  <2>2. i # Len(input) => i + 1 \in 0 .. Len(input)
    BY <1>1
  <2> QED BY <2>1, <2>2
<1>5. reached \in 0 .. Len(input) /\ Ends(reached)
  <2> HIDE DEF Ends
  <2> QED BY <1>4
<1> HIDE DEF reached
<1>6. ASSUME NEW n \in 0 .. Len(input), Run(input)[n] # invalid_node, reached < n
      PROVE  FALSE
  <2>1. reached + 1 \in 0 .. Len(input) /\ n \in reached + 1 .. Len(input) /\ reached # Len(input)
    BY <1>1, <1>5, <1>6
  <2>2. Run(input)[reached + 1] = invalid_node
    BY <1>5, <2>1
  <2>3. Run(input)[n] = invalid_node
    BY <2>1, <2>2, RunEnds
  <2> QED BY <1>6, <2>3
<1>7. \A n \in 0 .. Len(input) : Run(input)[n] # invalid_node => n <= reached
  BY <1>1, <1>5, <1>6
<1> QED BY <1>5, <1>7 DEF reached

LEMMA MatchIsLongest ==
    ASSUME MatchInv, m_compiled_dfa, NEW input \in Seq(Alphabet)
    PROVE  LongestMatch(input)
<1> DEFINE s == Run(input)
           p == PositionsAfter(input)
           accepting == { n \in 1 .. Len(input) : Accepts(s[n]) }
           length == CHOOSE n \in accepting : \A k \in accepting : k <= n
           reached == CHOOSE n \in 0 .. Len(input) :
                        /\ s[n] # invalid_node
                        /\ n = Len(input) \/ s[n + 1] = invalid_node
<1>1. SubsetInv /\ Len(dstates) >= 1 /\ nfa \in Automata /\ Len(input) \in Nat
  BY InputShape DEF MatchInv, FirstState, SubsetInv, VectorTypes
<1>2. /\ reached \in 0 .. Len(input)
      /\ \A n \in 0 .. Len(input) : s[n] # invalid_node => n <= reached
  BY <1>1, RunReaches
<1>3. do_match(input) =
        IF accepting = {} THEN [matched |-> FALSE]
        ELSE [ matched     |-> TRUE,
               length      |-> length,
               regex_index |-> acceptance_index[Index(s[length])],
               token       |-> SubSeq(input, 1, reached) ]
  BY DEF do_match
<1> HIDE DEF reached, s
<1>4. ASSUME NEW n \in 1 .. Len(input)
      PROVE  /\ Accepts(s[n]) <=> p[n] \cap nfa.eof # {}
             /\ Accepts(s[n]) => FirstEof(input, n, acceptance_index[Index(s[n])])
  <2>1. StandsAt(s[n], p[n])
    <3>1. n \in 0 .. Len(input)
      BY <1>1
    <3> QED BY <3>1, RunStandsAtPositions DEF s
  <2>2. p[n] \in SUBSET Nat
    <3>1. p[n] = NextOf(p[n - 1], input[n])
      BY <1>1, PositionsRecursion
    <3> QED BY <1>1, <3>1, NextOfType
  <2> QED BY <2>1, <2>2, AcceptsByPositions DEF FirstEof
<1>5. accepting = MatchLengths(input)
  BY <1>4 DEF MatchLengths
<1>6. CASE accepting = {}
  BY <1>3, <1>5, <1>6 DEF LongestMatch
<1>7. CASE accepting # {}
  <2>1. \E n \in accepting : \A k \in accepting : k <= n
    <3>1. accepting \subseteq 0 .. Len(input)
      BY <1>1
    <3> HIDE DEF accepting
    <3> QED BY <1>1, <1>7, <3>1, GreatestIndex
  <2>2. length \in accepting /\ \A k \in accepting : k <= length
    <3> HIDE DEF accepting
    <3> QED BY <2>1
  <2> HIDE DEF length
  <2>3. length \in 1 .. Len(input) /\ Accepts(s[length])
    BY <2>2
  <2>4. FirstEof(input, length, acceptance_index[Index(s[length])])
    BY <1>4, <2>3
  <2>5. reached \in length .. Len(input)
    <3>1. s[length] # invalid_node /\ length \in 0 .. Len(input)
      BY <1>1, <2>3 DEF Accepts
    <3> QED BY <1>1, <1>2, <2>3, <3>1
  <2>6. /\ do_match(input).matched /\ do_match(input).length = length
        /\ do_match(input).regex_index = acceptance_index[Index(s[length])]
        /\ do_match(input).token = SubSeq(input, 1, reached)
    <3> DEFINE index == acceptance_index[Index(s[length])]
               text == SubSeq(input, 1, reached)
               result == [matched |-> TRUE, length |-> length, regex_index |-> index, token |-> text]
    <3>1. do_match(input) = result
      BY <1>3, <1>7, Zenon DEF length
    <3> HIDE DEF index, text
    <3>2. /\ result.matched /\ result.length = length
          /\ result.regex_index = index /\ result.token = text
      OBVIOUS
    <3> HIDE DEF result
    <3>3. /\ do_match(input).matched /\ do_match(input).length = length
          /\ do_match(input).regex_index = index /\ do_match(input).token = text
      BY <3>1, <3>2
    <3> QED BY <3>3 DEF index, text
  <2> HIDE DEF accepting
  <2> QED BY <1>5, <1>7, <2>2, <2>4, <2>5, <2>6 DEF LongestMatch
<1> QED BY <1>6, <1>7

(***************************************************************************)
(* The matching of do_match, for every automaton and every input: on the   *)
(* complete table it takes the longest prefix that the automaton accepts,  *)
(* names the expression with the smallest eof position that it accepts     *)
(* there, and hands on a text that begins with that prefix; without such a *)
(* prefix it matches nothing.                                              *)
(***************************************************************************)
THEOREM TableMatchesLongest == SubsetSpec => []MatchesLongest
<1>1. SubsetSpec => []MatchInv
  BY InitMatchInv, StepKeepsMatchInv, PTL DEF SubsetSpec
<1>2. MatchInv => MatchesLongest
  BY MatchIsLongest DEF MatchesLongest
<1> QED BY <1>1, <1>2, PTL

-----------------------------------------------------------------------------
-----------------------------------------------------------------------------
(***************************************************************************)
(* The positions after a prefix of the input are those that the walks over *)
(* that prefix lead to.                                                    *)
(***************************************************************************)
Path(A, word, p, n, q) ==
    Connected(A, word, p, 0, n) /\ p[1] \in A.first /\ <<p[n], q>> \in A.follow

LeadsTo(A, word, n, q) == \E p : Path(A, word, p, n, q)

LEMMA NextOfMember ==
    \A S, c, q : q \in NextOf(S, c) <=>
                   \E p \in S : <<p, c>> \in nfa.match /\ <<p, q>> \in nfa.follow
<1> SUFFICES ASSUME NEW S, NEW c, NEW q, NEW p \in S, <<p, q>> \in nfa.follow
             PROVE  q \in { pair[2] : pair \in nfa.follow }
  BY DEF NextOf
<1> DEFINE x == <<p, q>>
<1>1. x \in nfa.follow /\ x[2] = q
  OBVIOUS
<1> HIDE DEF x
<1> QED BY <1>1

LEMMA PathOfOne ==
    ASSUME NEW A, A.first \subseteq Nat, NEW word, NEW q
    PROVE  LeadsTo(A, word, 1, q) <=>
             \E r \in A.first : <<r, word[1]>> \in A.match /\ <<r, q>> \in A.follow
<1>1. ASSUME NEW p, Path(A, word, p, 1, q)
      PROVE  p[1] \in A.first /\ <<p[1], word[1]>> \in A.match /\ <<p[1], q>> \in A.follow
  <2>1. 1 \in 0 + 1 .. 1
    OBVIOUS
  <2> QED BY <1>1, <2>1 DEF Path, Connected
<1>2. ASSUME NEW r \in A.first, <<r, word[1]>> \in A.match, <<r, q>> \in A.follow
      PROVE  LeadsTo(A, word, 1, q)
  <2> DEFINE p == [i \in 0 + 1 .. 1 |-> r]
  <2>1. p \in [0 + 1 .. 1 -> Nat] /\ p[1] = r /\ \A i \in 0 + 1 .. 1 : i = 1
    OBVIOUS
  <2>2. \A i \in 0 + 1 .. 1 - 1 : FALSE
    OBVIOUS
  <2> HIDE DEF p
  <2>3. Path(A, word, p, 1, q)
    BY <1>2, <2>1, <2>2 DEF Path, Connected
  <2> QED BY <2>3 DEF LeadsTo
<1> QED BY <1>1, <1>2 DEF LeadsTo

LEMMA PathOfMore ==
    ASSUME NEW A, A.follow \subseteq Nat \X Nat, NEW word, NEW n \in Nat, n >= 1, NEW q
    PROVE  LeadsTo(A, word, n + 1, q) <=>
             \E r : LeadsTo(A, word, n, r) /\ <<r, word[n + 1]>> \in A.match /\ <<r, q>> \in A.follow
<1>1. ASSUME NEW p, Path(A, word, p, n + 1, q)
      PROVE  /\ LeadsTo(A, word, n, p[n + 1]) /\ <<p[n + 1], word[n + 1]>> \in A.match
             /\ <<p[n + 1], q>> \in A.follow
  <2>1. /\ p \in [0 + 1 .. n + 1 -> Nat]
        /\ \A i \in 0 + 1 .. n + 1 : <<p[i], word[i]>> \in A.match
        /\ \A i \in 0 + 1 .. (n + 1) - 1 : <<p[i], p[i + 1]>> \in A.follow
        /\ p[1] \in A.first /\ <<p[n + 1], q>> \in A.follow
    BY <1>1 DEF Path, Connected
  <2> DEFINE g == [i \in 0 + 1 .. n |-> p[i]]
  <2>2. g \in [0 + 1 .. n -> Nat]
    BY <2>1
  <2>3. \A i \in 0 + 1 .. n : g[i] = p[i] /\ i \in 0 + 1 .. n + 1
    OBVIOUS
  <2>4. \A i \in 0 + 1 .. n - 1 : i \in 0 + 1 .. n /\ i + 1 \in 0 + 1 .. n /\ i \in 0 + 1 .. (n + 1) - 1
    OBVIOUS
  <2>5. n \in 0 + 1 .. n /\ 1 \in 0 + 1 .. n /\ n \in 0 + 1 .. (n + 1) - 1 /\ n + 1 \in 0 + 1 .. n + 1
    OBVIOUS
  <2> HIDE DEF g
  <2>6. Connected(A, word, g, 0, n)
    BY <2>1, <2>2, <2>3, <2>4 DEF Connected
  <2>7. g[1] \in A.first /\ <<g[n], p[n + 1]>> \in A.follow
    BY <2>1, <2>3, <2>5
  <2>8. LeadsTo(A, word, n, p[n + 1])
    BY <2>6, <2>7 DEF LeadsTo, Path
  <2> QED BY <2>1, <2>5, <2>8
<1>2. ASSUME NEW r, LeadsTo(A, word, n, r), <<r, word[n + 1]>> \in A.match, <<r, q>> \in A.follow
      PROVE  LeadsTo(A, word, n + 1, q)
  <2>1. PICK p : Path(A, word, p, n, r)
    BY <1>2 DEF LeadsTo
  <2>2. /\ p \in [0 + 1 .. n -> Nat]
        /\ \A i \in 0 + 1 .. n : <<p[i], word[i]>> \in A.match
        /\ \A i \in 0 + 1 .. n - 1 : <<p[i], p[i + 1]>> \in A.follow
        /\ p[1] \in A.first /\ <<p[n], r>> \in A.follow
    BY <2>1 DEF Path, Connected
  <2> DEFINE g == [i \in 0 + 1 .. n + 1 |-> IF i = n + 1 THEN r ELSE p[i]]
  <2>3. r \in Nat
    BY <2>2
  <2>4. \A i \in 0 + 1 .. n + 1 : i # n + 1 => i \in 0 + 1 .. n
    OBVIOUS
  <2>5. g \in [0 + 1 .. n + 1 -> Nat]
    BY <2>2, <2>3, <2>4
  <2>6. g[n + 1] = r /\ \A i \in 0 + 1 .. n : g[i] = p[i]
    OBVIOUS
  <2> HIDE DEF g
  <2>7. \A i \in 0 + 1 .. n + 1 : <<g[i], word[i]>> \in A.match
    BY <1>2, <2>2, <2>4, <2>6
  <2>8. \A i \in 0 + 1 .. (n + 1) - 1 : <<g[i], g[i + 1]>> \in A.follow
    <3> SUFFICES ASSUME NEW i \in 0 + 1 .. (n + 1) - 1 PROVE <<g[i], g[i + 1]>> \in A.follow
      OBVIOUS
    <3>1. i \in 0 + 1 .. n
      OBVIOUS
    <3>2. CASE i = n
      BY <2>2, <2>6, <3>1, <3>2
    <3>3. CASE i # n
      <4>1. i \in 0 + 1 .. n - 1 /\ i + 1 \in 0 + 1 .. n
        BY <3>3
      <4> QED BY <2>2, <2>6, <3>1, <4>1
    <3> QED BY <3>2, <3>3
  <2>9. g[1] \in A.first
    <3>1. 1 \in 0 + 1 .. n
      OBVIOUS
    <3> QED BY <2>2, <2>6, <3>1
  <2>10. Path(A, word, g, n + 1, q)
    BY <1>2, <2>5, <2>6, <2>7, <2>8, <2>9 DEF Path, Connected
  <2> QED BY <2>10 DEF LeadsTo
<1> QED BY <1>1, <1>2 DEF LeadsTo

LEMMA PositionsArePaths ==
    ASSUME nfa \in Automata, NEW input \in Seq(Alphabet)
    PROVE  \A n \in 1 .. Len(input) : \A q :
             q \in PositionsAfter(input)[n] <=> LeadsTo(nfa, input, n, q)
<1> DEFINE Same(n) == \A q : q \in PositionsAfter(input)[n] <=> LeadsTo(nfa, input, n, q)
           N == { n \in Nat : n + 1 \in 1 .. Len(input) => Same(n + 1) }
<1>1. /\ Len(input) \in Nat /\ nfa.first \subseteq Nat /\ nfa.follow \subseteq Nat \X Nat
  BY InputShape, AutomatonTypes
<1>2. 0 \in N
  <2> SUFFICES ASSUME 1 \in 1 .. Len(input) PROVE Same(1)
    OBVIOUS
  <2>1. PositionsAfter(input)[1] = NextOf(nfa.first, input[1])
    <3>1. PositionsAfter(input)[0] = nfa.first /\ 1 - 1 = 0
      BY PositionsRecursion
    <3>2. PositionsAfter(input)[1] = NextOf(PositionsAfter(input)[1 - 1], input[1])
      BY PositionsRecursion
    <3> QED BY <3>1, <3>2
  <2>2. ASSUME NEW q
        PROVE  q \in PositionsAfter(input)[1] <=> LeadsTo(nfa, input, 1, q)
    <3>1. LeadsTo(nfa, input, 1, q) <=>
            \E r \in nfa.first : <<r, input[1]>> \in nfa.match /\ <<r, q>> \in nfa.follow
      BY <1>1, PathOfOne
    <3> QED BY <2>1, <3>1, NextOfMember
  <2> QED BY <2>2
<1>3. ASSUME NEW n \in Nat, n \in N
      PROVE  n + 1 \in N
  <2> SUFFICES ASSUME (n + 1) + 1 \in 1 .. Len(input) PROVE Same((n + 1) + 1)
    OBVIOUS
  <2>1. n + 1 \in 1 .. Len(input) /\ ((n + 1) + 1) - 1 = n + 1 /\ n + 1 \in Nat /\ n + 1 >= 1
    BY <1>1
  <2>2. \A r : r \in PositionsAfter(input)[n + 1] <=> LeadsTo(nfa, input, n + 1, r)
    BY <1>3, <2>1
  <2>3. PositionsAfter(input)[(n + 1) + 1] = NextOf(PositionsAfter(input)[n + 1], input[(n + 1) + 1])
    BY <2>1, PositionsRecursion
  <2>4. ASSUME NEW q
        PROVE  q \in PositionsAfter(input)[(n + 1) + 1] <=> LeadsTo(nfa, input, (n + 1) + 1, q)
    <3>1. q \in PositionsAfter(input)[(n + 1) + 1] <=>
            \E r \in PositionsAfter(input)[n + 1] :
                <<r, input[(n + 1) + 1]>> \in nfa.match /\ <<r, q>> \in nfa.follow
      BY <2>3, NextOfMember
    <3>2. LeadsTo(nfa, input, (n + 1) + 1, q) <=>
            \E r : /\ LeadsTo(nfa, input, n + 1, r)
                   /\ <<r, input[(n + 1) + 1]>> \in nfa.match /\ <<r, q>> \in nfa.follow
      BY <1>1, <2>1, PathOfMore
    <3> QED BY <2>2, <3>1, <3>2
  <2> QED BY <2>4
<1> HIDE DEF N
<1>4. \A n \in Nat : n \in N
  BY <1>2, <1>3, Induction
<1>5. ASSUME NEW n \in 1 .. Len(input)
      PROVE  Same(n)
  <2>1. n - 1 \in Nat /\ (n - 1) + 1 = n
    BY <1>1
  <2> HIDE DEF Same
  <2>2. n - 1 \in N
    BY <1>4, <2>1
  <2> QED BY <2>1, <2>2 DEF N
<1> QED BY <1>5

-----------------------------------------------------------------------------
\* The numbers of two expressions are apart.
LEMMA PartsApart ==
    ASSUME NEW p, NEW K \in Nat, NEW A, NEW C, NEW e, NEW P, NEW Q, Composed(p, K, A, C, e, P, Q),
           NEW k \in 1 .. K, NEW m \in 1 .. K, NEW q, q \in Q[k], q \in Q[m]
    PROVE  k = m
<1>1. q \in Nat
  BY DEF Composed, WithEnd, IsPart
<1>2. ~(q < q)
  BY <1>1
<1>3. ~(k < m) /\ ~(m < k)
  BY <1>2 DEF Composed
<1> QED BY <1>3

\* What of the automaton belongs to the expression k.
LEMMA BelongsTo ==
    ASSUME NEW p, NEW K \in Nat, NEW A, NEW C, NEW e, NEW P, NEW Q, Composed(p, K, A, C, e, P, Q),
           NEW k \in 1 .. K, NEW q \in Q[k]
    PROVE  /\ q \in p.first => q \in C[k].first
           /\ \A c : <<q, c>> \in p.match => <<q, c>> \in C[k].match
           /\ \A r : <<q, r>> \in p.follow => <<q, r>> \in C[k].follow /\ r \in Q[k]
<1>1. \A m \in 1 .. K : IsPart(C[m], Q[m])
  BY DEF Composed, WithEnd
<1>2. ASSUME q \in p.first
      PROVE  q \in C[k].first
  <2>1. PICK m \in 1 .. K : q \in C[m].first
    BY <1>2 DEF Composed
  <2>2. q \in Q[m]
    BY <1>1, <2>1 DEF IsPart
  <2>3. m = k
    BY <2>2, PartsApart
  <2> QED BY <2>1, <2>3
<1>3. ASSUME NEW c, <<q, c>> \in p.match
      PROVE  <<q, c>> \in C[k].match
  <2>1. PICK m \in 1 .. K : <<q, c>> \in C[m].match
    BY <1>3 DEF Composed
  <2>2. q \in Q[m]
    BY <1>1, <2>1 DEF IsPart
  <2>3. m = k
    BY <2>2, PartsApart
  <2> QED BY <2>1, <2>3
<1>4. ASSUME NEW r, <<q, r>> \in p.follow
      PROVE  <<q, r>> \in C[k].follow /\ r \in Q[k]
  <2>1. PICK m \in 1 .. K : <<q, r>> \in C[m].follow
    BY <1>4 DEF Composed
  <2>2. q \in Q[m] /\ r \in Q[m]
    BY <1>1, <2>1 DEF IsPart
  <2>3. m = k
    BY <2>2, PartsApart
  <2> QED BY <2>1, <2>2, <2>3
<1> QED BY <1>2, <1>3, <1>4

\* A walk that leads to the end of an expression reads the expression.
LEMMA EndIsRead ==
    ASSUME NEW a, NEW K \in Nat, NEW A, NEW C, NEW e, NEW P, NEW Q, Composed(a, K, A, C, e, P, Q),
           NEW word, NEW n \in Nat, n >= 1, NEW k \in 1 .. K, LeadsTo(a, word, n, e[k])
    PROVE  Reads(A[k], word, 0, n)
<1>1. PICK p : Path(a, word, p, n, e[k])
  BY DEF LeadsTo
<1>2. /\ p \in [0 + 1 .. n -> Nat]
      /\ \A i \in 0 + 1 .. n : <<p[i], word[i]>> \in a.match
      /\ \A i \in 0 + 1 .. n - 1 : <<p[i], p[i + 1]>> \in a.follow
      /\ p[1] \in a.first /\ <<p[n], e[k]>> \in a.follow
  BY <1>1 DEF Path, Connected
<1>3. /\ C[k].first = A[k].first \cup (IF A[k].nullable THEN {e[k]} ELSE {})
      /\ C[k].follow = (A[k].last \X {e[k]}) \cup A[k].follow
      /\ C[k].match = A[k].match
      /\ IsPart(A[k], P[k]) /\ IsPart(C[k], Q[k])
      /\ e[k] \in Q[k] /\ e[k] \notin P[k]
  BY DEF Composed, WithEnd
<1>4. 1 \in 0 + 1 .. n /\ n \in 0 + 1 .. n
  OBVIOUS
<1>5. PICK m \in 1 .. K : p[1] \in Q[m]
  <2>1. PICK m \in 1 .. K : p[1] \in C[m].first
    BY <1>2 DEF Composed
  <2>2. IsPart(C[m], Q[m])
    BY DEF Composed, WithEnd
  <2> QED BY <2>1, <2>2 DEF IsPart
<1>6. \A i \in 0 + 1 .. n : p[i] \in Q[m]
  <2>1. \A q, r : <<q, r>> \in a.follow /\ q \in Q[m] => r \in Q[m]
    BY BelongsTo
  <2> DEFINE E == a.follow
             R == Q[m]
  <2>2. /\ \A i \in 0 + 1 .. n - 1 : <<p[i], p[i + 1]>> \in E
        /\ \A q, r : <<q, r>> \in E /\ q \in R => r \in R
        /\ 1 \in 0 + 1 .. n /\ p[1] \in R /\ 0 \in Nat
    BY <1>2, <1>4, <1>5, <2>1
  <2> HIDE DEF E, R
  <2>3. \A i \in 1 .. n : p[i] \in R
    BY ONLY <2>2, StaysIn
  <2> QED BY <2>3 DEF R
<1>7. m = k
  <2>1. p[n] \in Q[m] /\ <<p[n], e[k]>> \in a.follow
    BY <1>2, <1>4, <1>6
  <2>2. e[k] \in Q[m]
    BY <2>1, BelongsTo
  <2> QED BY <1>3, <2>2, PartsApart
<1> DEFINE mine == \A q \in Q[k] : /\ q \in a.first => q \in C[k].first
                                  /\ \A c : <<q, c>> \in a.match => <<q, c>> \in C[k].match
                                  /\ \A r : <<q, r>> \in a.follow => <<q, r>> \in C[k].follow
<1>8. mine
  BY BelongsTo
<1>9. \A i \in 0 + 1 .. n : p[i] \in Q[k] /\ <<p[i], word[i]>> \in A[k].match /\ p[i] \in P[k] /\ p[i] # e[k]
  <2> SUFFICES ASSUME NEW i \in 0 + 1 .. n
               PROVE  /\ p[i] \in Q[k] /\ <<p[i], word[i]>> \in A[k].match
                      /\ p[i] \in P[k] /\ p[i] # e[k]
    OBVIOUS
  <2>1. p[i] \in Q[k]
    BY <1>6, <1>7
  <2>2. <<p[i], word[i]>> \in C[k].match
    BY <1>2, <1>8, <2>1
  <2>3. <<p[i], word[i]>> \in A[k].match
    BY <1>3, <2>2
  <2>4. p[i] \in P[k]
    BY <1>3, <2>3 DEF IsPart
  <2> QED BY <1>3, <2>1, <2>3, <2>4
<1>10. p[1] \in A[k].first
  <2>1. p[1] \in C[k].first
    BY <1>2, <1>4, <1>9, <1>8
  <2> QED BY <1>3, <1>4, <1>9, <2>1
<1>11. p[n] \in A[k].last
  <2>1. <<p[n], e[k]>> \in C[k].follow
    BY <1>2, <1>4, <1>9, <1>8
  <2>2. <<p[n], e[k]>> \notin A[k].follow
    BY <1>3 DEF IsPart
  <2> QED BY <1>3, <2>1, <2>2
<1>12. \A i \in 0 + 1 .. n - 1 : <<p[i], p[i + 1]>> \in A[k].follow
  <2> SUFFICES ASSUME NEW i \in 0 + 1 .. n - 1 PROVE <<p[i], p[i + 1]>> \in A[k].follow
    OBVIOUS
  <2>1. i \in 0 + 1 .. n /\ i + 1 \in 0 + 1 .. n
    OBVIOUS
  <2>2. <<p[i], p[i + 1]>> \in C[k].follow
    BY <1>2, <1>9, <1>8, <2>1
  <2>3. p[i + 1] # e[k]
    BY <1>9, <2>1
  <2> QED BY <1>3, <2>2, <2>3
<1>13. Walk(A[k], word, p, 0, n)
  <2>1. 0 < n /\ p[0 + 1] \in A[k].first
    BY <1>10
  <2> QED BY <1>2, <1>9, <1>11, <1>12, <2>1 DEF Walk, Connected
<1> QED BY <1>13 DEF Reads

\* And the walks that read it lead there.
LEMMA ReadsToEnd ==
    ASSUME NEW a, NEW K \in Nat, NEW A, NEW C, NEW e, NEW P, NEW Q, Composed(a, K, A, C, e, P, Q),
           NEW word, NEW n \in Nat, n >= 1, NEW k \in 1 .. K, Reads(A[k], word, 0, n)
    PROVE  LeadsTo(a, word, n, e[k])
<1>1. PICK p : Walk(A[k], word, p, 0, n)
  BY DEF Reads
<1>2. /\ p \in [0 + 1 .. n -> Nat]
      /\ \A i \in 0 + 1 .. n : <<p[i], word[i]>> \in A[k].match
      /\ \A i \in 0 + 1 .. n - 1 : <<p[i], p[i + 1]>> \in A[k].follow
      /\ p[1] \in A[k].first /\ p[n] \in A[k].last
  <2>1. 0 + 1 = 1
    OBVIOUS
  <2>2. Connected(A[k], word, p, 0, n) /\ p[0 + 1] \in A[k].first /\ p[n] \in A[k].last
    BY <1>1 DEF Walk
  <2> QED BY <2>1, <2>2 DEF Connected
<1>3. /\ A[k].first \subseteq C[k].first
      /\ C[k].follow = (A[k].last \X {e[k]}) \cup A[k].follow
      /\ C[k].match = A[k].match
  BY DEF Composed, WithEnd
<1>4. p[1] \in C[k].first /\ <<p[n], e[k]>> \in C[k].follow
  BY <1>2, <1>3
<1>5. p[1] \in a.first /\ <<p[n], e[k]>> \in a.follow
  BY <1>4 DEF Composed
<1>6. \A x : x \in A[k].match => x \in a.match
  BY <1>3 DEF Composed
<1>7. \A x : x \in A[k].follow => x \in a.follow
  <2>1. \A x : x \in A[k].follow => x \in C[k].follow
    BY <1>3
  <2> QED BY <2>1 DEF Composed
<1>8. Path(a, word, p, n, e[k])
  BY <1>2, <1>5, <1>6, <1>7 DEF Path, Connected
<1> QED BY <1>8 DEF LeadsTo

-----------------------------------------------------------------------------
LEMMA ReadsTheSame ==
    ASSUME NEW A, NEW word, NEW other, NEW n \in Nat, \A i \in 1 .. n : word[i] = other[i],
           Reads(A, word, 0, n)
    PROVE  Reads(A, other, 0, n)
<1>1. \A i \in 0 + 1 .. n : word[i] = other[i]
  OBVIOUS
<1>2. ASSUME NEW p, Walk(A, word, p, 0, n)
      PROVE  Walk(A, other, p, 0, n)
  BY <1>1, <1>2 DEF Walk, Connected
<1> QED BY <1>2 DEF Reads

LEMMA BeginningShape ==
    ASSUME NEW input \in Seq(Alphabet), NEW n \in 0 .. Len(input)
    PROVE  LET word == SubSeq(input, 1, n)
           IN  Len(word) = n /\ \A i \in 1 .. n : word[i] = input[i]
<1>1. Len(input) \in Nat
  BY InputShape
<1>2. n \in Nat /\ SubSeq(input, 1, n) = [i \in 1 .. (1 + n) - 1 |-> input[(i + 1) - 1]]
  BY <1>1
<1> QED BY <1>1

\* An expression describes the beginning of an input that is read.
LEMMA DescribesBeginning ==
    ASSUME NEW A, NEW regex, ReadsLanguage(A, regex), NEW input \in Seq(Alphabet),
           NEW n \in 0 .. Len(input)
    PROVE  Describes(regex, SubSeq(input, 1, n)) <=> Reads(A, input, 0, n)
<1> DEFINE word == SubSeq(input, 1, n)
<1>1. n \in Nat /\ Len(word) = n /\ \A i \in 1 .. n : word[i] = input[i]
  <2>1. Len(input) \in Nat
    BY InputShape
  <2> QED BY <2>1, BeginningShape
<1> HIDE DEF word
<1>2. Agree(A, word, Spans(regex, word)[Len(regex)])
  BY <1>1 DEF ReadsLanguage
<1>3. 0 \in Places(word) /\ n \in Places(word)
  BY <1>1 DEF Places
<1>4. Reads(A, word, 0, n) <=> <<0, n>> \in Spans(regex, word)[Len(regex)]
  BY <1>2, <1>3 DEF Agree
<1>5. Describes(regex, word) <=> Reads(A, word, 0, n)
  BY <1>1, <1>4 DEF Describes
<1>6. Reads(A, word, 0, n) <=> Reads(A, input, 0, n)
  <2>1. \A i \in 1 .. n : input[i] = word[i]
    BY <1>1
  <2> QED BY <1>1, <2>1, ReadsTheSame
<1> QED BY <1>5, <1>6 DEF word

\* The eof positions ascend with the expressions, so that they are counted.
LEMMA EndsCounted ==
    ASSUME NEW K \in Nat, NEW e, \A k \in 1 .. K : e[k] \in Nat,
           \A k, m \in 1 .. K : k < m => e[k] < e[m],
           NEW S, \A x : x \in S <=> \E k \in 1 .. K : x = e[k],
           NEW k \in 1 .. K
    PROVE  Cardinality({ x \in S : x < e[k] }) = k - 1
<1> DEFINE First(n) == { e[i] : i \in 1 .. n }
           N == { n \in Nat : n <= K => IsFiniteSet(First(n)) /\ Cardinality(First(n)) = n }
<1>1. 0 \in N
  <2>1. First(0) = {}
    OBVIOUS
  <2> QED BY <2>1, FS_EmptySet
<1>2. ASSUME NEW n \in Nat, n \in N
      PROVE  n + 1 \in N
  <2> SUFFICES ASSUME n + 1 <= K
               PROVE  IsFiniteSet(First(n + 1)) /\ Cardinality(First(n + 1)) = n + 1
    OBVIOUS
  <2>1. IsFiniteSet(First(n)) /\ Cardinality(First(n)) = n
    BY <1>2
  <2>2. First(n + 1) = First(n) \cup {e[n + 1]}
    <3>1. \A i : i \in 1 .. n + 1 <=> i \in 1 .. n \/ i = n + 1
      OBVIOUS
    <3> QED BY <3>1
  <2>3. e[n + 1] \notin First(n)
    <3> SUFFICES ASSUME NEW i \in 1 .. n PROVE e[i] # e[n + 1]
      OBVIOUS
    <3>1. i \in 1 .. K /\ n + 1 \in 1 .. K /\ i < n + 1
      OBVIOUS
    <3>2. e[i] < e[n + 1] /\ e[i] \in Nat
      BY <3>1
    <3> QED BY <3>2
  <2> DEFINE front == First(n)
             last == e[n + 1]
  <2>4. IsFiniteSet(front) /\ Cardinality(front) = n /\ last \notin front
    BY <2>1, <2>3
  <2> HIDE DEF First, front, last
  <2>5. IsFiniteSet(front \cup {last}) /\ Cardinality(front \cup {last}) = n + 1
    BY <2>4, FS_AddElement
  <2> QED BY <2>2, <2>5 DEF front, last
<1> HIDE DEF N
<1>3. \A n \in Nat : n \in N
  BY <1>1, <1>2, Induction
<1>4. { x \in S : x < e[k] } = First(k - 1)
  <2>1. ASSUME NEW i \in 1 .. K
        PROVE  e[i] < e[k] <=> i \in 1 .. k - 1
    <3>1. e[i] \in Nat /\ e[k] \in Nat
      OBVIOUS
    <3>2. CASE i < k
      BY <3>2
    <3>3. CASE i = k
      BY <3>1, <3>3
    <3>4. CASE k < i
      <4>1. e[k] < e[i]
        BY <3>4
      <4> QED BY <3>1, <3>4, <4>1
    <3> QED BY <3>2, <3>3, <3>4
  <2>2. \A i \in 1 .. k - 1 : i \in 1 .. K
    OBVIOUS
  <2> QED BY <2>1, <2>2
<1>5. k - 1 \in N /\ k - 1 <= K /\ k - 1 \in Nat
  BY <1>3
<1> QED BY <1>4, <1>5 DEF N

-----------------------------------------------------------------------------
\* The automaton of a list of expressions.
LEMMA AutomatonReadsList ==
    ASSUME nfa \in Automata
    PROVE  /\ Len(nfa.regexes) \in Nat \ {0} /\ DOMAIN nfa.regexes = 1 .. Len(nfa.regexes)
           /\ ReadsList(nfa, nfa.regexes)
<1>1. PICK regexes \in RegexLists : nfa = AutomatonOf(regexes)
  BY AutomataOfLists
<1>2. IsList(regexes, Alphabet)
  <2>1. /\ regexes \in Seq(Seq(Nodes(Alphabet))) /\ regexes # <<>>
        /\ \A r \in DOMAIN regexes : IsExpression(regexes[r], Alphabet)
    BY RegexListsAssumption
  <2>2. Len(regexes) \in Nat \ {0} /\ DOMAIN regexes = 1 .. Len(regexes)
    BY <2>1, LenProperties, EmptySeq
  <2> QED BY <2>1, <2>2 DEF IsList
<1>3. ReadsList(Positions(regexes, Alphabet), regexes)
  BY <1>2, ListComposed
<1> DEFINE p == Positions(regexes, Alphabet)
<1>4. nfa = [ regexes |-> regexes, first |-> p.first, follow |-> p.follow,
              match |-> p.match, eof |-> p.eof ]
  BY <1>1 DEF AutomatonOf
<1> HIDE DEF p
<1>5. /\ nfa.regexes = regexes /\ nfa.first = p.first /\ nfa.follow = p.follow
      /\ nfa.match = p.match /\ nfa.eof = p.eof
  BY <1>4
<1>6. ReadsList(nfa, regexes)
  <2>1. PICK A, C, e, P, Q :
           /\ Composed(p, Len(regexes), A, C, e, P, Q)
           /\ \A k \in 1 .. Len(regexes) : ReadsLanguage(A[k], regexes[k])
    BY <1>3 DEF ReadsList, p
  <2>2. Composed(nfa, Len(regexes), A, C, e, P, Q)
    BY <1>5, <2>1 DEF Composed
  <2> QED BY <2>1, <2>2 DEF ReadsList
<1> QED BY <1>2, <1>5, <1>6 DEF IsList

LEMMA EndsOfParts ==
    ASSUME NEW p, NEW K \in Nat, NEW A, NEW C, NEW e, NEW P, NEW Q, Composed(p, K, A, C, e, P, Q)
    PROVE  /\ \A k \in 1 .. K : e[k] \in Nat
           /\ \A k, m \in 1 .. K : k < m => e[k] < e[m]
<1>1. \A k \in 1 .. K : e[k] \in Q[k] /\ Q[k] \subseteq Nat
  BY DEF Composed, WithEnd, IsPart
<1> QED BY <1>1 DEF Composed

\* The ends that the automaton can reach, in the numbers of the expressions.
LEMMA EndsReached ==
    ASSUME nfa \in Automata
    PROVE  \E e :
             /\ \A k \in DOMAIN nfa.regexes : e[k] \in Nat /\ EofIndex(e[k]) = k - 1
             /\ \A k, m \in DOMAIN nfa.regexes : k < m => e[k] < e[m]
             /\ \A x : x \in nfa.eof <=> \E k \in DOMAIN nfa.regexes : x = e[k]
             /\ \A input \in Seq(Alphabet) : \A n \in 1 .. Len(input) : \A k \in DOMAIN nfa.regexes :
                  e[k] \in PositionsAfter(input)[n]
                    <=> Describes(nfa.regexes[k], SubSeq(input, 1, n))
<1> DEFINE K == Len(nfa.regexes)
<1>1. K \in Nat /\ DOMAIN nfa.regexes = 1 .. K /\ ReadsList(nfa, nfa.regexes)
  BY AutomatonReadsList
<1> HIDE DEF K
<1>2. PICK A, C, e, P, Q :
         /\ Composed(nfa, K, A, C, e, P, Q)
         /\ \A k \in 1 .. K : ReadsLanguage(A[k], nfa.regexes[k])
  BY <1>1 DEF ReadsList, K
<1>3. /\ \A k \in 1 .. K : e[k] \in Nat
      /\ \A k, m \in 1 .. K : k < m => e[k] < e[m]
  BY <1>1, <1>2, EndsOfParts
<1>4. \A x : x \in nfa.eof <=> \E k \in 1 .. K : x = e[k]
  BY <1>2 DEF Composed
<1>5. ASSUME NEW k \in 1 .. K
      PROVE  EofIndex(e[k]) = k - 1
  BY <1>1, <1>3, <1>4, EndsCounted DEF EofIndex
<1>6. ASSUME NEW input \in Seq(Alphabet), NEW n \in 1 .. Len(input), NEW k \in 1 .. K
      PROVE  e[k] \in PositionsAfter(input)[n] <=> Describes(nfa.regexes[k], SubSeq(input, 1, n))
  <2>1. n \in 0 .. Len(input) /\ n \in Nat /\ n >= 1
    <3>1. Len(input) \in Nat
      BY InputShape
    <3> QED BY <3>1
  <2>2. e[k] \in PositionsAfter(input)[n] <=> LeadsTo(nfa, input, n, e[k])
    BY PositionsArePaths
  <2>3. LeadsTo(nfa, input, n, e[k]) => Reads(A[k], input, 0, n)
    BY <1>1, <1>2, <2>1, EndIsRead
  <2>4. Reads(A[k], input, 0, n) => LeadsTo(nfa, input, n, e[k])
    BY <1>1, <1>2, <2>1, ReadsToEnd
  <2>5. Describes(nfa.regexes[k], SubSeq(input, 1, n)) <=> Reads(A[k], input, 0, n)
    BY <1>2, <2>1, DescribesBeginning
  <2> QED BY <2>2, <2>3, <2>4, <2>5
<1> QED BY <1>1, <1>3, <1>4, <1>5, <1>6

\* The sets of the definition of LongestFirst, by the positions.
LEMMA LengthsOfTokens ==
    ASSUME nfa \in Automata, NEW input \in Seq(Alphabet)
    PROVE  MatchLengths(input) = TokenLengths(input)
<1>1. PICK e :
        /\ \A x : x \in nfa.eof <=> \E k \in DOMAIN nfa.regexes : x = e[k]
        /\ \A n \in 1 .. Len(input) : \A k \in DOMAIN nfa.regexes :
             e[k] \in PositionsAfter(input)[n]
               <=> Describes(nfa.regexes[k], SubSeq(input, 1, n))
  <2>1. PICK e :
         /\ \A k \in DOMAIN nfa.regexes : e[k] \in Nat /\ EofIndex(e[k]) = k - 1
         /\ \A k, m \in DOMAIN nfa.regexes : k < m => e[k] < e[m]
         /\ \A x : x \in nfa.eof <=> \E k \in DOMAIN nfa.regexes : x = e[k]
         /\ \A i \in Seq(Alphabet) : \A n \in 1 .. Len(i) : \A k \in DOMAIN nfa.regexes :
              e[k] \in PositionsAfter(i)[n]
                <=> Describes(nfa.regexes[k], SubSeq(i, 1, n))
    BY EndsReached
  <2> QED BY <2>1
<1>2. ASSUME NEW n \in 1 .. Len(input)
      PROVE  PositionsAfter(input)[n] \cap nfa.eof # {}
               <=> \E k \in DOMAIN nfa.regexes : Describes(nfa.regexes[k], SubSeq(input, 1, n))
  BY <1>1
<1> QED BY <1>2 DEF MatchLengths, TokenLengths

LEMMA FirstOfDescribing ==
    ASSUME nfa \in Automata, NEW input \in Seq(Alphabet), NEW n \in 1 .. Len(input), NEW index,
           FirstEof(input, n, index)
    PROVE  LET word == SubSeq(input, 1, n)
           IN  Index(index) \in Describing(word) /\ \A r \in Describing(word) : Index(index) <= r
<1> DEFINE word == SubSeq(input, 1, n)
           positions == PositionsAfter(input)[n]
<1>1. PICK e :
        /\ \A k \in DOMAIN nfa.regexes : e[k] \in Nat /\ EofIndex(e[k]) = k - 1
        /\ \A k, m \in DOMAIN nfa.regexes : k < m => e[k] < e[m]
        /\ \A x : x \in nfa.eof <=> \E k \in DOMAIN nfa.regexes : x = e[k]
        /\ \A i \in Seq(Alphabet) : \A m \in 1 .. Len(i) : \A k \in DOMAIN nfa.regexes :
             e[k] \in PositionsAfter(i)[m]
               <=> Describes(nfa.regexes[k], SubSeq(i, 1, m))
  BY EndsReached
<1>2. \A k \in DOMAIN nfa.regexes : e[k] \in positions <=> k \in Describing(word)
  BY <1>1 DEF Describing
<1>3. PICK x \in positions \cap nfa.eof :
        /\ \A f \in positions \cap nfa.eof : x <= f
        /\ index = EofIndex(x)
  BY DEF FirstEof
<1> HIDE DEF word, positions
<1>4. PICK k \in DOMAIN nfa.regexes : x = e[k]
  BY <1>1
<1>5. DOMAIN nfa.regexes \subseteq Nat
  BY AutomatonReadsList
<1>6. Index(index) = k
  <2>1. EofIndex(e[k]) = k - 1 /\ k \in Nat
    BY <1>1, <1>5
  <2> QED BY <1>3, <1>4, <2>1 DEF Index
<1>7. k \in Describing(word)
  BY <1>2, <1>3, <1>4
<1>8. ASSUME NEW r \in Describing(word)
      PROVE  k <= r
  <2>1. r \in DOMAIN nfa.regexes
    BY DEF Describing
  <2>2. e[r] \in positions /\ e[r] \in nfa.eof
    BY <1>1, <1>2, <2>1
  <2>3. e[k] <= e[r]
    BY <1>3, <1>4, <2>2
  <2>4. r < k => e[r] < e[k]
    BY <1>1, <2>1
  <2>5. e[k] \in Nat /\ e[r] \in Nat /\ k \in Nat /\ r \in Nat
    BY <1>1, <1>5, <2>1
  <2> QED BY <2>3, <2>4, <2>5
<1> QED BY <1>6, <1>7, <1>8 DEF word

\* What begins with the same characters.
LEMMA BeginningsOfBeginnings ==
    ASSUME NEW input \in Seq(Alphabet), NEW m \in 0 .. Len(input), NEW n \in m .. Len(input)
    PROVE  IsPrefix(SubSeq(input, 1, m), SubSeq(input, 1, n)) /\ IsPrefix(SubSeq(input, 1, n), input)
<1>1. Len(input) \in Nat /\ m \in Nat /\ n \in Nat /\ n \in 0 .. Len(input)
  BY InputShape
<1> DEFINE short == SubSeq(input, 1, m)
           long == SubSeq(input, 1, n)
<1>2. Len(short) = m /\ \A i \in 1 .. m : short[i] = input[i]
  BY <1>1, BeginningShape
<1>3. Len(long) = n /\ \A i \in 1 .. n : long[i] = input[i]
  BY <1>1, BeginningShape
<1> HIDE DEF short, long
<1>4. SubSeq(short, 1, m) = SubSeq(long, 1, m)
  <2>1. SubSeq(short, 1, m) = [i \in 1 .. (1 + m) - 1 |-> short[(i + 1) - 1]]
    BY <1>1
  <2>2. SubSeq(long, 1, m) = [i \in 1 .. (1 + m) - 1 |-> long[(i + 1) - 1]]
    BY <1>1
  <2>3. \A i \in 1 .. (1 + m) - 1 : short[(i + 1) - 1] = long[(i + 1) - 1]
    <3> SUFFICES ASSUME NEW i \in 1 .. (1 + m) - 1 PROVE short[(i + 1) - 1] = long[(i + 1) - 1]
      OBVIOUS
    <3>1. i \in 1 .. m /\ i \in 1 .. n /\ (i + 1) - 1 = i
      BY <1>1
    <3> QED BY <1>2, <1>3, <3>1
  <2> QED BY <2>1, <2>2, <2>3
<1>5. SubSeq(long, 1, n) = SubSeq(input, 1, n)
  <2>1. SubSeq(long, 1, n) = [i \in 1 .. (1 + n) - 1 |-> long[(i + 1) - 1]]
    BY <1>1
  <2>2. SubSeq(input, 1, n) = [i \in 1 .. (1 + n) - 1 |-> input[(i + 1) - 1]]
    BY <1>1
  <2>3. \A i \in 1 .. (1 + n) - 1 : long[(i + 1) - 1] = input[(i + 1) - 1]
    <3> SUFFICES ASSUME NEW i \in 1 .. (1 + n) - 1 PROVE long[(i + 1) - 1] = input[(i + 1) - 1]
      OBVIOUS
    <3>1. i \in 1 .. n /\ (i + 1) - 1 = i
      BY <1>1
    <3> QED BY <1>3, <3>1
  <2> QED BY <2>1, <2>2, <2>3
<1>6. IsPrefix(short, long)
  BY <1>1, <1>2, <1>3, <1>4 DEF IsPrefix
<1>7. IsPrefix(long, input)
  BY <1>1, <1>3, <1>5 DEF IsPrefix
<1> QED BY <1>6, <1>7 DEF short, long

\* A complete table recognises what LongestFirst says.
LEMMA MatchIsFirst ==
    ASSUME MatchInv, m_compiled_dfa
    PROVE  LongestFirst
<1> SUFFICES ASSUME NEW input \in Inputs
             PROVE  LET result == do_match(input)
                        lengths == TokenLengths(input)
                    IN  /\ result.matched = (lengths # {})
                        /\ result.matched =>
                             /\ result.length \in lengths
                             /\ \A n \in lengths : n <= result.length
                             /\ IsPrefix(SubSeq(input, 1, result.length), result.token)
                             /\ IsPrefix(result.token, input)
                             /\ Index(result.regex_index) \in Describing(SubSeq(input, 1, result.length))
                             /\ \A r \in Describing(SubSeq(input, 1, result.length)) :
                                  Index(result.regex_index) <= r
  BY DEF LongestFirst
<1> DEFINE result == do_match(input)
           lengths == TokenLengths(input)
<1>1. input \in Seq(Alphabet)
  BY DEF Inputs
<1>2. nfa \in Automata
  BY DEF MatchInv, SubsetInv, VectorTypes
<1>3. LongestMatch(input) /\ MatchLengths(input) = lengths
  BY <1>1, <1>2, MatchIsLongest, LengthsOfTokens
<1> HIDE DEF result, lengths
<1>4. CASE lengths = {}
  <2>1. result = [matched |-> FALSE]
    BY <1>3, <1>4 DEF LongestMatch, result
  <2>2. result.matched = FALSE
    BY <2>1
  <2> QED BY <1>4, <2>2 DEF result, lengths
<1>5. CASE lengths # {}
  <2>1. /\ result.matched
        /\ result.length \in lengths
        /\ \A n \in lengths : n <= result.length
        /\ FirstEof(input, result.length, result.regex_index)
        /\ \E n \in result.length .. Len(input) : result.token = SubSeq(input, 1, n)
    BY <1>3, <1>5, Zenon DEF LongestMatch, result
  <2>2. result.matched = (lengths # {})
    BY <1>5, <2>1, Zenon
  <2>3. result.length \in 1 .. Len(input) /\ Len(input) \in Nat
    <3>1. lengths \subseteq 1 .. Len(input)
      BY DEF lengths, TokenLengths
    <3> QED BY <1>1, <2>1, <3>1, InputShape
  <2>4. /\ Index(result.regex_index) \in Describing(SubSeq(input, 1, result.length))
        /\ \A r \in Describing(SubSeq(input, 1, result.length)) : Index(result.regex_index) <= r
    BY <1>1, <1>2, <2>1, <2>3, FirstOfDescribing
  <2>5. /\ IsPrefix(SubSeq(input, 1, result.length), result.token)
        /\ IsPrefix(result.token, input)
    <3>1. PICK n \in result.length .. Len(input) : result.token = SubSeq(input, 1, n)
      BY <2>1
    <3>2. result.length \in 0 .. Len(input)
      BY <2>3
    <3> QED BY <1>1, <3>1, <3>2, BeginningsOfBeginnings
  <2> QED BY <2>1, <2>2, <2>4, <2>5, Zenon DEF result, lengths
<1> QED BY <1>4, <1>5

(***************************************************************************)
(* The lexer over the expressions of any list: next_token recognises the   *)
(* longest token that an expression of the list describes, names the first *)
(* expression that describes it, hands on a text that begins with it, and  *)
(* recognises nothing only if no expression describes a beginning of the   *)
(* input.                                                                  *)
(***************************************************************************)
THEOREM LexerTakesLongestFirst == SubsetSpec => []LongestFirst
<1>1. SubsetSpec => []MatchInv
  BY InitMatchInv, StepKeepsMatchInv, PTL DEF SubsetSpec
<1>2. MatchInv => LongestFirst
  BY MatchIsFirst DEF LongestFirst
<1> QED BY <1>1, <1>2, PTL

=============================================================================
