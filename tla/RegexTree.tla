----------------------------- MODULE RegexTree ------------------------------
(***************************************************************************)
(* The syntax trees that the lexer generator of lexer.h builds from the    *)
(* regular expressions of its tokens, and what it computes from them: the  *)
(* positions (leaves) that can come first, last and after one another.     *)
(* Next to it, the language of an expression, defined without positions.   *)
(*                                                                         *)
(* A tree is the sequence of its nodes, each behind its operands; size is  *)
(* the number of nodes of the tree that ends at a node.  So m_right of a   *)
(* node is the one before it, and m_left the one before that tree.         *)
(***************************************************************************)
EXTENDS Naturals, Sequences, FiniteSets

Node(kind, chars, size) == [kind |-> kind, match |-> chars, size |-> size]

Unary(l, kind)     == Append(l, Node(kind, {}, Len(l) + 1))
Binary(l, r, kind) == Append(l \o r, Node(kind, {}, Len(l) + Len(r) + 1))

\* char_node and ccl_node differ in how they store the characters they match.
Ccl(chars) == <<Node("ccl", chars, 1)>>
Epsilon    == <<Node("epsilon", {}, 1)>>
Eof        == <<Node("eof", {}, 1)>>
Or(l, r)   == Binary(l, r, "or")
Cat(l, r)  == Binary(l, r, "cat")
Star(l)    == Unary(l, "star")

\* make_plus clones the operand, make_optional adds an epsilon_node.
Plus(l)     == Cat(l, Star(l))
Optional(l) == Or(l, Epsilon)

Leaf(node)     == node.kind \in {"ccl", "epsilon", "eof"}
IsBinary(node) == node.kind \in {"or", "cat"}

\* The places of the operands of the node at n; a star_node has a left one only.
m_right(t, n) == n - 1
m_left(t, n)  == IF IsBinary(t[n]) THEN n - 1 - t[n - 1].size ELSE n - 1

(***************************************************************************)
(* The trees: of nodes whose operands end in front of them.                *)
(***************************************************************************)
Nodes(chars) ==
    [kind : {"ccl", "epsilon", "eof", "or", "cat", "star"}, match : SUBSET chars, size : Nat]

HasOperands(t, n) ==
    /\ t[n].size \in 1 .. n
    /\ Leaf(t[n]) => t[n].size = 1
    /\ ~Leaf(t[n]) => n > 1
    /\ t[n].kind = "star" => t[n].size = t[n - 1].size + 1
    /\ IsBinary(t[n]) => /\ m_left(t, n) >= 1
                        /\ t[n].size = t[n - 1].size + t[m_left(t, n)].size + 1

IsForest(t, chars) == t \in Seq(Nodes(chars)) /\ \A n \in DOMAIN t : HasOperands(t, n)

IsTree(t, chars) == IsForest(t, chars) /\ t # <<>> /\ t[Len(t)].size = Len(t)

\* What parse makes of the text of an expression, before the eof_node is added.
IsExpression(t, chars) == IsTree(t, chars) /\ \A n \in DOMAIN t : t[n].kind # "eof"

-----------------------------------------------------------------------------
\* assign_node_ids: the number of a leaf is that of the leaves left of it.
m_node_num(t, n) == Cardinality({ m \in 1 .. n - 1 : Leaf(t[m]) })

(***************************************************************************)
(* What the methods of a node return, from its number and from what those  *)
(* of its operands l and r returned.                                       *)
(***************************************************************************)
nullable(kind, l, r) ==
    \/ kind \in {"epsilon", "star"}
    \/ kind = "or"  /\ (l.nullable \/ r.nullable)
    \/ kind = "cat" /\ l.nullable /\ r.nullable

firstpos(kind, num, l, r) ==
    CASE kind \in {"ccl", "eof"} -> {num}
      [] kind = "epsilon" -> {}
      [] kind = "star" -> l.first
      [] kind = "or" -> l.first \cup r.first
      [] kind = "cat" -> l.first \cup (IF l.nullable THEN r.first ELSE {})

lastpos(kind, num, l, r) ==
    CASE kind \in {"ccl", "eof"} -> {num}
      [] kind = "epsilon" -> {}
      [] kind = "star" -> l.last
      [] kind = "or" -> l.last \cup r.last
      [] kind = "cat" -> r.last \cup (IF r.nullable THEN l.last ELSE {})

\* compute_followpos, as a set of pairs.
followpos(kind, l, r) ==
    CASE kind \in {"ccl", "epsilon", "eof"} -> {}
      [] kind = "or" -> l.follow \cup r.follow
      [] kind = "star" -> (l.last \X l.first) \cup l.follow
      [] kind = "cat" -> (l.last \X r.first) \cup l.follow \cup r.follow

\* compute_state_match, as the set of pairs <<position, character>> that are 1;
\* chars is the alphabet, which an epsilon_node matches entirely.
state_match(node, num, chars, l, r) ==
    CASE node.kind = "ccl" -> {num} \X node.match
      [] node.kind = "epsilon" -> {num} \X chars
      [] node.kind = "eof" -> {}
      [] node.kind = "star" -> l.match
      [] IsBinary(node) -> l.match \cup r.match

get_eof_ids(kind, num, l, r) ==
    CASE kind = "eof" -> {num}
      [] kind \in {"ccl", "epsilon"} -> {}
      [] kind = "star" -> l.eof
      [] kind \in {"or", "cat"} -> l.eof \cup r.eof

AttributesAt(node, num, chars, l, r) ==
    [ nullable |-> nullable(node.kind, l, r),
      first    |-> firstpos(node.kind, num, l, r),
      last     |-> lastpos(node.kind, num, l, r),
      follow   |-> followpos(node.kind, l, r),
      match    |-> state_match(node, num, chars, l, r),
      eof      |-> get_eof_ids(node.kind, num, l, r) ]

\* All of it, for every node of a tree.
Attributes(t, chars) ==
    LET at[n \in DOMAIN t] ==
          AttributesAt(t[n], m_node_num(t, n), chars, at[m_left(t, n)], at[m_right(t, n)])
    IN  at

\* parse_regexes: each expression is followed by an eof_node of its own (parse),
\* and the tree of each further one becomes the right side of an or_node.
parse_regexes(regexes) ==
    LET tree[k \in DOMAIN regexes] ==
          LET last == Cat(regexes[k], Eof)
          IN  IF k = 1 THEN last ELSE Or(tree[k - 1], last)
    IN  tree[Len(regexes)]

\* What create_dfa_for_state takes from the tree.
Positions(regexes, chars) ==
    LET tree == parse_regexes(regexes)
    IN  Attributes(tree, chars)[Len(tree)]

-----------------------------------------------------------------------------
(***************************************************************************)
(* The language of an expression: between which places of a word it can    *)
(* stand, a pair <<a, b>> meaning the characters from a + 1 to b.          *)
(***************************************************************************)
Places(word) == 0 .. Len(word)

OneOf(chars, word) == { <<b - 1, b>> : b \in { i \in 1 .. Len(word) : word[i] \in chars } }

Joining(l, r, word) ==
    { ab \in Places(word) \X Places(word) :
        \E c \in Places(word) : <<ab[1], c>> \in l /\ <<c, ab[2]>> \in r }

\* The places that can be reached by any number of repetitions.
Repeating(l, word) ==
    { ab \in Places(word) \X Places(word) :
        \A S \in SUBSET Places(word) :
            (ab[1] \in S /\ \A cd \in l : cd[1] \in S => cd[2] \in S) => ab[2] \in S }

SpansAt(node, word, l, r) ==
    CASE node.kind = "ccl" -> OneOf(node.match, word)
      [] node.kind = "epsilon" -> { <<a, a>> : a \in Places(word) }
      [] node.kind = "eof" -> {}
      [] node.kind = "or" -> l \cup r
      [] node.kind = "cat" -> Joining(l, r, word)
      [] node.kind = "star" -> Repeating(l, word)

Spans(t, word) ==
    LET spans[n \in DOMAIN t] == SpansAt(t[n], word, spans[m_left(t, n)], spans[m_right(t, n)])
    IN  spans

Describes(t, word) == <<0, Len(word)>> \in Spans(t, word)[Len(t)]

=============================================================================
