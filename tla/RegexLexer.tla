----------------------------- MODULE RegexLexer -----------------------------
(***************************************************************************)
(* The lexer that the preprocessor reads its tokens from: the regular      *)
(* expressions registered for the tokens, in the order of registration,    *)
(* the table that SubsetConstruction builds for them, and next_token.      *)
(***************************************************************************)
EXTENDS SubsetConstruction, RegexTree, SequencesExt

CONSTANTS
    RegexLists,  \* the lists of expressions that can be registered
    MaxInput     \* bound on the length of the inputs that are matched

\* The automaton of a list, for the constant Automata.
AutomatonOf(regexes) ==
    LET p == Positions(regexes, Alphabet)
    IN  [ regexes |-> regexes, first |-> p.first, follow |-> p.follow,
          match |-> p.match, eof |-> p.eof ]

\* A list is not empty (parse_regexes throws otherwise).
ASSUME RegexListsAssumption ==
    \A regexes \in RegexLists :
        /\ regexes \in Seq(Seq(Nodes(Alphabet))) /\ regexes # <<>>
        /\ \A r \in DOMAIN regexes : IsExpression(regexes[r], Alphabet)

ASSUME AutomataOfLists == Automata = { AutomatonOf(regexes) : regexes \in RegexLists }

Inputs == UNION { [1 .. n -> Alphabet] : n \in 0 .. MaxInput }

\* The lengths of the tokens that the input can begin with, and the
\* expressions that describe one of them.
TokenLengths(input) ==
    { n \in 1 .. Len(input) :
        \E r \in DOMAIN nfa.regexes : Describes(nfa.regexes[r], SubSeq(input, 1, n)) }

Describing(word) == { r \in DOMAIN nfa.regexes : Describes(nfa.regexes[r], word) }

(***************************************************************************)
(* The table recognises the longest token that the input can begin with,   *)
(* and of the expressions that describe it the one registered first.  An   *)
(* empty token is never recognised, also when an expression describes the  *)
(* empty word: the lexer always gets on.  The text of the token begins     *)
(* with what is taken off the input; it may hold more, looked at and left. *)
(***************************************************************************)
LongestFirst ==
    m_compiled_dfa =>
        \A input \in Inputs :
            LET result == do_match(input)
                lengths == TokenLengths(input)
            IN  /\ result.matched = (lengths # {})
                /\ result.matched =>
                     /\ result.length \in lengths
                     /\ \A n \in lengths : n <= result.length
                     /\ IsPrefix(SubSeq(input, 1, result.length), result.token)
                     /\ IsPrefix(result.token, input)
                     /\ Index(result.regex_index) \in Describing(SubSeq(input, 1, result.length))
                     /\ \A r \in Describing(SubSeq(input, 1, result.length)) :
                          Index(result.regex_index) <= r

=============================================================================
