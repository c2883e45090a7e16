------------------------- MODULE SubsetConstruction -------------------------
(***************************************************************************)
(* create_dfa_for_state: the transition table of the lexer is built from   *)
(* the positions of the syntax tree, one entry at a time.  Four vectors    *)
(* and a map grow in step; their common index is the number of a state.    *)
(***************************************************************************)
EXTENDS Integers, Sequences, FiniteSets

CONSTANTS
    Chars,    \* the alphabet is 0 .. Chars - 1 (256 in the code)
    Automata  \* the positions, followers, matches and eof ids of syntax trees

ASSUME CharsAssumption == Chars \in Nat \ {0}

\* Positions are numbers, and a tree has finitely many of them.
ASSUME AutomataAssumption ==
    \A a \in Automata :
        /\ a.first \subseteq Nat /\ a.follow \subseteq Nat \X Nat
        /\ a.eof \subseteq Nat /\ IsFiniteSet(a.eof)

Alphabet == 0 .. Chars - 1

invalid_node == -1

VARIABLES
    nfa,               \* the member of Automata that the table is built for
    dstates,           \* dstates2, and with it its inverse dstates1
    marked,            \* whether a state has been processed yet
    transition_table,  \* one row for each state
    acceptance_index,  \* the index of the expression each state accepts
    T,                 \* the state in progress, invalid_node between two
    j,                 \* the next character to look at
    m_compiled_dfa     \* the table is complete

vars == <<nfa, dstates, marked, transition_table, acceptance_index, T, j, m_compiled_dfa>>

\* eof_node_id_map: the eof ids in ascending order, counted from 0.
EofIndex(id) == Cardinality({ e \in nfa.eof : e < id })

\* Mutant: the expression registered last is preferred.
AcceptanceIndexLast(set) ==
    IF set \cap nfa.eof = {} THEN invalid_node
    ELSE EofIndex(CHOOSE e \in set \cap nfa.eof : \A f \in set \cap nfa.eof : f <= e)

\* find_acceptance_state: the smallest eof id in the set decides.
AcceptanceIndex(set) ==
    IF set \cap nfa.eof = {} THEN invalid_node
    ELSE EofIndex(CHOOSE e \in set \cap nfa.eof : \A f \in set \cap nfa.eof : e <= f)

EmptyRow == [c \in Alphabet |-> invalid_node]

\* Vectors count from 0.
Number(n) == n - 1
Index(state) == state + 1

SubsetInit ==
    /\ nfa \in Automata
    /\ dstates = <<nfa.first>>
    /\ marked = <<FALSE>>
    /\ transition_table = <<EmptyRow>>
    /\ acceptance_index = <<AcceptanceIndex(nfa.first)>>
    /\ T = invalid_node /\ j = 0
    /\ m_compiled_dfa = FALSE

Unmarked == { n \in DOMAIN marked : ~marked[n] }

\* Mutant: the state is not marked.
MarkForgotten ==
    /\ ~m_compiled_dfa /\ T = invalid_node
    /\ \E n \in Unmarked :
         /\ \A k \in Unmarked : n <= k
         /\ T' = Number(n)
    /\ j' = 0
    /\ UNCHANGED <<nfa, dstates, marked, transition_table, acceptance_index, m_compiled_dfa>>

\* std::find: the first state that is not marked.
Mark ==
    /\ ~m_compiled_dfa /\ T = invalid_node
    /\ \E n \in Unmarked :
         /\ \A k \in Unmarked : n <= k
         /\ marked' = [marked EXCEPT ![n] = TRUE]
         /\ T' = Number(n)
    /\ j' = 0
    /\ UNCHANGED <<nfa, dstates, transition_table, acceptance_index, m_compiled_dfa>>

\* The positions that can follow those in the state that match the character.
Followers(state, c) ==
    { f[2] : f \in { pair \in nfa.follow : /\ pair[1] \in dstates[Index(state)]
                                           /\ <<pair[1], c>> \in nfa.match } }

\* Mutant: only the state in progress is compared with the set.
TargetStateOrNew(U) == IF dstates[Index(T)] = U THEN T ELSE Len(dstates)

\* The state of a set: the one it has, or the next number.
TargetState(U) ==
    IF \E n \in DOMAIN dstates : dstates[n] = U
    THEN Number(CHOOSE n \in DOMAIN dstates : dstates[n] = U)
    ELSE Len(dstates)

\* Mutant: a state that accepts nothing is not entered in acceptance_index.
EnterAccepting ==
    /\ T # invalid_node /\ j < Chars
    /\ LET U == Followers(T, j)
           target == TargetState(U)
           isNew == U # {} /\ target = Len(dstates)
       IN  /\ dstates' = IF isNew THEN Append(dstates, U) ELSE dstates
           /\ marked' = IF isNew THEN Append(marked, FALSE) ELSE marked
           /\ acceptance_index' = IF isNew /\ U \cap nfa.eof # {}
                                  THEN Append(acceptance_index, AcceptanceIndex(U))
                                  ELSE acceptance_index
           /\ LET table == IF isNew THEN Append(transition_table, EmptyRow) ELSE transition_table
              IN  transition_table' = IF U = {} THEN table
                                      ELSE [table EXCEPT ![Index(T)][j] = target]
    /\ j' = j + 1
    /\ UNCHANGED <<nfa, T, m_compiled_dfa>>

\* One pass of the inner loop.
Enter ==
    /\ T # invalid_node /\ j < Chars
    /\ LET U == Followers(T, j)
           target == TargetState(U)
           isNew == U # {} /\ target = Len(dstates)
       IN  /\ dstates' = IF isNew THEN Append(dstates, U) ELSE dstates
           /\ marked' = IF isNew THEN Append(marked, FALSE) ELSE marked
           /\ acceptance_index' = IF isNew THEN Append(acceptance_index, AcceptanceIndex(U))
                                  ELSE acceptance_index
           /\ LET table == IF isNew THEN Append(transition_table, EmptyRow) ELSE transition_table
              IN  transition_table' = IF U = {} THEN table
                                      ELSE [table EXCEPT ![Index(T)][j] = target]
    /\ j' = j + 1
    /\ UNCHANGED <<nfa, T, m_compiled_dfa>>

EndOfRow ==
    /\ T # invalid_node /\ j = Chars
    /\ T' = invalid_node
    /\ UNCHANGED <<nfa, dstates, marked, transition_table, acceptance_index, j, m_compiled_dfa>>

Finish ==
    /\ ~m_compiled_dfa /\ T = invalid_node /\ Unmarked = {}
    /\ m_compiled_dfa' = TRUE
    /\ UNCHANGED <<nfa, dstates, marked, transition_table, acceptance_index, T, j>>

SubsetNext == Mark \/ Enter \/ EndOfRow \/ Finish

SubsetSpec == SubsetInit /\ [][SubsetNext]_vars /\ WF_vars(SubsetNext)

-----------------------------------------------------------------------------
(***************************************************************************)
(* do_match on the complete table: from the start state, over as much of   *)
(* the input as there are transitions for.                                 *)
(***************************************************************************)

\* The state after each prefix of the input, and invalid_node from where there is none.
Run(input) ==
    LET s[n \in 0 .. Len(input)] ==
          IF n = 0 THEN 0
          ELSE IF s[n - 1] = invalid_node THEN invalid_node
          ELSE transition_table[Index(s[n - 1])][input[n]]
    IN  s

Accepts(state) == state # invalid_node /\ acceptance_index[Index(state)] # invalid_node

\* What is taken off the input, which expression matched, and the text that is
\* collected on the way: every character that had a transition, also those
\* behind the last accepting state, which stay in the input.
do_match(input) ==
    LET s == Run(input)
        accepting == { n \in 1 .. Len(input) : Accepts(s[n]) }
        length == CHOOSE n \in accepting : \A k \in accepting : k <= n
        reached == CHOOSE n \in 0 .. Len(input) :
                     /\ s[n] # invalid_node
                     /\ n = Len(input) \/ s[n + 1] = invalid_node
    IN  IF accepting = {} THEN [matched |-> FALSE]
        ELSE [ matched     |-> TRUE,
               length      |-> length,
               regex_index |-> acceptance_index[Index(s[length])],
               token       |-> SubSeq(input, 1, reached) ]

-----------------------------------------------------------------------------
(***************************************************************************)
(* The assertions of the construction: the vectors have one element for    *)
(* each state, and no entry of the table leads outside of them.  (load and *)
(* do_match index the vectors without a test.)                             *)
(***************************************************************************)
TablesAligned ==
    /\ Len(marked) = Len(dstates)
    /\ Len(transition_table) = Len(dstates)
    /\ Len(acceptance_index) = Len(dstates)
    /\ \A n \in DOMAIN transition_table :
         transition_table[n] \in [Alphabet -> {invalid_node} \cup 0 .. Len(dstates) - 1]

\* The positions that follow on a character.
NextOf(S, c) ==
    { q \in { pair[2] : pair \in nfa.follow } :
        \E p \in S : <<p, c>> \in nfa.match /\ <<p, q>> \in nfa.follow }

\* The entries that the loops have passed.
Passed(n, c) == marked[n] /\ (Number(n) = T => c < j)

(***************************************************************************)
(* A state never has two numbers, and every entry passed so far leads to   *)
(* the state of exactly the positions that follow on its character, or     *)
(* nowhere when there are none; the others are still empty.                *)
(***************************************************************************)
TableExact ==
    /\ \A m, n \in DOMAIN dstates : dstates[m] = dstates[n] => m = n
    /\ \A n \in DOMAIN dstates : \A c \in Alphabet :
         LET entry == transition_table[n][c]
             next  == NextOf(dstates[n], c)
         IN  IF Passed(n, c) /\ next # {}
             THEN entry # invalid_node /\ dstates[Index(entry)] = next
             ELSE entry = invalid_node

(***************************************************************************)
(* The construction comes to an end.                                       *)
(***************************************************************************)
Compiles == <>m_compiled_dfa

=============================================================================
