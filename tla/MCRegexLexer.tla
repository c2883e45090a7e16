---------------------------- MODULE MCRegexLexer ----------------------------
(***************************************************************************)
(* Every list of one or two short expressions over an alphabet of two.     *)
(***************************************************************************)
EXTENDS RegexLexer

Atoms == { Ccl({0}), Ccl({1}), Ccl({0, 1}) }

Repeated == { Star(a) : a \in Atoms } \cup { Plus(a) : a \in Atoms }
            \cup { Optional(a) : a \in Atoms }

Pairs == { Cat(a, b) : a \in Atoms, b \in Atoms \cup Repeated } \cup { Or(a, Cat(b, a)) : a, b \in Atoms }

Nested == { Star(p) : p \in Pairs } \cup { Cat(r, p) : r \in Repeated, p \in Pairs }
          \cup { Plus(Optional(a)) : a \in Atoms }

Short == Repeated \cup { Cat(a, b) : a, b \in Atoms }

MCRegexLists == { <<r>> : r \in Nested } \cup (Short \X Short)

MCAutomata == { AutomatonOf(regexes) : regexes \in RegexLists }
=============================================================================
