------------------------------ MODULE P4Number ------------------------------
(***************************************************************************)
(* Lexer::read_number of lexer.cpp: the text of a numeric literal of P4,   *)
(* which may begin with a width and a sign, 8w or 8s, and a base, 0x, to   *)
(* its value.  An int has 32 bits; std::stoi throws on what does not fit   *)
(* or has no digits, and stops at the first character that is no digit.    *)
(***************************************************************************)
EXTENDS Integers, Sequences, SequencesExt

Decimal  == {"0", "1", "2", "3", "4", "5", "6", "7", "8", "9"}
HexDigit == Decimal \cup {"a", "b", "c", "d", "e", "f", "A", "B", "C", "D", "E", "F"}
BaseChar == {"b", "B", "d", "D", "o", "O", "x", "X"}

\* What the loop collects, after a first digit.
NumberChar == HexDigit \cup BaseChar \cup {"_", "w", "s"}

DigitsOf(base) ==
    CASE base = 2  -> {"0", "1"}
      [] base = 8  -> {"0", "1", "2", "3", "4", "5", "6", "7"}
      [] base = 10 -> Decimal
      [] base = 16 -> HexDigit

BaseOf(c) ==
    CASE c \in {"b", "B"} -> 2
      [] c \in {"o", "O"} -> 8
      [] c \in {"d", "D"} -> 10
      [] c \in {"x", "X"} -> 16

ValueOf(c) ==
    CHOOSE n \in 0 .. 15 :
        c \in << {"0"}, {"1"}, {"2"}, {"3"}, {"4"}, {"5"}, {"6"}, {"7"}, {"8"}, {"9"},
                 {"a", "A"}, {"b", "B"}, {"c", "C"}, {"d", "D"}, {"e", "E"}, {"f", "F"} >>[n + 1]

MaxInt == 2147483647

Thrown == -1

\* std::stoi of a text in a base, or Thrown; no literal has a sign of its own.
stoi(text, base) ==
    LET v[n \in 0 .. Len(text)] ==
          IF n = 0 THEN 0
          ELSE IF v[n - 1] = Thrown \/ ValueOf(text[n]) > MaxInt - v[n - 1] * base THEN Thrown
          ELSE v[n - 1] * base + ValueOf(text[n])
        digits == CHOOSE n \in 0 .. Len(text) :
                    /\ \A k \in 1 .. n : text[k] \in DigitsOf(base)
                    /\ n = Len(text) \/ text[n + 1] \notin DigitsOf(base)
    IN  IF digits = 0 THEN Thrown ELSE v[digits]

-----------------------------------------------------------------------------
\* The groups of the regular expression (([0-9]+)([sw]))?(0[bBdDoOxX])?([0-9A-Fa-f_]+).
Marks(text) == { n \in DOMAIN text : text[n] \in {"s", "w"} }

Matches(text) ==
    \E n \in 0 .. Len(text) - 1 :
        /\ Marks(text) = IF n = 0 THEN {} ELSE {n}
        /\ n # 1
        /\ \A k \in 1 .. n - 1 : text[k] \in Decimal
        /\ \A k \in n + 1 .. Len(text) :
             \/ text[k] \in HexDigit \cup {"_"}
             \/ k = n + 2 /\ text[n + 1] = "0" /\ text[k] \in BaseChar /\ Len(text) > k

WidthText(text) ==
    IF Marks(text) = {} THEN <<>> ELSE SubSeq(text, 1, (CHOOSE n \in Marks(text) : TRUE) - 1)

IsSigned(text) == \E n \in Marks(text) : text[n] = "s"

AfterMark(text) == IF Marks(text) = {} THEN text ELSE SubSeq(text, Len(WidthText(text)) + 2, Len(text))

HasBase(rest) == Len(rest) > 2 /\ rest[1] = "0" /\ rest[2] \in BaseChar

Base(rest) == IF HasBase(rest) THEN BaseOf(rest[2]) ELSE 10

Digits(rest) == IF HasBase(rest) THEN SubSeq(rest, 3, Len(rest)) ELSE rest

-----------------------------------------------------------------------------
\* Shifting an int by 31 bits or more is undefined: only smaller widths are looked at.
MaxWidth == 30

\* 1 << n
TwoTo[n \in 0 .. MaxWidth] == IF n = 0 THEN 1 ELSE 2 * TwoTo[n - 1]

\* Mutant: a sign bit is not extended.
SignExtendNot(value, width) == value

\* (value & (mask >> 1)) - (value & (1 << (width - 1)))
SignExtend(value, width) ==
    (value % TwoTo[width - 1]) - (value \div TwoTo[width - 1]) * TwoTo[width - 1]

Number(value, width)  == [token |-> "T_NUMBER", value |-> value, width |-> width]
Unknown(value, width) == [token |-> "T_UNKNOWN", value |-> value, width |-> width]
Exception(width)      == [token |-> "exception", width |-> width]

\* The token, and what value and width are afterwards: width keeps what an
\* earlier literal said when this one has no prefix, although the mask is full.
\* It is assigned before the digits are looked at: also when these throw.
read_number(text, oldValue, oldWidth) ==
    LET prefixed == Marks(text) # {}
        width == IF prefixed THEN stoi(WidthText(text), 10) ELSE oldWidth
        rest == AfterMark(text)
        number == stoi(Digits(rest), Base(rest))
        masked == IF prefixed THEN number % TwoTo[width] ELSE number
    IN  IF ~Matches(text) THEN Unknown(oldValue, oldWidth)
        ELSE IF width = Thrown THEN Exception(oldWidth)
        ELSE IF IsSigned(text) /\ width < 2 THEN Unknown(oldValue, width)
        ELSE IF \E n \in DOMAIN Digits(rest) :
                  Digits(rest)[n] \notin DigitsOf(Base(rest)) \cup {"_"}
             THEN Unknown(oldValue, width)
        ELSE IF number = Thrown THEN Exception(width)
        ELSE IF IsSigned(text) THEN Number(SignExtend(masked, width), width)
        ELSE Number(masked, width)

=============================================================================
