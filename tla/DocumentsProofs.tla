--------------------------- MODULE DocumentsProofs ---------------------------
(***************************************************************************)
(* Proofs about CompileCommands, Documents and the arithmetic of P4File,   *)
(* for any databases, texts, bytes, files and edits.                       *)
(***************************************************************************)
EXTENDS Documents, SequenceLemmas, FiniteSetTheorems, TLAPS

-----------------------------------------------------------------------------
(***************************************************************************)
(* CompileCommands, for any files, directories and databases.              *)
(***************************************************************************)

(***************************************************************************)
(* What is on the disk has been listed; with it, OnlyListedCommands is     *)
(* kept by a lookup, which takes the commands from the disk.               *)
(***************************************************************************)
DiskListed ==
    \A d \in Dirs : \A i \in DOMAIN disk[d].entries : disk[d].entries[i] \in listed

CommandsInv == CommandsTypeOK /\ OnlyListedCommands /\ DiskListed

-----------------------------------------------------------------------------
\* The entries of a database.
LEMMA DatabaseEntries ==
    ASSUME NEW db \in Database
    PROVE  /\ DOMAIN db.entries \subseteq Nat
           /\ \A i \in DOMAIN db.entries :
                /\ 1 .. i - 1 \subseteq DOMAIN db.entries
                /\ db.entries[i] \in Entry
<1>1. CASE db.entries = <<>>
  BY <1>1
<1>2. CASE \E n \in 0 .. MaxEntries : db.entries \in [1 .. n -> Entry]
  BY <1>2, MaxEntriesAssumption
<1> QED BY <1>1, <1>2 DEF Database

\* Each command comes from an entry for its file.
LEMMA LoadedFromEntries ==
    ASSUME NEW db \in Database, NEW include,
           NEW f \in DOMAIN Loaded(db.entries, include)
    PROVE  \E i \in DOMAIN db.entries :
             /\ db.entries[i].file = f
             /\ Loaded(db.entries, include)[f] = [include |-> include, tail |-> db.entries[i].tail]
<1> DEFINE entries == db.entries
           of == { i \in DOMAIN entries : entries[i].file = f }
           IsFirst(i) == entries[i].file = f /\ \A k \in 1 .. i - 1 : entries[k].file # f
           first == CHOOSE i \in DOMAIN entries : IsFirst(i)
<1>1. DOMAIN Loaded(entries, include) = { entries[i].file : i \in DOMAIN entries }
  BY DEF Loaded
<1>2. of \subseteq Nat /\ of # {}
  BY <1>1, DatabaseEntries
<1>3. PICK i \in of : \A k \in of : ~(k < i)
  BY <1>2, LeastIndex
<1>4. i \in DOMAIN entries /\ IsFirst(i)
  <2>1. i \in Nat /\ 1 .. i - 1 \subseteq DOMAIN entries
    BY <1>2, DatabaseEntries
  <2>2. \A k \in 1 .. i - 1 : k < i
    BY <2>1
  <2> QED BY <1>3, <2>1, <2>2
<1>5. first \in DOMAIN entries /\ IsFirst(first)
  BY <1>4
<1>6. Loaded(entries, include)[f] = [include |-> include, tail |-> entries[first].tail]
  BY <1>1 DEF Loaded
<1> QED BY <1>5, <1>6

\* What a lookup remembers.
LEMMA RememberedFiles ==
    ASSUME NEW entries, NEW include
    PROVE  /\ DOMAIN Remember(entries, include)
                = DOMAIN commands \cup DOMAIN Loaded(entries, include)
           /\ \A f \in DOMAIN commands : Remember(entries, include)[f] = commands[f]
           /\ \A f \in DOMAIN Loaded(entries, include) \ DOMAIN commands :
                Remember(entries, include)[f] = Loaded(entries, include)[f]
BY DEF Remember, Emplace

-----------------------------------------------------------------------------
LEMMA InitCommandsInv == CommandsInit => CommandsInv
<1> SUFFICES ASSUME CommandsInit PROVE CommandsInv
  OBVIOUS
<1>1. [kind |-> "absent", entries |-> <<>>] \in Database
  BY DEF Database
<1>2. CommandsTypeOK
  <2>1. disk \in [Dirs -> Database]
    BY <1>1 DEF CommandsInit
  <2>2. DOMAIN commands = {}
    BY DEF CommandsInit
  <2> QED BY <2>1, <2>2 DEF CommandsInit, CommandsTypeOK
<1>3. OnlyListedCommands /\ DiskListed
  BY DEF CommandsInit, OnlyListedCommands, DiskListed
<1> QED BY <1>2, <1>3 DEF CommandsInv

LEMMA WriteKeepsInv ==
    ASSUME CommandsInv, NEW d \in Dirs, NEW db \in Database, WriteDatabase(d, db)
    PROVE  CommandsInv'
<1> USE DEF CommandsInv
<1>1. /\ disk' = [disk EXCEPT ![d] = db] /\ commands' = commands /\ aborted' = aborted
      /\ listed' = listed \cup { db.entries[i] : i \in DOMAIN db.entries }
  BY DEF WriteDatabase
<1>2. disk' \in [Dirs -> Database] /\ disk'[d] = db /\ \A e \in Dirs : e # d => disk'[e] = disk[e]
  BY <1>1 DEF CommandsTypeOK
<1>3. listed' \subseteq Entry
  BY <1>1, DatabaseEntries DEF CommandsTypeOK
<1>4. CommandsTypeOK'
  BY <1>1, <1>2, <1>3 DEF CommandsTypeOK
<1>5. OnlyListedCommands'
  BY <1>1 DEF OnlyListedCommands
<1>6. DiskListed'
  BY <1>1, <1>2 DEF DiskListed
<1> QED BY <1>4, <1>5, <1>6

LEMMA LookupAddsListed ==
    ASSUME CommandsInv, NEW file \in Files, Lookup(file)
    PROVE  \/ commands' = commands
           \/ \E d \in Dirs, include \in Includes :
                commands' = Remember(disk[d].entries, include)
<1>1. CASE FindAborts(file) /\ UNCHANGED commands
  BY <1>1
<1>2. CASE \E result \in Command \cup {NoCommand} : FindCommand(file, result)
  <2>1. \A d \in Nearest(file) : d \in Dirs
    <3>1. Ancestors[file] \in Seq(Dirs)
      BY AncestorsAssumption
    <3>2. \A i \in DOMAIN Ancestors[file] : Ancestors[file][i] \in Dirs
      BY <3>1
    <3> QED BY <3>2 DEF Nearest
  <2> QED BY <1>2, <2>1 DEF FindCommand
<1> QED BY <1>1, <1>2 DEF Lookup

LEMMA LookupKeepsInv ==
    ASSUME CommandsInv, NEW file \in Files, Lookup(file)
    PROVE  CommandsInv'
<1> USE DEF CommandsInv
<1>1. disk' = disk /\ listed' = listed /\ aborted' \in BOOLEAN
  BY DEF Lookup, CommandsTypeOK
<1>2. CASE commands' = commands
  BY <1>1, <1>2 DEF CommandsTypeOK, OnlyListedCommands, DiskListed
<1>3. ASSUME NEW d \in Dirs, NEW include \in Includes,
             commands' = Remember(disk[d].entries, include)
      PROVE  CommandsInv'
  <2> DEFINE db == disk[d]
             loaded == Loaded(db.entries, include)
  <2>1. db \in Database
    BY DEF CommandsTypeOK
  <2>2. DOMAIN commands' = DOMAIN commands \cup DOMAIN loaded
    BY <1>3, RememberedFiles
  <2>3. \A f \in DOMAIN commands : commands'[f] = commands[f]
    BY <1>3, RememberedFiles
  <2>4. \A f \in DOMAIN loaded \ DOMAIN commands : commands'[f] = loaded[f]
    BY <1>3, RememberedFiles
  <2> HIDE DEF db
  <2>5. \A f \in DOMAIN loaded :
          /\ f \in Files /\ loaded[f] \in Command
          /\ [file |-> f, tail |-> loaded[f].tail] \in listed
    <3> SUFFICES ASSUME NEW f \in DOMAIN loaded
                 PROVE  /\ f \in Files /\ loaded[f] \in Command
                        /\ [file |-> f, tail |-> loaded[f].tail] \in listed
      OBVIOUS
    <3>1. PICK i \in DOMAIN db.entries :
            /\ db.entries[i].file = f
            /\ loaded[f] = [include |-> include, tail |-> db.entries[i].tail]
      BY <2>1, LoadedFromEntries DEF loaded
    <3>2. db.entries[i] \in [file : Files, tail : Tails]
      BY <2>1, DatabaseEntries DEF Entry
    <3>3. db.entries[i] = [file |-> f, tail |-> loaded[f].tail]
      BY <3>1, <3>2
    <3>4. db.entries[i] \in listed
      BY DEF DiskListed, db
    <3> QED BY <3>1, <3>2, <3>3, <3>4 DEF Command
  <2> HIDE DEF loaded
  <2>6. CommandsTypeOK'
    <3>1. DOMAIN commands' \subseteq Files
      BY <2>2, <2>5 DEF CommandsTypeOK
    <3>2. \A f \in DOMAIN commands' : commands'[f] \in Command
      BY <2>2, <2>3, <2>4, <2>5 DEF CommandsTypeOK
    <3> QED BY <1>1, <3>1, <3>2 DEF CommandsTypeOK
  <2>7. OnlyListedCommands'
    <3> SUFFICES ASSUME NEW f \in DOMAIN commands'
                 PROVE  [file |-> f, tail |-> commands'[f].tail] \in listed
      BY <1>1 DEF OnlyListedCommands
    <3>1. CASE f \in DOMAIN commands
      BY <2>3, <3>1 DEF OnlyListedCommands
    <3>2. CASE f \in DOMAIN loaded \ DOMAIN commands
      BY <2>4, <2>5, <3>2
    <3> QED BY <2>2, <3>1, <3>2
  <2>8. DiskListed'
    BY <1>1 DEF DiskListed
  <2> QED BY <2>6, <2>7, <2>8
<1> QED BY <1>2, <1>3, LookupAddsListed

LEMMA CommandsStepKeepsInv == CommandsInv /\ [CommandsNext]_commandVars => CommandsInv'
<1> SUFFICES ASSUME CommandsInv, [CommandsNext]_commandVars PROVE CommandsInv'
  OBVIOUS
<1>1. CASE \E d \in Dirs, db \in Database : WriteDatabase(d, db)
  BY <1>1, WriteKeepsInv
<1>2. CASE \E file \in Files : Lookup(file)
  BY <1>2, LookupKeepsInv
<1>3. CASE UNCHANGED commandVars
  BY <1>3 DEF CommandsInv, CommandsTypeOK, OnlyListedCommands, DiskListed, commandVars
<1> QED BY <1>1, <1>2, <1>3 DEF CommandsNext

LEMMA CommandsInvAlways == CommandsSpec => []CommandsInv
BY InitCommandsInv, CommandsStepKeepsInv, PTL DEF CommandsSpec

(***************************************************************************)
(* The type invariant of the lookup, for any files and databases.          *)
(***************************************************************************)
THEOREM CommandsTypeCorrect == CommandsSpec => []CommandsTypeOK
<1>1. CommandsInv => CommandsTypeOK
  BY DEF CommandsInv
<1> QED BY <1>1, CommandsInvAlways, PTL

(***************************************************************************)
(* find_command_for_path gives a file only what some database has listed   *)
(* for it, however the databases change between the lookups.               *)
(***************************************************************************)
THEOREM CommandsOnlyListed == CommandsSpec => []OnlyListedCommands
<1>1. CommandsInv => OnlyListedCommands
  BY DEF CommandsInv
<1> QED BY <1>1, CommandsInvAlways, PTL

(***************************************************************************)
(* emplace never replaces: a command that is remembered stays.             *)
(***************************************************************************)
THEOREM CommandsAlwaysStay == CommandsSpec => CommandsStay
<1> DEFINE Stays == \A file \in DOMAIN commands :
                      file \in DOMAIN commands' /\ commands'[file] = commands[file]
<1>1. CommandsInv /\ [CommandsNext]_commandVars => [Stays]_commandVars
  <2> SUFFICES ASSUME CommandsInv, CommandsNext PROVE Stays
    OBVIOUS
  <2>1. CASE \E d \in Dirs, db \in Database : WriteDatabase(d, db)
    BY <2>1 DEF WriteDatabase
  <2>2. ASSUME NEW file \in Files, Lookup(file)
        PROVE  Stays
    <3>1. CASE commands' = commands
      BY <3>1
    <3>2. ASSUME NEW d \in Dirs, NEW include \in Includes,
                 commands' = Remember(disk[d].entries, include)
          PROVE  Stays
      BY <3>2, RememberedFiles
    <3> QED BY <2>2, <3>1, <3>2, LookupAddsListed
  <2> QED BY <2>1, <2>2 DEF CommandsNext
<1> QED BY <1>1, CommandsInvAlways, PTL DEF CommandsSpec, CommandsStay

-----------------------------------------------------------------------------
(***************************************************************************)
(* FindNewline and LineStart.                                              *)
(***************************************************************************)
LEMMA FindNewlineFirst ==
    ASSUME NEW text \in Text, NEW index \in Nat
    PROVE  \/ /\ FindNewline(text, index) = npos
              /\ \A i \in index .. Len(text) - 1 : text[i + 1] # Newline
           \/ /\ FindNewline(text, index) \in index .. Len(text) - 1
              /\ text[FindNewline(text, index) + 1] = Newline
              /\ \A i \in index .. FindNewline(text, index) - 1 : text[i + 1] # Newline
<1> DEFINE found == { i \in index .. Len(text) - 1 : text[i + 1] = Newline }
<1>0. Len(text) \in Nat
  BY DEF Text
<1>1. CASE found = {}
  BY <1>0, <1>1 DEF FindNewline
<1>2. CASE found # {}
  <2>1. found \subseteq Nat
    BY <1>0
  <2>2. PICK i \in found : \A k \in found : ~(k < i)
    BY <1>2, <2>1, LeastIndex
  <2>3. \A k \in found : i <= k
    BY <2>1, <2>2
  <2> DEFINE first == CHOOSE k \in found : \A m \in found : k <= m
  <2>4. first \in found /\ \A m \in found : first <= m
    BY <2>2, <2>3
  <2>5. FindNewline(text, index) = first
    BY <1>2 DEF FindNewline
  <2> HIDE DEF first
  <2>6. \A k \in index .. first - 1 : text[k + 1] # Newline
    <3> SUFFICES ASSUME NEW k \in index .. first - 1, text[k + 1] = Newline PROVE FALSE
      OBVIOUS
    <3>1. k \in found
      BY <1>0, <2>4
    <3> QED BY <3>1, <2>4, <2>1
  <2> QED BY <2>4, <2>5, <2>6
<1> QED BY <1>1, <1>2

\* The loop of get_position_index, one pass.
NextStart(text, start) ==
    IF start = npos THEN npos
    ELSE LET next == FindNewline(text, start) IN IF next = npos THEN npos ELSE next + 1

IsStarts(f, text, line) ==
    f = [n \in 0 .. line |-> IF n = 0 THEN 0 ELSE NextStart(text, f[n - 1])]

LEMMA StartsExist ==
    ASSUME NEW text
    PROVE  \A line \in Nat : \E f : IsStarts(f, text, line)
<1> DEFINE S == { line \in Nat : \E f : IsStarts(f, text, line) }
<1>1. 0 \in S
  <2>1. IsStarts([n \in 0 .. 0 |-> 0], text, 0)
    BY DEF IsStarts
  <2> QED BY <2>1
<1>2. ASSUME NEW line \in Nat, line \in S
      PROVE  line + 1 \in S
  <2>1. PICK f : IsStarts(f, text, line)
    BY <1>2
  <2> DEFINE g == [n \in 0 .. line + 1 |-> IF n <= line THEN f[n] ELSE NextStart(text, f[line])]
             h == [n \in 0 .. line + 1 |-> IF n = 0 THEN 0 ELSE NextStart(text, g[n - 1])]
  <2>2. ASSUME NEW n \in 0 .. line + 1
        PROVE  g[n] = h[n]
    <3>1. CASE n = 0
      <4>1. f[0] = 0
        BY <2>1 DEF IsStarts
      <4> QED BY <3>1, <4>1
    <3>2. CASE n \in 1 .. line
      <4>1. f[n] = NextStart(text, f[n - 1])
        BY <2>1, <3>2 DEF IsStarts
      <4>2. g[n - 1] = f[n - 1] /\ g[n] = f[n]
        BY <3>2
      <4> QED BY <3>2, <4>1, <4>2
    <3>3. CASE n = line + 1
      <4>1. g[n - 1] = f[line] /\ g[n] = NextStart(text, f[line])
        BY <3>3
      <4> QED BY <3>3, <4>1
    <3> QED BY <3>1, <3>2, <3>3
  <2>3. g = h
    BY <2>2
  <2>4. IsStarts(g, text, line + 1)
    BY <2>3 DEF IsStarts
  <2> QED BY <2>4
<1> HIDE DEF S
<1>3. \A line \in Nat : line \in S
  BY <1>1, <1>2, Induction
<1> QED BY <1>3 DEF S

LEMMA StartsAgree ==
    ASSUME NEW text, NEW f, NEW g, NEW line \in Nat, NEW other \in Nat, line <= other,
           IsStarts(f, text, line), IsStarts(g, text, other)
    PROVE  \A n \in 0 .. line : f[n] = g[n]
<1> DEFINE S == { n \in Nat : n <= line => f[n] = g[n] }
<1>1. 0 \in S
  BY DEF IsStarts
<1>2. ASSUME NEW n \in Nat, n \in S
      PROVE  n + 1 \in S
  <2>1. CASE n + 1 <= line
    <3>1. f[n] = g[n] /\ n + 1 \in 0 .. line /\ n + 1 \in 0 .. other /\ n + 1 # 0 /\ (n + 1) - 1 = n
      BY <1>2, <2>1
    <3>2. f[n + 1] = NextStart(text, f[n]) /\ g[n + 1] = NextStart(text, g[n])
      BY <3>1 DEF IsStarts
    <3> QED BY <3>1, <3>2
  <2> QED BY <2>1
<1> HIDE DEF S
<1>3. \A n \in Nat : n \in S
  BY <1>1, <1>2, Induction
<1> QED BY <1>3 DEF S

LEMMA LineStartChosen ==
    ASSUME NEW text, NEW line \in Nat
    PROVE  \E f : IsStarts(f, text, line) /\ LineStart(text, line) = f[line]
<1> DEFINE start == CHOOSE f : f = [n \in 0 .. line |->
                       IF n = 0 THEN 0
                       ELSE IF f[n - 1] = npos THEN npos
                       ELSE LET next == FindNewline(text, f[n - 1])
                            IN  IF next = npos THEN npos ELSE next + 1]
<1>1. LineStart(text, line) = start[line]
  BY DEF LineStart
<1>2. \E f : f = [n \in 0 .. line |->
                       IF n = 0 THEN 0
                       ELSE IF f[n - 1] = npos THEN npos
                       ELSE LET next == FindNewline(text, f[n - 1])
                            IN  IF next = npos THEN npos ELSE next + 1]
  BY StartsExist DEF IsStarts, NextStart
<1>3. IsStarts(start, text, line)
  BY <1>2 DEF IsStarts, NextStart
<1> QED BY <1>1, <1>3

LEMMA LineStartRecursion ==
    ASSUME NEW text
    PROVE  /\ LineStart(text, 0) = 0
           /\ \A line \in Nat : LineStart(text, line + 1) = NextStart(text, LineStart(text, line))
<1>1. LineStart(text, 0) = 0
  <2>1. PICK f : IsStarts(f, text, 0) /\ LineStart(text, 0) = f[0]
    BY LineStartChosen
  <2> QED BY <2>1 DEF IsStarts
<1>2. ASSUME NEW line \in Nat
      PROVE  LineStart(text, line + 1) = NextStart(text, LineStart(text, line))
  <2>1. PICK f : IsStarts(f, text, line) /\ LineStart(text, line) = f[line]
    BY LineStartChosen
  <2>2. PICK g : IsStarts(g, text, line + 1) /\ LineStart(text, line + 1) = g[line + 1]
    BY LineStartChosen
  <2>3. f[line] = g[line]
    BY <2>1, <2>2, StartsAgree
  <2>4. g[line + 1] = NextStart(text, g[line])
    BY <2>2 DEF IsStarts
  <2> QED BY <2>1, <2>2, <2>3, <2>4
<1> QED BY <1>1, <1>2

-----------------------------------------------------------------------------
(***************************************************************************)
(* The loop of the code finds the line that the protocol means.            *)
(***************************************************************************)
BeginsLine(text, index, start) ==
    /\ start \in 0 .. index
    /\ start = 0 \/ text[start] = Newline
    /\ \A i \in start .. index - 1 : text[i + 1] # Newline

LEMMA StartOfLineBegins ==
    ASSUME NEW text \in Text, NEW index \in 0 .. Len(text)
    PROVE  BeginsLine(text, index, StartOfLine(text, index))
<1> DEFINE newlines == NewlinesBefore(text, index)
<1>0. Len(text) \in Nat /\ index \in Nat
  BY DEF Text
<1>1. CASE newlines = {}
  <2>1. StartOfLine(text, index) = 0
    BY <1>1 DEF StartOfLine
  <2>2. \A i \in 0 .. index - 1 : text[i + 1] # Newline
    BY <1>1 DEF NewlinesBefore
  <2> QED BY <1>0, <2>1, <2>2 DEF BeginsLine
<1>2. CASE newlines # {}
  <2> DEFINE S == { m \in Nat : index - 1 - m \in newlines }
  <2>1. newlines \subseteq 0 .. index - 1 /\ \A i \in newlines : text[i + 1] = Newline
    BY DEF NewlinesBefore
  <2>2. S # {}
    <3>1. PICK i \in newlines : TRUE
      BY <1>2
    <3>2. index - 1 - i \in Nat /\ index - 1 - (index - 1 - i) = i
      BY <1>0, <2>1, <3>1
    <3>3. index - 1 - i \in S
      BY <3>1, <3>2
    <3> QED BY <3>3
  <2>3. PICK m \in S : \A k \in S : ~(k < m)
    BY <2>2, LeastIndex
  <2>4. \A i \in newlines : i <= index - 1 - m
    <3> SUFFICES ASSUME NEW i \in newlines PROVE i <= index - 1 - m
      OBVIOUS
    <3>1. index - 1 - i \in Nat /\ index - 1 - (index - 1 - i) = i
      BY <1>0, <2>1
    <3>2. index - 1 - i \in S
      BY <3>1
    <3>3. ~(index - 1 - i < m)
      BY <3>2, <2>3
    <3> QED BY <1>0, <2>1, <2>3, <3>3
  <2> DEFINE last == CHOOSE i \in newlines : \A j \in newlines : j <= i
  <2>5. last \in newlines /\ \A j \in newlines : j <= last
    BY <2>3, <2>4
  <2>6. StartOfLine(text, index) = 1 + last
    BY <1>2 DEF StartOfLine
  <2> HIDE DEF last
  <2>7. last \in 0 .. index - 1 /\ text[last + 1] = Newline
    BY <2>1, <2>5
  <2>8. \A i \in last + 1 .. index - 1 : text[i + 1] # Newline
    <3> SUFFICES ASSUME NEW i \in last + 1 .. index - 1, text[i + 1] = Newline PROVE FALSE
      OBVIOUS
    <3>1. i \in newlines
      BY <1>0, <2>7 DEF NewlinesBefore
    <3> QED BY <3>1, <2>5, <2>7, <1>0
  <2>9. 1 + last \in 0 .. index /\ 1 + last = last + 1
    BY <1>0, <2>7
  <2> QED BY <2>6, <2>7, <2>8, <2>9 DEF BeginsLine
<1> QED BY <1>1, <1>2

LEMMA BeginOfLineUnique ==
    ASSUME NEW text \in Text, NEW index \in Nat, NEW start, NEW other,
           BeginsLine(text, index, start), BeginsLine(text, index, other)
    PROVE  start = other
<1>1. ASSUME NEW s \in 0 .. index, NEW t \in 0 .. index, s < t,
             BeginsLine(text, index, s), BeginsLine(text, index, t)
      PROVE  FALSE
  <2>1. t - 1 \in s .. index - 1 /\ (t - 1) + 1 = t /\ t # 0
    BY <1>1
  <2>2. text[t] = Newline
    BY <1>1, <2>1 DEF BeginsLine
  <2>3. text[(t - 1) + 1] # Newline
    BY <1>1, <2>1 DEF BeginsLine
  <2> QED BY <2>1, <2>2, <2>3
<1>2. start \in 0 .. index /\ other \in 0 .. index
  BY DEF BeginsLine
<1>3. ~(start < other) /\ ~(other < start)
  BY <1>1, <1>2
<1> QED BY <1>2, <1>3

LEMMA NewlinesFinite ==
    ASSUME NEW text, NEW index \in Nat
    PROVE  IsFiniteSet(NewlinesBefore(text, index)) /\ Cardinality(NewlinesBefore(text, index)) \in Nat
<1>1. IsFiniteSet(0 .. index - 1)
  BY FS_Interval
<1>2. NewlinesBefore(text, index) \subseteq 0 .. index - 1
  BY DEF NewlinesBefore
<1> QED BY <1>1, <1>2, FS_Subset, FS_CardinalityType

LEMMA NewlineCount ==
    ASSUME NEW text, NEW index \in Nat
    PROVE  Cardinality(NewlinesBefore(text, index + 1))
             = Cardinality(NewlinesBefore(text, index)) + IF text[index + 1] = Newline THEN 1 ELSE 0
<1>1. CASE text[index + 1] = Newline
  <2>1. NewlinesBefore(text, index + 1) = NewlinesBefore(text, index) \cup {index}
    BY <1>1 DEF NewlinesBefore
  <2>2. index \notin NewlinesBefore(text, index)
    BY DEF NewlinesBefore
  <2> QED BY <1>1, <2>1, <2>2, NewlinesFinite, FS_AddElement
<1>2. CASE text[index + 1] # Newline
  <2>1. NewlinesBefore(text, index + 1) = NewlinesBefore(text, index)
    BY <1>2 DEF NewlinesBefore
  <2> QED BY <1>2, <2>1, NewlinesFinite
<1> QED BY <1>1, <1>2

LEMMA LineOfPosition ==
    ASSUME NEW text \in Text
    PROVE  \A index \in 0 .. Len(text) :
             LineStart(text, Cardinality(NewlinesBefore(text, index))) = StartOfLine(text, index)
<1> DEFINE line(index) == Cardinality(NewlinesBefore(text, index))
           S == { index \in Nat : index <= Len(text) =>
                    LineStart(text, line(index)) = StartOfLine(text, index) }
<1>0. Len(text) \in Nat
  BY DEF Text
<1>1. 0 \in S
  <2>1. NewlinesBefore(text, 0) = {}
    BY DEF NewlinesBefore
  <2>2. line(0) = 0
    BY <2>1, FS_EmptySet
  <2>3. StartOfLine(text, 0) = 0
    BY <2>1 DEF StartOfLine
  <2> QED BY <2>2, <2>3, LineStartRecursion
<1>2. ASSUME NEW index \in Nat, index \in S
      PROVE  index + 1 \in S
  <2> SUFFICES ASSUME index + 1 <= Len(text)
               PROVE  LineStart(text, line(index + 1)) = StartOfLine(text, index + 1)
    BY <1>0
  <2> DEFINE start == StartOfLine(text, index)
             next  == StartOfLine(text, index + 1)
  <2>1. index \in 0 .. Len(text) /\ index + 1 \in 0 .. Len(text)
    BY <1>0
  <2>2. BeginsLine(text, index, start) /\ BeginsLine(text, index + 1, next)
    BY <2>1, StartOfLineBegins
  <2>3. LineStart(text, line(index)) = start
    BY <1>2, <2>1
  <2>4. start \in Nat /\ start <= index /\ start # npos
    BY <2>2 DEF BeginsLine, npos
  <2> HIDE DEF start, next, S
  <2>5. CASE text[index + 1] = Newline
    <3>1. line(index + 1) = line(index) + 1 /\ line(index) \in Nat
      <4>1. line(index + 1) = line(index) + 1
        BY <2>5, NewlineCount
      <4>2. line(index) \in Nat
        BY NewlinesFinite
      <4> QED BY <4>1, <4>2
    <3>2. FindNewline(text, start) = index
      <4>1. index \in start .. Len(text) - 1
        BY <1>0, <2>1, <2>4
      <4>2. \A i \in start .. index - 1 : text[i + 1] # Newline
        BY <2>2 DEF BeginsLine
      <4>3. FindNewline(text, start) \in start .. Len(text) - 1
        BY <4>1, <2>4, <2>5, FindNewlineFirst
      <4>4. /\ text[FindNewline(text, start) + 1] = Newline
            /\ \A i \in start .. FindNewline(text, start) - 1 : text[i + 1] # Newline
        BY <4>1, <2>4, <2>5, FindNewlineFirst
      <4>5. ~(index < FindNewline(text, start))
        BY <4>1, <4>3, <4>4, <2>5, <2>4, <1>0
      <4>6. ~(FindNewline(text, start) < index)
        BY <4>2, <4>3, <4>4, <2>4, <1>0
      <4> QED BY <4>1, <4>3, <4>5, <4>6, <1>0, <2>4
    <3>3. LineStart(text, line(index + 1)) = index + 1
      <4>1. LineStart(text, line(index) + 1) = NextStart(text, LineStart(text, line(index)))
        BY <3>1, LineStartRecursion
      <4>2. index # npos
        BY DEF npos
      <4> QED BY <4>1, <4>2, <3>1, <3>2, <2>3, <2>4 DEF NextStart
    <3>4. BeginsLine(text, index + 1, index + 1)
      BY <2>5 DEF BeginsLine
    <3>5. next = index + 1
      BY <3>4, <2>2, BeginOfLineUnique
    <3> QED BY <3>3, <3>5 DEF next
  <2>6. CASE text[index + 1] # Newline
    <3>1. line(index + 1) = line(index)
      <4>1. line(index + 1) = line(index) + 0
        BY <2>6, NewlineCount
      <4>2. line(index) \in Nat
        BY NewlinesFinite
      <4> HIDE DEF line
      <4> QED BY <4>1, <4>2
    <3>2. BeginsLine(text, index + 1, start)
      BY <2>2, <2>4, <2>6 DEF BeginsLine
    <3>3. next = start
      BY <3>2, <2>2, BeginOfLineUnique
    <3> QED BY <3>1, <3>3, <2>3 DEF next
  <2> QED BY <2>5, <2>6 DEF next
<1> HIDE DEF S
<1>3. \A index \in Nat : index \in S
  BY <1>1, <1>2, Induction
<1> QED BY <1>0, <1>3 DEF S

-----------------------------------------------------------------------------
(***************************************************************************)
(* A position that the client reports for an index, and that is neither at *)
(* the end of a line nor behind a wide character, is given that index.     *)
(***************************************************************************)
LEMMA NarrowPosition ==
    ASSUME NEW text \in Text, NEW index \in 0 .. Len(text), NarrowBefore(text, index)
    PROVE  PositionOf(text, index) = [ line      |-> Cardinality(NewlinesBefore(text, index)),
                                       character |-> index - StartOfLine(text, index) ]
<1>1. /\ OfLineBefore(text, index, ContinuationBytes) = {}
      /\ OfLineBefore(text, index, FourByteLeads) = {}
  BY DEF NarrowBefore, OfLineBefore, Wide
<1>2. Cardinality({}) = 0
  BY FS_EmptySet
<1>3. StartOfLine(text, index) \in Int /\ index \in Int
  BY StartOfLineBegins DEF BeginsLine, Text
<1>4. index - StartOfLine(text, index) - 0 + 0 = index - StartOfLine(text, index)
  BY <1>3
<1> QED BY <1>1, <1>2, <1>4 DEF PositionOf

LEMMA IndexOfPosition ==
    ASSUME NEW text \in Text, NEW index \in 0 .. Len(text),
           ~AtEndOfLine(text, index), NarrowBefore(text, index)
    PROVE  get_position_index(text, PositionOf(text, index)) = index
<1> DEFINE start == StartOfLine(text, index)
<1>0. Len(text) \in Nat /\ index \in Nat
  BY DEF Text
<1>1. BeginsLine(text, index, start)
  BY StartOfLineBegins
<1>2. start \in 0 .. index
  BY <1>1 DEF BeginsLine
<1>3. LineStart(text, PositionOf(text, index).line) = start
  BY NarrowPosition, LineOfPosition
<1>4. PositionOf(text, index).character = index - start
  BY NarrowPosition
<1> HIDE DEF start
<1>5. start + (index - start) = index /\ start # npos /\ start \in Nat
  BY <1>0, <1>2 DEF npos
<1>6. index # Len(text) /\ text[index + 1] # Newline
  BY DEF AtEndOfLine
<1>7. index < LineEnd(text, start)
  <2>1. CASE FindNewline(text, start) = npos
    BY <1>0, <1>6, <2>1 DEF LineEnd
  <2>2. CASE FindNewline(text, start) # npos
    <3> DEFINE next == FindNewline(text, start)
    <3>1. next \in start .. Len(text) - 1 /\ text[next + 1] = Newline
      BY <1>5, <2>2, FindNewlineFirst
    <3>2. LineEnd(text, start) = next
      BY <2>2 DEF LineEnd
    <3> HIDE DEF next
    <3>3. ~(next < index)
      BY <1>0, <1>1, <1>5, <3>1 DEF BeginsLine
    <3>4. next # index
      BY <1>6, <3>1
    <3> QED BY <1>0, <1>5, <3>1, <3>2, <3>3, <3>4
  <2> QED BY <2>1, <2>2
<1> QED BY <1>3, <1>4, <1>5, <1>7 DEF get_position_index

-----------------------------------------------------------------------------
(***************************************************************************)
(* The edits of the client and the changes that report them.               *)
(***************************************************************************)
LEMMA SpliceType ==
    ASSUME NEW text \in Text, NEW from \in 0 .. Len(text), NEW to \in 0 .. Len(text),
           NEW insertion \in Text
    PROVE  Splice(text, from, to, insertion) \in Text
<1>0. Len(text) \in Nat
  BY DEF Text
<1>1. SubstrTo(text, from) \in Text
  BY <1>0 DEF SubstrTo, Text
<1>2. SubstrFrom(text, to) \in Text
  BY <1>0 DEF SubstrFrom, Text
<1> QED BY <1>1, <1>2 DEF Splice, Text

LEMMA EditType ==
    ASSUME NEW text \in Text, NEW edit \in Edits(text)
    PROVE  /\ edit[1][1] \in 0 .. Len(text) /\ edit[1][2] \in 0 .. Len(text)
           /\ edit[1][1] <= edit[1][2]
           /\ edit[2] \in Text
           /\ Apply(text, edit) \in Text
<1>1. edit[2] \in Insertions /\ edit[1] \in Boundaries(text) \X Boundaries(text)
      /\ edit[1][1] <= edit[1][2]
  BY DEF Edits
<1>2. edit[1][1] \in 0 .. Len(text) /\ edit[1][2] \in 0 .. Len(text)
  BY <1>1 DEF Boundaries
<1>3. edit[2] \in Text
  BY <1>1, TextsAssumption
<1> QED BY <1>1, <1>2, <1>3, SpliceType DEF Apply

LEMMA NarrowUnitsBetween ==
    ASSUME NEW text \in Text, NEW from \in 0 .. Len(text), NEW to \in 0 .. Len(text), from <= to,
           NarrowBetween(text, from, to)
    PROVE  UnitsBetween(text, from, to) = to - from
<1> DEFINE part == SubSeq(text, from + 1, to)
<1>0. Len(text) \in Nat /\ from \in Nat /\ to \in Nat
  BY DEF Text
<1>1. Len(part) = to - from /\ DOMAIN part = 1 .. to - from
  BY <1>0 DEF Text
<1>2. \A i \in DOMAIN part : part[i] \notin Wide
  <2> SUFFICES ASSUME NEW i \in DOMAIN part PROVE part[i] \notin Wide
    OBVIOUS
  <2>1. i \in 1 .. to - from
    BY <1>1
  <2>2. part[i] = text[from + i]
    BY <1>0, <2>1 DEF Text
  <2>3. from + i - 1 \in from .. to - 1 /\ (from + i - 1) + 1 = from + i
    BY <1>0, <2>1
  <2>4. text[(from + i - 1) + 1] \notin Wide
    BY <2>3 DEF NarrowBetween
  <2> QED BY <2>2, <2>3, <2>4
<1> HIDE DEF part
<1>3. /\ { i \in DOMAIN part : part[i] \in ContinuationBytes } = {}
      /\ { i \in DOMAIN part : part[i] \in FourByteLeads } = {}
  BY <1>2 DEF Wide
<1>4. UnitsBetween(text, from, to)
        = Len(part) - Cardinality({ i \in DOMAIN part : part[i] \in ContinuationBytes })
                    + Cardinality({ i \in DOMAIN part : part[i] \in FourByteLeads })
  BY DEF UnitsBetween, part
<1>5. Cardinality({}) = 0
  BY FS_EmptySet
<1>6. UnitsBetween(text, from, to) = Len(part) - 0 + 0
  BY <1>3, <1>4, <1>5
<1> QED BY <1>0, <1>1, <1>6

\* What the server makes of a report that it follows is what the client did.
LEMMA FollowedReport ==
    ASSUME NEW text \in Text, NEW edit \in Edits(text), NEW withLength \in BOOLEAN,
           ~Unfollowed(text, edit, withLength)
    PROVE  ApplyChange(text, Report(text, edit[1][1], edit[1][2], edit[2], withLength))
             = Apply(text, edit)
<1> DEFINE from == edit[1][1]
           to == edit[1][2]
           change == Report(text, from, to, edit[2], withLength)
<1>1. from \in 0 .. Len(text) /\ to \in 0 .. Len(text) /\ from <= to
  BY EditType
<1>2. /\ ~AtEndOfLine(text, from) /\ NarrowBefore(text, from)
      /\ ~AtEndOfLine(text, to) /\ NarrowBefore(text, to)
      /\ withLength => NarrowBetween(text, from, to)
  BY DEF Unfollowed
<1>3. /\ change.range = <<PositionOf(text, from), PositionOf(text, to)>>
      /\ change.rangeLength = IF withLength THEN <<UnitsBetween(text, from, to)>> ELSE <<>>
      /\ change.text = edit[2]
  BY DEF Report
<1>4. /\ change.range[1] = PositionOf(text, from) /\ change.range[2] = PositionOf(text, to)
      /\ change.range # <<>>
  BY <1>3
<1>8. Apply(text, edit) = Splice(text, from, to, edit[2])
  BY DEF Apply
<1> HIDE DEF from, to, change
<1>5. /\ get_position_index(text, change.range[1]) = from
      /\ get_position_index(text, change.range[2]) = to
  BY <1>1, <1>2, <1>4, IndexOfPosition
<1>6. change.rangeLength # <<>> => change.rangeLength[1] = to - from
  <2>1. CASE withLength
    <3>1. UnitsBetween(text, from, to) = to - from
      BY <1>1, <1>2, <2>1, NarrowUnitsBetween
    <3> QED BY <1>3, <2>1, <3>1
  <2> QED BY <1>3, <2>1
<1>7. Applicable(text, change)
  <2>1. from # npos /\ to # npos
    BY <1>1 DEF npos
  <2> QED BY <1>1, <1>5, <1>6, <2>1 DEF Applicable
<1>9. ApplyChange(text, change) = Splice(text, from, to, edit[2])
  BY <1>3, <1>4, <1>5, <1>7 DEF ApplyChange
<1> QED BY <1>8, <1>9 DEF from, to, change

LEMMA OneChange ==
    ASSUME NEW source, NEW change
    PROVE  change_source_code(source, <<change>>) = ApplyChange(source, change)
<1> DEFINE R(f) == f = [n \in 0 .. 1 |-> IF n = 0 THEN source ELSE ApplyChange(f[n - 1], <<change>>[n])]
           after == CHOOSE f : R(f)
           witness == [n \in 0 .. 1 |-> IF n = 0 THEN source ELSE ApplyChange(source, change)]
<1>1. change_source_code(source, <<change>>) = after[1]
  BY DEF change_source_code
<1>2. R(witness)
  <2>1. \A n \in 0 .. 1 : witness[n] = IF n = 0 THEN source ELSE ApplyChange(witness[n - 1], <<change>>[n])
    BY SMT
  <2> QED BY <2>1
<1>3. R(after)
  BY <1>2
<1> HIDE DEF after
<1>4. after[0] = source
  BY <1>3
<1>5. after[1] = ApplyChange(after[0], change)
  BY <1>3
<1> QED BY <1>1, <1>4, <1>5

LEMMA TwoChanges ==
    ASSUME NEW source, NEW change, NEW other
    PROVE  change_source_code(source, <<change, other>>)
             = ApplyChange(ApplyChange(source, change), other)
<1> DEFINE R(f) == f = [n \in 0 .. 2 |-> IF n = 0 THEN source
                                         ELSE ApplyChange(f[n - 1], <<change, other>>[n])]
           after == CHOOSE f : R(f)
           first == ApplyChange(source, change)
           witness == [n \in 0 .. 2 |-> IF n = 0 THEN source
                                        ELSE IF n = 1 THEN first ELSE ApplyChange(first, other)]
<1>1. change_source_code(source, <<change, other>>) = after[2]
  BY DEF change_source_code
<1>2. R(witness)
  <2>1. \A n \in 0 .. 2 : witness[n] = IF n = 0 THEN source
                                      ELSE ApplyChange(witness[n - 1], <<change, other>>[n])
    BY SMT
  <2> QED BY <2>1
<1>3. R(after)
  BY <1>2
<1> HIDE DEF after
<1>4. after[0] = source
  BY <1>3
<1>5. after[1] = ApplyChange(after[0], change)
  BY <1>3
<1>6. after[2] = ApplyChange(after[1], other)
  BY <1>3
<1> QED BY <1>1, <1>4, <1>5, <1>6

-----------------------------------------------------------------------------
(***************************************************************************)
(* Types: the server's text is one whatever it makes of a change.          *)
(***************************************************************************)
LEMMA LineStartType ==
    ASSUME NEW text \in Text
    PROVE  \A line \in Nat : LineStart(text, line) \in Nat \cup {npos}
<1> DEFINE S == { line \in Nat : LineStart(text, line) \in Nat \cup {npos} }
<1>1. 0 \in S
  BY LineStartRecursion
<1>2. ASSUME NEW line \in Nat, line \in S
      PROVE  line + 1 \in S
  <2> DEFINE start == LineStart(text, line)
  <2>1. LineStart(text, line + 1) = NextStart(text, start)
    BY LineStartRecursion
  <2>2. CASE start = npos
    BY <2>1, <2>2 DEF NextStart
  <2>3. CASE start \in Nat /\ start # npos
    <3>1. FindNewline(text, start) = npos \/ FindNewline(text, start) \in Nat
      BY <2>3, FindNewlineFirst
    <3> QED BY <2>1, <2>3, <3>1 DEF NextStart
  <2> QED BY <1>2, <2>2, <2>3
<1> HIDE DEF S
<1>3. \A line \in Nat : line \in S
  BY <1>1, <1>2, Induction
<1> QED BY <1>3 DEF S

LEMMA IndexType ==
    ASSUME NEW text \in Text, NEW position \in Position
    PROVE  get_position_index(text, position) \in {npos} \cup 0 .. Len(text) - 1
<1> DEFINE start == LineStart(text, position.line)
<1>1. position.line \in Nat /\ position.character \in Nat
  BY DEF Position
<1>2. start \in Nat \cup {npos}
  BY <1>1, LineStartType
<1>3. CASE start = npos
  BY <1>3 DEF get_position_index
<1>4. CASE start \in Nat
  <2>1. Len(text) \in Nat /\ LineEnd(text, start) <= Len(text) /\ LineEnd(text, start) \in Nat
    BY <1>4, FindNewlineFirst DEF LineEnd, Text
  <2> HIDE DEF start
  <2>2. start + position.character < LineEnd(text, start)
          => start + position.character \in 0 .. Len(text) - 1
    BY <1>1, <1>4, <2>1
  <2> QED BY <2>2 DEF get_position_index, start
<1> QED BY <1>2, <1>3, <1>4

LEMMA PositionType ==
    ASSUME NEW text \in Text, NEW index \in 0 .. Len(text)
    PROVE  PositionOf(text, index) \in Position
<1> DEFINE start == StartOfLine(text, index)
           continued == OfLineBefore(text, index, ContinuationBytes)
           leads == OfLineBefore(text, index, FourByteLeads)
<1>0. Len(text) \in Nat /\ index \in Nat
  BY DEF Text
<1>1. start \in 0 .. index
  BY StartOfLineBegins DEF BeginsLine
<1>2. continued \subseteq start .. index - 1 /\ leads \subseteq start .. index - 1
  BY DEF OfLineBefore
<1> HIDE DEF start, continued, leads
<1>3. /\ IsFiniteSet(start .. index - 1)
      /\ Cardinality(start .. index - 1) = IF start > index - 1 THEN 0 ELSE (index - 1) - start + 1
  <2>1. start \in Int /\ index - 1 \in Int
    BY <1>0, <1>1
  <2> QED BY <2>1, FS_Interval
<1>4. Cardinality(start .. index - 1) = index - start
  BY <1>0, <1>1, <1>3
<1>5. /\ Cardinality(continued) \in Nat /\ Cardinality(leads) \in Nat
      /\ Cardinality(continued) <= index - start
  BY <1>2, <1>3, <1>4, FS_Subset, FS_CardinalityType
<1>6. index - start - Cardinality(continued) + Cardinality(leads) \in Nat
  BY <1>0, <1>1, <1>5
<1>7. Cardinality(NewlinesBefore(text, index)) \in Nat
  BY <1>0, NewlinesFinite
<1> QED BY <1>6, <1>7 DEF PositionOf, Position, start, continued, leads

LEMMA ApplyChangeType ==
    ASSUME NEW source \in Text, NEW change, change.text \in Text,
           change.range = <<>> \/ change.range \in Position \X Position
    PROVE  ApplyChange(source, change) \in Text
<1>1. CASE change.range = <<>>
  BY <1>1 DEF ApplyChange
<1>2. CASE change.range # <<>> /\ Applicable(source, change)
  <2> DEFINE start == get_position_index(source, change.range[1])
             end == get_position_index(source, change.range[2])
  <2>1. change.range[1] \in Position /\ change.range[2] \in Position
    BY <1>2
  <2>2. start \in 0 .. Len(source) - 1 /\ end \in 0 .. Len(source) - 1
    BY <1>2, <2>1, IndexType DEF Applicable
  <2>3. start \in 0 .. Len(source) /\ end \in 0 .. Len(source)
    BY <2>2 DEF Text
  <2>4. Splice(source, start, end, change.text) \in Text
    BY <2>3, SpliceType
  <2> QED BY <1>2, <2>4 DEF ApplyChange
<1>3. CASE change.range # <<>> /\ ~Applicable(source, change)
  BY <1>3 DEF ApplyChange
<1> QED BY <1>1, <1>2, <1>3

LEMMA ReportType ==
    ASSUME NEW source \in Text, NEW text \in Text, NEW edit \in Edits(text), NEW withLength \in BOOLEAN
    PROVE  ApplyChange(source, Report(text, edit[1][1], edit[1][2], edit[2], withLength)) \in Text
<1> DEFINE change == Report(text, edit[1][1], edit[1][2], edit[2], withLength)
<1>1. change.text = edit[2] /\ change.range = <<PositionOf(text, edit[1][1]), PositionOf(text, edit[1][2])>>
  BY DEF Report
<1>2. change.text \in Text /\ change.range \in Position \X Position
  BY <1>1, EditType, PositionType
<1> HIDE DEF change
<1>3. ApplyChange(source, change) \in Text
  BY <1>2, ApplyChangeType
<1> QED BY <1>3 DEF change

-----------------------------------------------------------------------------
(***************************************************************************)
(* The invariant: Synchronised is inductive with the types, since lost     *)
(* remembers everything that the server did not follow.                    *)
(***************************************************************************)
DocumentsInv == CommandsInv /\ DocumentsTypeOK /\ Synchronised

LEMMA InitDocumentsInv == DocumentsInit => DocumentsInv
<1> SUFFICES ASSUME DocumentsInit PROVE DocumentsInv
  OBVIOUS
<1>1. CommandsInv
  BY InitCommandsInv DEF DocumentsInit
<1>2. DOMAIN editor = {} /\ DOMAIN files = {} /\ lost \in [Files -> Nat]
  BY DEF DocumentsInit
<1> QED BY <1>1, <1>2 DEF DocumentsInv, DocumentsTypeOK, Synchronised, CommandsInv

LEMMA OpenKeepsCommandsInv ==
    ASSUME DocumentsInv, NEW path \in Files, NEW text \in Texts, DidOpen(path, text)
    PROVE  CommandsInv'
<1>1. Lookup(path)
  BY DEF DidOpen, Lookup
<1> QED BY <1>1, LookupKeepsInv DEF DocumentsInv

LEMMA OpenKeepsInv ==
    ASSUME DocumentsInv, NEW path \in Files, NEW text \in Texts, DidOpen(path, text)
    PROVE  DocumentsInv'
<1> USE DEF DocumentsInv
<1>1. CommandsInv'
  BY OpenKeepsCommandsInv
<1>2. text \in Text
  BY TextsAssumption
<1>3. /\ DOMAIN editor' = DOMAIN editor \cup {path}
      /\ \A p \in DOMAIN editor : editor'[p] = editor[p]
      /\ editor'[path] = text
      /\ path \notin DOMAIN editor
  <2>1. editor' = Emplace(editor, [p \in {path} |-> text]) /\ path \notin DOMAIN editor
    BY DEF DidOpen
  <2> QED BY <2>1 DEF Emplace
<1>4. /\ DOMAIN files \subseteq DOMAIN files' /\ DOMAIN files' \subseteq DOMAIN files \cup {path}
      /\ \A p \in DOMAIN files : files'[p] = files[p]
      /\ path \in DOMAIN files' \ DOMAIN files =>
           \E command \in Command \cup {NoCommand} : files'[path] = NewFile(command, text)
  <2>1. CASE UNCHANGED files
    BY <2>1
  <2>2. CASE \E command \in Command \cup {NoCommand} :
               files' = Emplace(files, [p \in {path} |-> NewFile(command, text)])
    <3>1. PICK command \in Command \cup {NoCommand} :
            files' = Emplace(files, [p \in {path} |-> NewFile(command, text)])
      BY <2>2
    <3> DEFINE file == NewFile(command, text)
    <3> HIDE DEF file
    <3>2. files' = Emplace(files, [p \in {path} |-> file])
      BY <3>1 DEF file
    <3>3. /\ DOMAIN files' = DOMAIN files \cup {path}
          /\ \A p \in DOMAIN files : files'[p] = files[p]
          /\ path \notin DOMAIN files => files'[path] = file
      BY <3>2 DEF Emplace
    <3> QED BY <3>1, <3>3 DEF file
  <2> QED BY <2>1, <2>2 DEF DidOpen
<1>5. lost \in [Files -> Nat]
  BY DEF DocumentsTypeOK
<1>6. /\ lost' \in [Files -> Nat]
      /\ \A p \in Files : p # path => lost'[p] = lost[p]
      /\ lost'[path] = 0 => lost[path] = 0 /\ (path \in DOMAIN files => files[path].source = text)
  <2>1. CASE lost[path] = 0 /\ path \in DOMAIN files /\ files[path].source # text
    <3>1. lost' = [lost EXCEPT ![path] = 1]
      BY <2>1 DEF DidOpen
    <3> QED BY <1>5, <3>1
  <2>2. CASE ~(lost[path] = 0 /\ path \in DOMAIN files /\ files[path].source # text)
    <3>1. lost' = lost
      BY <2>2 DEF DidOpen
    <3> QED BY <1>5, <2>2, <3>1
  <2> QED BY <2>1, <2>2
<1>7. DocumentsTypeOK'
  <2>1. DOMAIN editor' \subseteq Files /\ \A p \in DOMAIN editor' : editor'[p] \in Text
    BY <1>2, <1>3 DEF DocumentsTypeOK
  <2>2. DOMAIN files' \subseteq Files
    BY <1>4 DEF DocumentsTypeOK
  <2>3. \A p \in DOMAIN files' : files'[p] \in [argv : Command \cup {NoCommand}, source : Text]
    <3> SUFFICES ASSUME NEW p \in DOMAIN files'
                 PROVE  files'[p] \in [argv : Command \cup {NoCommand}, source : Text]
      OBVIOUS
    <3>1. CASE p \in DOMAIN files
      BY <1>4, <3>1 DEF DocumentsTypeOK
    <3>2. CASE p \notin DOMAIN files
      <4>1. p = path
        BY <1>4, <3>2
      <4>2. PICK command \in Command \cup {NoCommand} : files'[path] = NewFile(command, text)
        BY <1>4, <3>2, <4>1
      <4> QED BY <1>2, <4>1, <4>2 DEF NewFile
    <3> QED BY <3>1, <3>2
  <2> QED BY <1>1, <1>6, <2>1, <2>2, <2>3 DEF DocumentsTypeOK, CommandsInv
<1>8. Synchronised'
  <2> SUFFICES ASSUME NEW p \in DOMAIN editor' \cap DOMAIN files', lost'[p] = 0
               PROVE  files'[p].source = editor'[p]
    BY DEF Synchronised
  <2>1. CASE p # path
    <3>1. p \in DOMAIN editor \cap DOMAIN files /\ lost[p] = 0
      BY <1>3, <1>4, <1>6, <2>1 DEF DocumentsTypeOK
    <3> QED BY <1>3, <1>4, <3>1 DEF Synchronised
  <2>2. CASE p = path /\ path \in DOMAIN files
    BY <1>3, <1>4, <1>6, <2>2
  <2>3. CASE p = path /\ path \notin DOMAIN files
    BY <1>3, <1>4, <2>3 DEF NewFile
  <2> QED BY <2>1, <2>2, <2>3
<1> QED BY <1>1, <1>7, <1>8

-----------------------------------------------------------------------------
\* What on_textDocument_didChange does to the files.
LEMMA Handled ==
    ASSUME DocumentsTypeOK, NEW path \in Files, NEW changes, Handle(path, changes)
    PROVE  /\ DOMAIN files' = DOMAIN files
           /\ \A p \in DOMAIN files : p # path => files'[p] = files[p]
           /\ path \in DOMAIN files =>
                /\ files'[path].source = change_source_code(files[path].source, changes)
                /\ files'[path].argv = files[path].argv
                /\ files'[path].source \in Text =>
                     files'[path] \in [argv : Command \cup {NoCommand}, source : Text]
<1>1. CASE path \notin DOMAIN files
  BY <1>1 DEF Handle
<1>2. CASE path \in DOMAIN files
  <2> DEFINE source == change_source_code(files[path].source, changes)
  <2>1. files' = [files EXCEPT ![path].source = source]
    BY <1>2 DEF Handle
  <2> HIDE DEF source
  <2>2. files[path] \in [argv : Command \cup {NoCommand}, source : Text]
    BY <1>2 DEF DocumentsTypeOK
  <2>3. /\ DOMAIN files' = DOMAIN files
        /\ \A p \in DOMAIN files : p # path => files'[p] = files[p]
        /\ files'[path] = [files[path] EXCEPT !.source = source]
    BY <1>2, <2>1
  <2>4. files'[path] = [argv |-> files[path].argv, source |-> source]
    BY <2>2, <2>3
  <2>5. files'[path].source = source /\ files'[path].argv = files[path].argv
    BY <2>4
  <2>6. source \in Text => files'[path] \in [argv : Command \cup {NoCommand}, source : Text]
    BY <2>2, <2>4
  <2> QED BY <2>3, <2>5, <2>6 DEF source
<1> QED BY <1>1, <1>2

(***************************************************************************)
(* A notification that changes one text in the editor keeps the invariant  *)
(* if what the server makes of it is a text, and the same one unless lost  *)
(* says otherwise.                                                         *)
(***************************************************************************)
LEMMA ChangeKeepsInv ==
    ASSUME DocumentsInv, NEW path \in DOMAIN editor, NEW text \in Text, NEW changes,
           editor' = [editor EXCEPT ![path] = text],
           Handle(path, changes),
           UNCHANGED commandVars,
           lost' \in [Files -> Nat], \A p \in Files : p # path => lost'[p] = lost[p],
           path \in DOMAIN files => change_source_code(files[path].source, changes) \in Text,
           path \in DOMAIN files /\ lost'[path] = 0 =>
             change_source_code(files[path].source, changes) = text
    PROVE  DocumentsInv'
<1> USE DEF DocumentsInv
<1>0. path \in Files
  BY DEF DocumentsTypeOK
<1>1. CommandsInv'
  BY DEF CommandsInv, CommandsTypeOK, OnlyListedCommands, DiskListed, commandVars
<1>2. /\ DOMAIN editor' = DOMAIN editor /\ editor'[path] = text
      /\ \A p \in DOMAIN editor : p # path => editor'[p] = editor[p]
  OBVIOUS
<1>3. /\ DOMAIN files' = DOMAIN files
      /\ \A p \in DOMAIN files : p # path => files'[p] = files[p]
      /\ path \in DOMAIN files =>
           /\ files'[path].source = change_source_code(files[path].source, changes)
           /\ files'[path] \in [argv : Command \cup {NoCommand}, source : Text]
  BY <1>0, Handled
<1>4. DocumentsTypeOK'
  <2>1. DOMAIN editor' \subseteq Files /\ \A p \in DOMAIN editor' : editor'[p] \in Text
    BY <1>2 DEF DocumentsTypeOK
  <2>2. DOMAIN files' \subseteq Files
    BY <1>3 DEF DocumentsTypeOK
  <2>3. \A p \in DOMAIN files' : files'[p] \in [argv : Command \cup {NoCommand}, source : Text]
    BY <1>3 DEF DocumentsTypeOK
  <2> QED BY <1>1, <2>1, <2>2, <2>3 DEF DocumentsTypeOK, CommandsInv
<1>5. Synchronised'
  <2> SUFFICES ASSUME NEW p \in DOMAIN editor' \cap DOMAIN files', lost'[p] = 0
               PROVE  files'[p].source = editor'[p]
    BY DEF Synchronised
  <2>1. CASE p # path
    <3>1. p \in DOMAIN editor \cap DOMAIN files /\ lost[p] = 0
      BY <1>2, <1>3, <2>1 DEF DocumentsTypeOK
    <3> QED BY <1>2, <1>3, <2>1, <3>1 DEF Synchronised
  <2>2. CASE p = path
    BY <1>2, <1>3, <2>2
  <2> QED BY <2>1, <2>2
<1> QED BY <1>1, <1>4, <1>5

LEMMA ReplaceKeepsInv ==
    ASSUME DocumentsInv, NEW path \in Files, NEW text \in Texts, ReplaceText(path, text)
    PROVE  DocumentsInv'
<1> DEFINE change == [range |-> <<>>, rangeLength |-> <<>>, text |-> text]
<1>1. /\ path \in DOMAIN editor /\ editor' = [editor EXCEPT ![path] = text]
      /\ Handle(path, <<change>>) /\ UNCHANGED commandVars
      /\ lost' = [lost EXCEPT ![path] = 0]
  BY DEF ReplaceText
<1>2. text \in Text
  BY TextsAssumption
<1>3. \A source : change_source_code(source, <<change>>) = text
  BY OneChange DEF ApplyChange
<1>4. lost' \in [Files -> Nat] /\ \A p \in Files : p # path => lost'[p] = lost[p]
  BY <1>1 DEF DocumentsInv, DocumentsTypeOK
<1> HIDE DEF change
<1> QED BY <1>1, <1>2, <1>3, <1>4, ChangeKeepsInv

LEMMA ReportedCounts ==
    ASSUME DocumentsTypeOK, NEW path \in Files, NEW unfollowed \in BOOLEAN, Reported(path, unfollowed)
    PROVE  /\ lost' \in [Files -> Nat]
           /\ \A p \in Files : p # path => lost'[p] = lost[p]
           /\ lost'[path] = 0 => lost[path] = 0 /\ ~unfollowed
<1>1. lost \in [Files -> Nat] /\ lost[path] \in Nat
  BY DEF DocumentsTypeOK
<1>2. CASE unfollowed \/ lost[path] > 0
  <2>1. lost' = [lost EXCEPT ![path] = lost[path] + 1]
    BY <1>2 DEF Reported
  <2>2. lost[path] + 1 \in Nat /\ lost[path] + 1 # 0
    BY <1>1
  <2> QED BY <1>1, <2>1, <2>2
<1>3. CASE ~unfollowed /\ ~(lost[path] > 0)
  <2>1. lost' = lost
    BY <1>3 DEF Reported
  <2> QED BY <1>1, <1>3, <2>1
<1> QED BY <1>2, <1>3

LEMMA EditKeepsInv ==
    ASSUME DocumentsInv, NEW path \in Files, NEW withLength \in BOOLEAN, EditText(path, withLength)
    PROVE  DocumentsInv'
<1> USE DEF DocumentsInv
<1> DEFINE text == editor[path]
           report(t, edit) == Report(t, edit[1][1], edit[1][2], edit[2], withLength)
<1>1. path \in DOMAIN editor /\ text \in Text /\ UNCHANGED commandVars
  BY DEF EditText, DocumentsTypeOK
<1>2. path \in DOMAIN files => files[path].source \in Text /\ (lost[path] = 0 => files[path].source = text)
  BY <1>1 DEF DocumentsTypeOK, Synchronised
<1>3. PICK first \in Edits(text) :
        LET text1 == Apply(text, first)
        IN \/ /\ editor' = [editor EXCEPT ![path] = text1]
              /\ Handle(path, <<report(text, first)>>)
              /\ Reported(path, Unfollowed(text, first, withLength))
           \/ \E second \in Edits(text1) :
                /\ editor' = [editor EXCEPT ![path] = Apply(text1, second)]
                /\ Handle(path, <<report(text, first), report(text1, second)>>)
                /\ Reported(path, \/ Unfollowed(text, first, withLength)
                                  \/ Unfollowed(text1, second, withLength))
  BY DEF EditText
<1> DEFINE text1 == Apply(text, first)
           report1 == report(text, first)
<1>4. text1 \in Text
  BY <1>1, EditType
<1>5. \A source \in Text : ApplyChange(source, report1) \in Text
  BY <1>1, ReportType
<1>6. ~Unfollowed(text, first, withLength) => ApplyChange(text, report1) = text1
  BY <1>1, FollowedReport
<1>7. Unfollowed(text, first, withLength) \in BOOLEAN
  BY DEF Unfollowed
<1>8. CASE /\ editor' = [editor EXCEPT ![path] = text1]
           /\ Handle(path, <<report1>>)
           /\ Reported(path, Unfollowed(text, first, withLength))
  <2>1. /\ lost' \in [Files -> Nat]
        /\ \A p \in Files : p # path => lost'[p] = lost[p]
        /\ lost'[path] = 0 => lost[path] = 0 /\ ~Unfollowed(text, first, withLength)
    BY <1>7, <1>8, ReportedCounts
  <2>2. \A source : change_source_code(source, <<report1>>) = ApplyChange(source, report1)
    BY OneChange
  <2> HIDE DEF text, report, text1, report1
  <2>3. path \in DOMAIN files => change_source_code(files[path].source, <<report1>>) \in Text
    BY <1>2, <1>5, <2>2
  <2>4. path \in DOMAIN files /\ lost'[path] = 0 =>
          change_source_code(files[path].source, <<report1>>) = text1
    BY <1>2, <1>6, <2>1, <2>2
  <2> QED BY <1>1, <1>4, <1>8, <2>1, <2>3, <2>4, ChangeKeepsInv
<1>9. ASSUME NEW second \in Edits(text1),
             editor' = [editor EXCEPT ![path] = Apply(text1, second)],
             Handle(path, <<report1, report(text1, second)>>),
             Reported(path, \/ Unfollowed(text, first, withLength)
                            \/ Unfollowed(text1, second, withLength))
      PROVE  DocumentsInv'
  <2> DEFINE report2 == report(text1, second)
             text2 == Apply(text1, second)
             changes == <<report1, report2>>
  <2>1. /\ lost' \in [Files -> Nat]
        /\ \A p \in Files : p # path => lost'[p] = lost[p]
        /\ lost'[path] = 0 => /\ lost[path] = 0
                              /\ ~Unfollowed(text, first, withLength)
                              /\ ~Unfollowed(text1, second, withLength)
    <3>1. (Unfollowed(text, first, withLength) \/ Unfollowed(text1, second, withLength)) \in BOOLEAN
      OBVIOUS
    <3> QED BY <1>9, <3>1, ReportedCounts
  <2>2. \A source : change_source_code(source, changes)
                      = ApplyChange(ApplyChange(source, report1), report2)
    BY TwoChanges
  <2>3. text2 \in Text
    BY <1>4, EditType
  <2>4. \A source \in Text : ApplyChange(source, report2) \in Text
    BY <1>4, ReportType
  <2>5. ~Unfollowed(text1, second, withLength) => ApplyChange(text1, report2) = text2
    BY <1>4, FollowedReport
  <2>8. editor' = [editor EXCEPT ![path] = text2] /\ Handle(path, changes)
    BY <1>9
  <2> HIDE DEF text, report, text1, report1, report2, text2, changes
  <2>6. path \in DOMAIN files => change_source_code(files[path].source, changes) \in Text
    BY <1>2, <1>5, <2>2, <2>4
  <2>7. path \in DOMAIN files /\ lost'[path] = 0 =>
          change_source_code(files[path].source, changes) = text2
    BY <1>2, <1>6, <2>1, <2>2, <2>5
  <2> QED BY <1>1, <2>1, <2>3, <2>6, <2>7, <2>8, ChangeKeepsInv
<1> QED BY <1>3, <1>8, <1>9

LEMMA NextKeepsDocumentsInv == DocumentsInv /\ [DocumentsNext]_vars => DocumentsInv'
<1> SUFFICES ASSUME DocumentsInv, [DocumentsNext]_vars PROVE DocumentsInv'
  OBVIOUS
<1>1. ASSUME NEW d \in Dirs, NEW db \in Database, WriteDatabase(d, db), UNCHANGED documentVars
      PROVE  DocumentsInv'
  <2>1. CommandsInv'
    BY <1>1, WriteKeepsInv DEF DocumentsInv
  <2> QED BY <1>1, <2>1 DEF DocumentsInv, DocumentsTypeOK, Synchronised, CommandsInv, documentVars
<1>2. ASSUME NEW path \in Files, DidClose(path)
      PROVE  DocumentsInv'
  <2>1. /\ DOMAIN editor' = DOMAIN editor \ {path}
        /\ \A p \in DOMAIN editor' : editor'[p] = editor[p]
        /\ files' = files /\ lost' = lost
    BY <1>2 DEF DidClose
  <2>2. CommandsInv'
    BY <1>2 DEF DidClose, DocumentsInv, CommandsInv, CommandsTypeOK, OnlyListedCommands,
                DiskListed, commandVars
  <2> QED BY <2>1, <2>2 DEF DocumentsInv, DocumentsTypeOK, Synchronised, CommandsInv
<1>3. CASE UNCHANGED vars
  BY <1>3 DEF vars, documentVars, commandVars, DocumentsInv, CommandsInv, CommandsTypeOK,
              OnlyListedCommands, DiskListed, DocumentsTypeOK, Synchronised
<1>4. CASE \E path \in Files : DidSave(path)
  BY <1>3, <1>4 DEF DidSave
<1> QED BY <1>1, <1>2, <1>3, <1>4, OpenKeepsInv, ReplaceKeepsInv, EditKeepsInv DEF DocumentsNext

LEMMA DocumentsInvHolds == DocumentsSpec => []DocumentsInv
<1> QED BY InitDocumentsInv, NextKeepsDocumentsInv, PTL DEF DocumentsSpec

-----------------------------------------------------------------------------
(***************************************************************************)
(* The documents and the commands have their types, for any files, texts   *)
(* and edits: whatever change_source_code makes of a change is a text.     *)
(***************************************************************************)
THEOREM DocumentsTypeCorrect == DocumentsSpec => []DocumentsTypeOK
<1>1. DocumentsInv => DocumentsTypeOK
  BY DEF DocumentsInv
<1> QED BY <1>1, DocumentsInvHolds, PTL

(***************************************************************************)
(* The server's text is that of the editor as long as every range of the   *)
(* client's changes is one that get_position_index follows, and a document *)
(* that is opened again has the text it had: for any number of documents   *)
(* and edits, texts of any length and any bytes.                           *)
(***************************************************************************)
THEOREM DocumentsSynchronised == DocumentsSpec => []Synchronised
<1>1. DocumentsInv => Synchronised
  BY DEF DocumentsInv
<1> QED BY <1>1, DocumentsInvHolds, PTL

-----------------------------------------------------------------------------
(***************************************************************************)
(* IndexExact holds of every text.  First the lines: what LineStart finds  *)
(* is the begin of a line with as many newlines before it.                 *)
(***************************************************************************)
LEMMA BeginOfFoundLine ==
    ASSUME NEW text \in Text
    PROVE  \A line \in Nat : LineStart(text, line) # npos =>
             /\ LineStart(text, line) \in 0 .. Len(text)
             /\ LineStart(text, line) = 0 \/ text[LineStart(text, line)] = Newline
             /\ Cardinality(NewlinesBefore(text, LineStart(text, line))) = line
<1> DEFINE P(line) == LineStart(text, line) # npos =>
                        /\ LineStart(text, line) \in 0 .. Len(text)
                        /\ LineStart(text, line) = 0 \/ text[LineStart(text, line)] = Newline
                        /\ Cardinality(NewlinesBefore(text, LineStart(text, line))) = line
           S == { line \in Nat : P(line) }
<1>0. Len(text) \in Nat
  BY DEF Text
<1>1. 0 \in S
  <2>1. LineStart(text, 0) = 0
    BY LineStartRecursion
  <2>2. NewlinesBefore(text, 0) = {}
    BY DEF NewlinesBefore
  <2>3. Cardinality(NewlinesBefore(text, 0)) = 0 /\ 0 \in 0 .. Len(text)
    BY <1>0, <2>2, FS_EmptySet
  <2> QED BY <2>1, <2>3
<1>2. ASSUME NEW line \in Nat, line \in S
      PROVE  line + 1 \in S
  <2> DEFINE start == LineStart(text, line)
             next  == FindNewline(text, start)
  <2> SUFFICES ASSUME LineStart(text, line + 1) # npos
               PROVE  P(line + 1)
    OBVIOUS
  <2>1. LineStart(text, line + 1) = NextStart(text, start)
    BY LineStartRecursion
  <2>2. start # npos /\ next # npos /\ LineStart(text, line + 1) = next + 1
    BY <2>1 DEF NextStart
  <2>3. start \in 0 .. Len(text) /\ Cardinality(NewlinesBefore(text, start)) = line
    BY <1>2, <2>2
  <2> HIDE DEF S, start
  <2>4. /\ next \in start .. Len(text) - 1 /\ text[next + 1] = Newline
        /\ \A i \in start .. next - 1 : text[i + 1] # Newline
    BY <1>0, <2>2, <2>3, FindNewlineFirst
  <2> HIDE DEF next
  <2>5. next \in Nat /\ next + 1 \in 0 .. Len(text)
    BY <1>0, <2>3, <2>4
  <2>6. NewlinesBefore(text, next) = NewlinesBefore(text, start)
    <3>1. \A i \in 0 .. next - 1 : i \in 0 .. start - 1 \/ i \in start .. next - 1
      BY <1>0, <2>3, <2>5
    <3>2. \A i \in 0 .. start - 1 : i \in 0 .. next - 1
      BY <1>0, <2>3, <2>4
    <3> QED BY <2>4, <3>1, <3>2 DEF NewlinesBefore
  <2>7. Cardinality(NewlinesBefore(text, next + 1)) = line + 1
    BY <2>3, <2>4, <2>5, <2>6, NewlineCount
  <2> QED BY <2>2, <2>4, <2>5, <2>7
<1> HIDE DEF S
<1>3. \A line \in Nat : line \in S
  BY <1>1, <1>2, Induction
<1> QED BY <1>3 DEF S

LEMMA LineEndAfter ==
    ASSUME NEW text \in Text, NEW start \in Nat, start <= Len(text)
    PROVE  /\ LineEnd(text, start) \in start .. Len(text)
           /\ LineEnd(text, start) = Len(text) \/ text[LineEnd(text, start) + 1] = Newline
           /\ \A i \in start .. LineEnd(text, start) - 1 : text[i + 1] # Newline
<1>1. Len(text) \in Nat
  BY DEF Text
<1>2. CASE FindNewline(text, start) = npos
  <2>1. LineEnd(text, start) = Len(text)
    BY <1>2 DEF LineEnd
  <2>2. npos \notin start .. Len(text) - 1
    BY DEF npos
  <2> QED BY <1>1, <1>2, <2>1, <2>2, FindNewlineFirst
<1>3. CASE FindNewline(text, start) # npos
  <2>1. LineEnd(text, start) = FindNewline(text, start)
    BY <1>3 DEF LineEnd
  <2> QED BY <1>1, <1>3, <2>1, FindNewlineFirst
<1> QED BY <1>2, <1>3

\* An index that is found is on the line, and as far behind its begin, as asked for.
LEMMA FoundIndex ==
    ASSUME NEW text \in Text, NEW position \in Position,
           get_position_index(text, position) # npos
    PROVE  LET index == get_position_index(text, position)
           IN  /\ index \in 0 .. Len(text) - 1
               /\ Cardinality(NewlinesBefore(text, index)) = position.line
               /\ index - StartOfLine(text, index) = position.character
<1> DEFINE index == get_position_index(text, position)
           start == LineStart(text, position.line)
<1>0. Len(text) \in Nat /\ position.line \in Nat /\ position.character \in Nat
  BY DEF Text, Position
<1>1. index \in 0 .. Len(text) - 1
  BY IndexType DEF npos
<1>2. start # npos /\ index = start + position.character /\ index < LineEnd(text, start)
  BY DEF get_position_index
<1>3. /\ start \in 0 .. Len(text)
      /\ start = 0 \/ text[start] = Newline
      /\ Cardinality(NewlinesBefore(text, start)) = position.line
  BY <1>0, <1>2, BeginOfFoundLine
<1> HIDE DEF index, start
<1>4. /\ LineEnd(text, start) \in start .. Len(text)
      /\ \A i \in start .. LineEnd(text, start) - 1 : text[i + 1] # Newline
  BY <1>0, <1>3, LineEndAfter
<1>5. \A i \in start .. index - 1 : text[i + 1] # Newline
  <2>1. LineEnd(text, start) \in Int /\ start \in Int /\ index \in Int /\ index < LineEnd(text, start)
    BY <1>0, <1>1, <1>2, <1>3, <1>4
  <2>2. \A i \in start .. index - 1 : i \in start .. LineEnd(text, start) - 1
    BY <2>1
  <2> QED BY <1>4, <2>2
<1>6. NewlinesBefore(text, index) = NewlinesBefore(text, start)
  <2>1. \A i \in 0 .. index - 1 : i \in 0 .. start - 1 \/ i \in start .. index - 1
    BY <1>0, <1>1, <1>3
  <2>2. \A i \in 0 .. start - 1 : i \in 0 .. index - 1
    <3>1. start \in Nat /\ index \in Nat /\ start <= index
      BY <1>0, <1>1, <1>2, <1>3
    <3> QED BY <3>1
  <2> QED BY <1>5, <2>1, <2>2 DEF NewlinesBefore
<1>7. BeginsLine(text, index, start)
  BY <1>0, <1>1, <1>2, <1>3, <1>5 DEF BeginsLine
<1>8. StartOfLine(text, index) = start
  <2>1. index \in 0 .. Len(text) /\ index \in Nat
    BY <1>0, <1>1
  <2>2. BeginsLine(text, index, StartOfLine(text, index))
    BY <2>1, StartOfLineBegins
  <2> QED BY <1>7, <2>1, <2>2, BeginOfLineUnique
<1>9. index - start = position.character
  BY <1>0, <1>2, <1>3
<1> QED BY <1>1, <1>3, <1>6, <1>8, <1>9 DEF index

\* The end of a line has no index.
LEMMA NoIndexAtEnd ==
    ASSUME NEW text \in Text, NEW index \in 0 .. Len(text),
           AtEndOfLine(text, index), NarrowBefore(text, index)
    PROVE  get_position_index(text, PositionOf(text, index)) = npos
<1> DEFINE start == StartOfLine(text, index)
<1>0. Len(text) \in Nat /\ index \in Nat
  BY DEF Text
<1>1. BeginsLine(text, index, start)
  BY StartOfLineBegins
<1>2. start \in 0 .. index
  BY <1>1 DEF BeginsLine
<1>3. LineStart(text, PositionOf(text, index).line) = start
  BY NarrowPosition, LineOfPosition
<1>4. PositionOf(text, index).character = index - start
  BY NarrowPosition
<1> HIDE DEF start
<1>5. start + (index - start) = index /\ start \in Nat /\ start <= Len(text)
  BY <1>0, <1>2
<1>6. index = Len(text) \/ text[index + 1] = Newline
  BY DEF AtEndOfLine
<1>7. ~(index < LineEnd(text, start))
  <2>1. /\ LineEnd(text, start) \in start .. Len(text)
        /\ \A i \in start .. LineEnd(text, start) - 1 : text[i + 1] # Newline
    BY <1>5, LineEndAfter
  <2> QED BY <1>0, <1>2, <1>6, <2>1
<1> QED BY <1>3, <1>4, <1>5, <1>7 DEF get_position_index

(***************************************************************************)
(* Behind a wide character there are more bytes than units: each character *)
(* that counts twice has three bytes that do not count.                    *)
(***************************************************************************)
LEMMA FewerLeads ==
    ASSUME NEW text \in Text, NEW index \in Boundaries(text), Uncut(text),
           ~NarrowBefore(text, index)
    PROVE  Cardinality(OfLineBefore(text, index, FourByteLeads))
             < Cardinality(OfLineBefore(text, index, ContinuationBytes))
<1> DEFINE start == StartOfLine(text, index)
           leads == OfLineBefore(text, index, FourByteLeads)
           continued == OfLineBefore(text, index, ContinuationBytes)
<1>0. Len(text) \in Nat /\ index \in 0 .. Len(text) /\ index \in Nat
  BY DEF Text, Boundaries
<1>1. index = Len(text) \/ text[index + 1] \notin ContinuationBytes
  BY DEF Boundaries
<1>2. start \in 0 .. index
  BY <1>0, StartOfLineBegins DEF BeginsLine
<1>3. /\ leads = { i \in start .. index - 1 : text[i + 1] \in FourByteLeads }
      /\ continued = { i \in start .. index - 1 : text[i + 1] \in ContinuationBytes }
  BY DEF OfLineBefore
<1>4. leads # {} \/ continued # {}
  BY DEF NarrowBefore, OfLineBefore, Wide
<1> HIDE DEF start, leads, continued
<1>5. IsFiniteSet(continued) /\ Cardinality(continued) \in Nat
  <2>1. start \in Int /\ index - 1 \in Int
    BY <1>0, <1>2
  <2>2. IsFiniteSet(start .. index - 1)
    BY <2>1, FS_Interval
  <2> QED BY <1>3, <2>2, FS_Subset, FS_CardinalityType
<1>6. CASE leads = {}
  <2>1. Cardinality(continued) # 0
    BY <1>4, <1>5, <1>6, FS_EmptySet
  <2> QED BY <1>5, <1>6, <2>1, FS_EmptySet DEF leads, continued
<1>7. CASE leads # {}
  <2>1. \A i \in leads : i + 1 \in continued /\ i + 2 \in continued
    <3> SUFFICES ASSUME NEW i \in leads PROVE i + 1 \in continued /\ i + 2 \in continued
      OBVIOUS
    <3>1. i \in start .. index - 1 /\ text[i + 1] \in FourByteLeads /\ i \in Nat
      BY <1>0, <1>2, <1>3
    <3>2. i + 1 \in DOMAIN text
      BY <1>0, <1>2, <3>1 DEF Text
    <3>3. \A k \in 1 .. 3 : (i + 1) + k <= Len(text) /\ text[(i + 1) + k] \in ContinuationBytes
      BY <3>1, <3>2 DEF Uncut
    <3>4. /\ (i + 1) + 1 <= Len(text) /\ text[(i + 1) + 1] \in ContinuationBytes
          /\ (i + 1) + 2 <= Len(text) /\ text[(i + 1) + 2] \in ContinuationBytes
          /\ (i + 1) + 3 <= Len(text) /\ text[(i + 1) + 3] \in ContinuationBytes
      BY <3>3
    <3>5. /\ (i + 1) + 1 = (i + 2) /\ (i + 1) + 2 = (i + 2) + 1
      BY <3>1
    <3>6. index # i + 1
      BY <1>0, <1>1, <3>1, <3>4
    <3>7. index # i + 2
      BY <1>0, <1>1, <3>1, <3>4, <3>5
    <3>8. i + 1 \in start .. index - 1 /\ i + 2 \in start .. index - 1
      BY <1>0, <1>2, <3>1, <3>6, <3>7
    <3> QED BY <1>3, <3>4, <3>5, <3>8
  <2> DEFINE f == [i \in leads |-> i + 1]
  <2>2. f \in Injection(leads, continued)
    <3>1. f \in [leads -> continued]
      BY <2>1
    <3>2. \A a, b \in leads : f[a] = f[b] => a = b
      BY <1>0, <1>2, <1>3
    <3> QED BY <3>1, <3>2 DEF Injection, IsInjective
  <2>3. PICK lead \in leads : TRUE
    BY <1>7
  <2>4. \A i \in leads : f[i] # lead + 2
    <3> SUFFICES ASSUME NEW i \in leads, i + 1 = lead + 2 PROVE FALSE
      OBVIOUS
    <3>1. i = lead + 1
      BY <1>0, <1>2, <1>3, <2>3
    <3>2. text[i + 1] \in FourByteLeads
      BY <1>3
    <3>3. lead + 1 \in continued
      BY <2>1, <2>3
    <3>4. text[i + 1] \in ContinuationBytes
      BY <1>3, <3>1, <3>3
    <3> QED BY <3>2, <3>4, EncodingAssumption
  <2>5. f \notin Surjection(leads, continued)
    <3>1. lead + 2 \in continued
      BY <2>1, <2>3
    <3> QED BY <2>4, <3>1 DEF Surjection
  <2> HIDE DEF f
  <2>6. /\ IsFiniteSet(leads)
        /\ Cardinality(leads) <= Cardinality(continued)
        /\ Cardinality(leads) # Cardinality(continued)
    BY <1>5, <2>2, <2>5, FS_Injection
  <2>7. Cardinality(leads) \in Nat
    BY <2>6, FS_CardinalityType
  <2> QED BY <1>5, <2>6, <2>7 DEF leads, continued
<1> QED BY <1>6, <1>7

LEMMA IndexBehindWide ==
    ASSUME NEW text \in Text, NEW index \in Boundaries(text), Uncut(text),
           ~NarrowBefore(text, index)
    PROVE  get_position_index(text, PositionOf(text, index)) \in StartOfLine(text, index) .. index - 1
<1> DEFINE start == StartOfLine(text, index)
           character == PositionOf(text, index).character
           leads == Cardinality(OfLineBefore(text, index, FourByteLeads))
           continued == Cardinality(OfLineBefore(text, index, ContinuationBytes))
<1>0. Len(text) \in Nat /\ index \in 0 .. Len(text) /\ index \in Nat
  BY DEF Text, Boundaries
<1>1. BeginsLine(text, index, start)
  BY <1>0, StartOfLineBegins
<1>2. LineStart(text, PositionOf(text, index).line) = start
  BY <1>0, LineOfPosition DEF PositionOf
<1>3. character = index - start - continued + leads /\ character \in Nat
  BY <1>0, PositionType DEF PositionOf, Position
<1>4. leads < continued
  BY FewerLeads
<1>5. leads \in Nat /\ continued \in Nat
  <2>1. start \in Int /\ index - 1 \in Int
    BY <1>0, <1>1 DEF BeginsLine
  <2>2. IsFiniteSet(start .. index - 1)
    BY <2>1, FS_Interval
  <2>3. /\ OfLineBefore(text, index, FourByteLeads) \subseteq start .. index - 1
        /\ OfLineBefore(text, index, ContinuationBytes) \subseteq start .. index - 1
    BY DEF OfLineBefore
  <2> QED BY <2>2, <2>3, FS_Subset, FS_CardinalityType
<1>6. start \in 0 .. index /\ start # npos /\ start \in Nat /\ start <= Len(text)
  BY <1>0, <1>1 DEF BeginsLine, npos
<1> HIDE DEF start, character, leads, continued
<1>7. start + character < index /\ start <= start + character
  BY <1>0, <1>3, <1>4, <1>5, <1>6
<1>8. index <= LineEnd(text, start)
  <2>1. /\ LineEnd(text, start) \in start .. Len(text)
        /\ LineEnd(text, start) = Len(text) \/ text[LineEnd(text, start) + 1] = Newline
    BY <1>6, LineEndAfter
  <2>2. \A i \in start .. index - 1 : text[i + 1] # Newline
    BY <1>1 DEF BeginsLine
  <2> QED BY <1>0, <1>6, <2>1, <2>2
<1>9. start + character < LineEnd(text, start)
  <2>1. LineEnd(text, start) \in Int
    BY <1>0, <1>6, LineEndAfter
  <2> QED BY <1>0, <1>3, <1>6, <1>7, <1>8, <2>1
<1>10. get_position_index(text, PositionOf(text, index)) = start + character
  BY <1>2, <1>6, <1>9 DEF get_position_index, character
<1>11. start + character \in start .. index - 1
  BY <1>0, <1>3, <1>6, <1>7
<1> QED BY <1>10, <1>11 DEF start

LEMMA EveryIndexExact ==
    ASSUME NEW text \in Text
    PROVE  IndexExact(text)
<1>1. ASSUME NEW i \in Boundaries(text)
      PROVE  LET index == get_position_index(text, PositionOf(text, i))
             IN  IF NarrowBefore(text, i)
                 THEN index = IF AtEndOfLine(text, i) THEN npos ELSE i
                 ELSE Uncut(text) => index \in StartOfLine(text, i) .. i - 1
  <2>1. i \in 0 .. Len(text)
    BY DEF Boundaries
  <2> QED BY <2>1, IndexOfPosition, NoIndexAtEnd, IndexBehindWide
<1>2. ASSUME NEW line \in 0 .. Len(text) + 1, NEW character \in 0 .. Len(text) + 1
      PROVE  LET index == get_position_index(text, [line |-> line, character |-> character])
             IN  index # npos =>
                   /\ index \in 0 .. Len(text) - 1
                   /\ Cardinality(NewlinesBefore(text, index)) = line
                   /\ index - StartOfLine(text, index) = character
  <2> DEFINE position == [line |-> line, character |-> character]
  <2>1. Len(text) \in Nat
    BY DEF Text
  <2>2. position \in Position /\ position.line = line /\ position.character = character
    BY <2>1 DEF Position
  <2> HIDE DEF position
  <2>3. get_position_index(text, position) # npos =>
          /\ get_position_index(text, position) \in 0 .. Len(text) - 1
          /\ Cardinality(NewlinesBefore(text, get_position_index(text, position))) = line
          /\ get_position_index(text, position)
               - StartOfLine(text, get_position_index(text, position)) = character
    BY <2>2, FoundIndex
  <2> QED BY <2>3 DEF position
<1> QED BY <1>1, <1>2 DEF IndexExact

(***************************************************************************)
(* get_position_index is exact on every text that the server comes to      *)
(* hold, of any length and any bytes: right in front of and between ASCII  *)
(* characters, none at the end of a line, never on another line, and never *)
(* outside the text.                                                       *)
(***************************************************************************)
THEOREM DocumentsPositionsExact == DocumentsSpec => []PositionIndexExact
<1>1. DocumentsInv => PositionIndexExact
  BY EveryIndexExact DEF DocumentsInv, DocumentsTypeOK, PositionIndexExact
<1> QED BY <1>1, DocumentsInvHolds, PTL

=============================================================================
