------------------------------ MODULE DfaCache ------------------------------
(***************************************************************************)
(* init_lexer: building the tables of the lexer takes long, so a server    *)
(* keeps them in a file of its working directory, wave_slex_lexer.dfa, and *)
(* the next server loads them from there, if they were saved by the same   *)
(* build.  Servers start, stop and crash; nothing locks the file.          *)
(*                                                                         *)
(* The file is a sequence of chunks, the first of which holds the          *)
(* signature, the version and the compilation time of the build.  An open  *)
(* file is read and written chunk by chunk at a place of its own, also     *)
(* while somebody else truncates or writes it.                             *)
(***************************************************************************)
EXTENDS Naturals, Sequences

CONSTANTS
    Servers,    \* the processes that can run in the directory
    Builds,     \* the builds of the server, told apart by compilation_time
    Size,       \* the chunks of a table
    MaxStarts   \* bound on the number of starts of all servers

ASSUME SizeAssumption == Size \in Nat \ {0}
ASSUME StartsAssumption == MaxStarts \in Nat

Image(b) == [n \in 1 .. Size |-> [build |-> b, index |-> n]]

\* Bytes that were never written read as zero.
Hole == [build |-> "zero", index |-> 0]

NoFile == [exists |-> FALSE, content |-> <<>>]

Steps == {"down", "loading", "compiling", "opening", "saving", "ready"}

VARIABLES
    file,    \* wave_slex_lexer.dfa
    pc,      \* how far each server has come in init_lexer
    build,   \* which build it is
    in_dfa,  \* what load has read so far
    m_dfa,   \* the tables of its lexer
    place,   \* how many chunks save has written
    starts,
    shared   \* history: a server was started while another was in init_lexer

vars == <<file, pc, build, in_dfa, m_dfa, place, starts, shared>>

CacheInit ==
    /\ file = NoFile
    /\ pc = [s \in Servers |-> "down"]
    /\ build \in [Servers -> Builds]
    /\ in_dfa = [s \in Servers |-> <<>>]
    /\ m_dfa = [s \in Servers |-> <<>>]
    /\ place = [s \in Servers |-> 0]
    /\ starts = 0
    /\ shared = FALSE

\* A server is started, and init_lexer opens the file for reading.
Start(s) ==
    /\ pc[s] = "down" /\ starts < MaxStarts
    /\ starts' = starts + 1
    /\ shared' = (shared \/ \E t \in Servers : pc[t] \notin {"down", "ready"})
    /\ \E b \in Builds : build' = [build EXCEPT ![s] = b]
    /\ pc' = [pc EXCEPT ![s] = IF file.exists THEN "loading" ELSE "compiling"]
    /\ in_dfa' = [in_dfa EXCEPT ![s] = <<>>]
    /\ m_dfa' = [m_dfa EXCEPT ![s] = <<>>]
    /\ place' = [place EXCEPT ![s] = 0]
    /\ UNCHANGED file

\* Mutant: the end of the file is tested too early.
AcceptableBeforeEnd(s) ==
    LET next == Len(in_dfa[s]) + 1
    IN  /\ next < Len(file.content)
        /\ next = 1 => file.content[1] = Image(build[s])[1]

\* slex_in, and the tests of the header: the next chunk of the file is accepted.
Acceptable(s) ==
    LET next == Len(in_dfa[s]) + 1
    IN  /\ next <= Len(file.content)
        /\ next = 1 => file.content[1] = Image(build[s])[1]

\* Mutant: the chunks are read into the tables of the lexer themselves.
ReadInPlace(s) ==
    LET read == Append(in_dfa[s], file.content[Len(in_dfa[s]) + 1])
    IN  /\ in_dfa' = [in_dfa EXCEPT ![s] = read]
        /\ m_dfa' = [m_dfa EXCEPT ![s] = read]
        /\ pc' = [pc EXCEPT ![s] = IF Len(read) = Size THEN "ready" ELSE "loading"]

\* The tables are replaced when all of them were read.
ReadChunk(s) ==
    LET read == Append(in_dfa[s], file.content[Len(in_dfa[s]) + 1])
    IN  /\ in_dfa' = [in_dfa EXCEPT ![s] = read]
        /\ m_dfa' = [m_dfa EXCEPT ![s] = IF Len(read) = Size THEN read ELSE m_dfa[s]]
        /\ pc' = [pc EXCEPT ![s] = IF Len(read) = Size THEN "ready" ELSE "loading"]

\* Mutant: the rest of the file is waited for.
ReadAgain(s) == UNCHANGED <<in_dfa, m_dfa, pc>>

\* load returned false.
Reject(s) ==
    /\ pc' = [pc EXCEPT ![s] = "compiling"]
    /\ UNCHANGED <<in_dfa, m_dfa>>

Load(s) ==
    /\ pc[s] = "loading"
    /\ \/ Acceptable(s) /\ ReadChunk(s)
       \/ ~Acceptable(s) /\ Reject(s)
    /\ UNCHANGED <<file, build, place, starts, shared>>

\* create_dfa appends to the tables that are there.
Compile(s) ==
    /\ pc[s] = "compiling"
    /\ m_dfa' = [m_dfa EXCEPT ![s] = m_dfa[s] \o Image(build[s])]
    /\ pc' = [pc EXCEPT ![s] = "opening"]
    /\ UNCHANGED <<file, build, in_dfa, place, starts, shared>>

\* Mutant: the file is not truncated.
OpenKeeping(s) ==
    /\ pc[s] = "opening"
    /\ file' = [file EXCEPT !.exists = TRUE]
    /\ pc' = [pc EXCEPT ![s] = "saving"]
    /\ UNCHANGED <<build, in_dfa, m_dfa, place, starts, shared>>

\* The file is created or truncated.
Open(s) ==
    /\ pc[s] = "opening"
    /\ file' = [exists |-> TRUE, content |-> <<>>]
    /\ pc' = [pc EXCEPT ![s] = "saving"]
    /\ UNCHANGED <<build, in_dfa, m_dfa, place, starts, shared>>

\* The file cannot be written, or not any further; the result of save is ignored.
GiveUp(s) ==
    /\ pc[s] \in {"opening", "saving"}
    /\ pc' = [pc EXCEPT ![s] = "ready"]
    /\ UNCHANGED <<file, build, in_dfa, m_dfa, place, starts, shared>>

\* The content after chunk n was written, whatever the length was before.
Written(content, n, chunk) ==
    [k \in 1 .. (IF n > Len(content) THEN n ELSE Len(content)) |->
        IF k = n THEN chunk ELSE IF k <= Len(content) THEN content[k] ELSE Hole]

\* save: the next chunk is written at the place of this server.
Save(s) ==
    /\ pc[s] = "saving"
    /\ LET n == place[s] + 1
       IN  /\ file' = [file EXCEPT !.content = Written(@, n, Image(build[s])[n])]
           /\ place' = [place EXCEPT ![s] = n]
           /\ pc' = [pc EXCEPT ![s] = IF n = Size THEN "ready" ELSE "saving"]
    /\ UNCHANGED <<build, in_dfa, m_dfa, starts, shared>>

\* A server is stopped, or crashes at any point; the file stays.
Stop(s) ==
    /\ pc[s] # "down"
    /\ pc' = [pc EXCEPT ![s] = "down"]
    /\ UNCHANGED <<file, build, in_dfa, m_dfa, place, starts, shared>>

InitLexer(s) == Load(s) \/ Compile(s) \/ Open(s) \/ GiveUp(s) \/ Save(s)

CacheNext == \E s \in Servers : Start(s) \/ InitLexer(s) \/ Stop(s)

\* A server that runs is scheduled.
CacheSpec == CacheInit /\ [][CacheNext]_vars /\ \A s \in Servers : WF_vars(InitLexer(s))

-----------------------------------------------------------------------------
Chunks == { Image(b)[n] : b \in Builds, n \in 1 .. Size } \cup {Hole}

(***************************************************************************)
(* Sequences are no longer than a table, and the place of save never runs  *)
(* past its end.                                                           *)
(***************************************************************************)
CacheTypeOK ==
    /\ file \in [exists : BOOLEAN, content : Seq(Chunks)] /\ Len(file.content) <= Size
    /\ pc \in [Servers -> Steps]
    /\ build \in [Servers -> Builds]
    /\ in_dfa \in [Servers -> Seq(Chunks)]
    /\ m_dfa \in [Servers -> Seq(Chunks)]
    /\ \A s \in Servers : Len(in_dfa[s]) <= Size /\ Len(m_dfa[s]) <= Size
    /\ place \in [Servers -> 0 .. Size]
    /\ starts \in 0 .. MaxStarts
    /\ shared \in BOOLEAN

(***************************************************************************)
(* A server that is ready has the tables of its own build, wherever it got *)
(* them from, whichever crashes and failures there were before, as long as *)
(* one server at a time is in init_lexer.  (Two of them can leave a file   *)
(* with a good header and a hole behind it, and load accepts that.)        *)
(***************************************************************************)
TablesOfBuild ==
    ~shared => \A s \in Servers : pc[s] = "ready" => m_dfa[s] = Image(build[s])

(***************************************************************************)
(* A server that compiles the tables has to: the file does not hold them.  *)
(***************************************************************************)
CompiledOnce ==
    ~shared => \A s \in Servers : pc[s] = "compiling" => file.content # Image(build[s])

(***************************************************************************)
(* A server gets ready, unless it is stopped or crashes before.            *)
(***************************************************************************)
GetsReady == \A s \in Servers : pc[s] # "down" ~> pc[s] \in {"ready", "down"}

=============================================================================
