--------------------------- MODULE DfaCacheProofs ---------------------------
(***************************************************************************)
(* Proofs about DfaCache, for any servers and builds, any size of a table  *)
(* and any number of starts.                                               *)
(***************************************************************************)
EXTENDS DfaCache, SequenceTheorems, TLAPS

Busy == {"loading", "compiling", "opening", "saving"}

(***************************************************************************)
(* What init_lexer knows at each point, whoever else is in it.             *)
(***************************************************************************)
OwnProgress ==
    \A s \in Servers :
        /\ pc[s] \in {"loading", "compiling"} => m_dfa[s] = <<>>
        /\ pc[s] = "loading" => Len(in_dfa[s]) < Size
        /\ pc[s] \in {"opening", "saving"} => m_dfa[s] = Image(build[s])
        /\ pc[s] \in {"loading", "compiling", "opening"} => place[s] = 0
        /\ pc[s] = "saving" => place[s] < Size /\ file.exists

\* The chunks are the first ones of the image of a build.
Part(chunks, b) == \A n \in 1 .. Len(chunks) : chunks[n] = Image(b)[n]

HasHeaderOf(b) == Len(file.content) > 0 /\ file.content[1] = Image(b)[1]

OneBusy == \A s, t \in Servers : pc[s] \in Busy /\ pc[t] \in Busy => s = t

\* The header of a file tells whose image it is a part of.
HeaderDecides ==
    /\ ~file.exists => file.content = <<>>
    /\ \A b \in Builds : HasHeaderOf(b) => Part(file.content, b)

LoadingFollowsFile ==
    \A s \in Servers : pc[s] = "loading" =>
        /\ Part(in_dfa[s], build[s])
        /\ Len(in_dfa[s]) > 0 => HasHeaderOf(build[s])

SavingAtEnd ==
    \A s \in Servers : pc[s] = "saving" =>
        Len(file.content) = place[s] /\ Part(file.content, build[s])

Alone ==
    ~shared => OneBusy /\ HeaderDecides /\ LoadingFollowsFile /\ SavingAtEnd

CacheInv == CacheTypeOK /\ OwnProgress /\ Alone /\ TablesOfBuild /\ CompiledOnce

-----------------------------------------------------------------------------
LEMMA FunctionIsSeq ==
    ASSUME NEW S, NEW m \in Nat, NEW f \in [1 .. m -> S]
    PROVE  f \in Seq(S) /\ Len(f) = m
BY SeqDef

LEMMA ChunkOfImage ==
    ASSUME NEW b \in Builds, NEW n \in 1 .. Size
    PROVE  Image(b)[n] \in Chunks /\ Image(b)[n] = [build |-> b, index |-> n]
BY DEF Image, Chunks

LEMMA ImageIsTable ==
    ASSUME NEW b \in Builds
    PROVE  /\ Image(b) \in Seq(Chunks) /\ Len(Image(b)) = Size
           /\ \A n \in 1 .. Size : Image(b)[n] \in Chunks
<1>1. Image(b) \in [1 .. Size -> Chunks]
  BY ChunkOfImage DEF Image
<1> QED BY <1>1, FunctionIsSeq, SizeAssumption

\* The first chunk names the build.
LEMMA FirstChunk ==
    ASSUME NEW a \in Builds, NEW b \in Builds, Image(a)[1] = Image(b)[1]
    PROVE  a = b
<1>1. 1 \in 1 .. Size
  BY SizeAssumption
<1>2. Image(a)[1] = [build |-> a, index |-> 1] /\ Image(b)[1] = [build |-> b, index |-> 1]
  BY <1>1, ChunkOfImage
<1>3. [build |-> a, index |-> 1].build = a /\ [build |-> b, index |-> 1].build = b
  OBVIOUS
<1> QED BY <1>2, <1>3

LEMMA WholePart ==
    ASSUME NEW b \in Builds, NEW chunks \in Seq(Chunks), Len(chunks) = Size, Part(chunks, b)
    PROVE  chunks = Image(b)
<1>1. Image(b) \in Seq(Chunks) /\ Len(Image(b)) = Size
  BY ImageIsTable
<1> QED BY <1>1, SeqEqual DEF Part

\* One more chunk of the image.
LEMMA LongerPart ==
    ASSUME NEW b \in Builds, NEW chunks \in Seq(Chunks), Len(chunks) < Size, Part(chunks, b)
    PROVE  LET more == Append(chunks, Image(b)[Len(chunks) + 1])
           IN  more \in Seq(Chunks) /\ Len(more) = Len(chunks) + 1 /\ Part(more, b)
<1> DEFINE next == Image(b)[Len(chunks) + 1]
<1>1. Len(chunks) \in Nat /\ next \in Chunks
  BY ImageIsTable, LenProperties, SizeAssumption
<1>2. /\ Append(chunks, next) \in Seq(Chunks)
      /\ Len(Append(chunks, next)) = Len(chunks) + 1
      /\ \A i \in 1 .. Len(chunks) : Append(chunks, next)[i] = chunks[i]
      /\ Append(chunks, next)[Len(chunks) + 1] = next
  BY <1>1, AppendProperties
<1> QED BY <1>1, <1>2 DEF Part

LEMMA WrittenType ==
    ASSUME NEW content \in Seq(Chunks), Len(content) <= Size,
           NEW n \in 1 .. Size, NEW chunk \in Chunks
    PROVE  /\ Written(content, n, chunk) \in Seq(Chunks)
           /\ Len(Written(content, n, chunk)) <= Size
<1> DEFINE m == IF n > Len(content) THEN n ELSE Len(content)
<1>1. m \in Nat /\ m <= Size
  BY LenProperties, SizeAssumption
<1>2. Written(content, n, chunk) \in [1 .. m -> Chunks]
  BY LenProperties DEF Written, Chunks
<1> QED BY <1>1, <1>2, FunctionIsSeq

\* A chunk that is written behind the last one makes the part longer.
LEMMA WrittenBehind ==
    ASSUME NEW b \in Builds, NEW content \in Seq(Chunks), Len(content) < Size, Part(content, b)
    PROVE  LET n == Len(content) + 1
               after == Written(content, n, Image(b)[n])
           IN  Len(after) = n /\ Part(after, b)
<1> DEFINE n == Len(content) + 1
           after == Written(content, n, Image(b)[n])
<1>1. n \in 1 .. Size /\ Len(content) \in Nat
  BY LenProperties, SizeAssumption
<1>2. Image(b)[n] \in Chunks
  BY <1>1, ImageIsTable
<1>3. after \in [1 .. n -> Chunks] /\ \A k \in 1 .. n : after[k] = Image(b)[k]
  BY <1>1, <1>2, LenProperties DEF Written, Part, Chunks
<1>4. Len(after) = n
  BY <1>1, <1>3, FunctionIsSeq
<1> QED BY <1>3, <1>4 DEF Part

-----------------------------------------------------------------------------
LEMMA InitCacheInv == CacheInit => CacheInv
<1> SUFFICES ASSUME CacheInit PROVE CacheInv
  OBVIOUS
<1> USE DEF CacheInit, NoFile
<1>1. CacheTypeOK
  <2>1. <<>> \in Seq(Chunks) /\ Len(<<>>) <= Size
    BY SizeAssumption
  <2>2. file \in [exists : BOOLEAN, content : Seq(Chunks)] /\ Len(file.content) <= Size
    BY <2>1
  <2>3. in_dfa \in [Servers -> Seq(Chunks)] /\ m_dfa \in [Servers -> Seq(Chunks)]
    BY <2>1
  <2>4. \A s \in Servers : Len(in_dfa[s]) <= Size /\ Len(m_dfa[s]) <= Size
    BY <2>1
  <2>5. place \in [Servers -> 0 .. Size] /\ starts \in 0 .. MaxStarts
    BY SizeAssumption, StartsAssumption
  <2> QED BY <2>2, <2>3, <2>4, <2>5 DEF CacheTypeOK, Steps
<1>2. OwnProgress /\ TablesOfBuild /\ CompiledOnce
  BY DEF OwnProgress, TablesOfBuild, CompiledOnce
<1>3. Alone
  BY DEF Alone, OneBusy, HeaderDecides, LoadingFollowsFile, SavingAtEnd, HasHeaderOf, Busy
<1> QED BY <1>1, <1>2, <1>3 DEF CacheInv

\* The types are kept by every step.
LEMMA NextTypeOK ==
    ASSUME CacheInv, CacheNext
    PROVE  CacheTypeOK'
<1> USE DEF CacheInv, CacheTypeOK, Steps
<1> SUFFICES ASSUME NEW s \in Servers, Start(s) \/ InitLexer(s) \/ Stop(s)
             PROVE  CacheTypeOK'
  BY DEF CacheNext
<1>1. CASE Start(s)
  BY <1>1, EmptySeq, StartsAssumption, SizeAssumption DEF Start
<1>2. CASE Load(s)
  <2>1. CASE Acceptable(s) /\ ReadChunk(s)
    <3>1. Len(in_dfa[s]) \in Nat /\ Len(in_dfa[s]) < Size
      BY <1>2, LenProperties DEF Load, OwnProgress
    <3>2. file.content[Len(in_dfa[s]) + 1] \in Chunks
      BY <2>1, <3>1, ElementOfSeq DEF Acceptable
    <3> DEFINE read == Append(in_dfa[s], file.content[Len(in_dfa[s]) + 1])
    <3>3. read \in Seq(Chunks) /\ Len(read) = Len(in_dfa[s]) + 1
      BY <3>2, AppendProperties
    <3>4. Len(read) <= Size
      BY <3>1, <3>3, SizeAssumption
    <3>5. /\ in_dfa' = [in_dfa EXCEPT ![s] = read]
          /\ m_dfa' = [m_dfa EXCEPT ![s] = IF Len(read) = Size THEN read ELSE m_dfa[s]]
          /\ pc' = [pc EXCEPT ![s] = IF Len(read) = Size THEN "ready" ELSE "loading"]
      BY <2>1 DEF ReadChunk
    <3> HIDE DEF read
    <3> QED BY <1>2, <3>3, <3>4, <3>5 DEF Load
  <2>2. CASE Reject(s)
    BY <1>2, <2>2 DEF Load, Reject
  <2> QED BY <1>2, <2>1, <2>2 DEF Load
<1>3. CASE Compile(s)
  <2>1. m_dfa[s] \o Image(build[s]) = Image(build[s])
    BY <1>3, ImageIsTable, ConcatEmptySeq DEF Compile, OwnProgress
  <2>2. Image(build[s]) \in Seq(Chunks) /\ Len(Image(build[s])) <= Size
    BY ImageIsTable, SizeAssumption
  <2> QED BY <1>3, <2>1, <2>2 DEF Compile
<1>4. CASE Open(s)
  BY <1>4, EmptySeq, SizeAssumption DEF Open
<1>5. CASE GiveUp(s)
  BY <1>5 DEF GiveUp
<1>6. CASE Save(s)
  <2> DEFINE n == place[s] + 1
  <2>1. n \in 1 .. Size
    BY <1>6, SizeAssumption DEF Save, OwnProgress
  <2>2. Image(build[s])[n] \in Chunks
    BY <2>1, ImageIsTable
  <2>3. /\ Written(file.content, n, Image(build[s])[n]) \in Seq(Chunks)
        /\ Len(Written(file.content, n, Image(build[s])[n])) <= Size
    BY <2>1, <2>2, WrittenType
  <2>4. /\ file' = [file EXCEPT !.content = Written(file.content, n, Image(build[s])[n])]
        /\ place' = [place EXCEPT ![s] = n]
        /\ pc' = [pc EXCEPT ![s] = IF n = Size THEN "ready" ELSE "saving"]
        /\ UNCHANGED <<build, in_dfa, m_dfa, starts, shared>>
    BY <1>6 DEF Save
  <2>5. file' \in [exists : BOOLEAN, content : Seq(Chunks)] /\ Len(file'.content) <= Size
    <3> HIDE DEF n
    <3> QED BY <2>3, <2>4
  <2> QED BY <2>1, <2>4, <2>5
<1>7. CASE Stop(s)
  BY <1>7 DEF Stop
<1> QED BY <1>1, <1>2, <1>3, <1>4, <1>5, <1>6, <1>7 DEF InitLexer

LEMMA NextOwnProgress ==
    ASSUME CacheInv, CacheNext
    PROVE  OwnProgress'
<1> USE DEF CacheInv, CacheTypeOK, Steps, OwnProgress
<1> SUFFICES ASSUME NEW s \in Servers, Start(s) \/ InitLexer(s) \/ Stop(s)
             PROVE  OwnProgress'
  BY DEF CacheNext
<1>1. CASE Start(s)
  BY <1>1, EmptySeq, SizeAssumption DEF Start
<1>2. CASE Load(s)
  <2>1. CASE Acceptable(s) /\ ReadChunk(s)
    <3>1. Len(in_dfa[s]) \in Nat /\ Len(in_dfa[s]) < Size
      BY <1>2, LenProperties DEF Load
    <3>2. file.content[Len(in_dfa[s]) + 1] \in Chunks
      BY <2>1, <3>1, ElementOfSeq DEF Acceptable
    <3> DEFINE read == Append(in_dfa[s], file.content[Len(in_dfa[s]) + 1])
    <3>3. Len(read) = Len(in_dfa[s]) + 1
      BY <3>2, AppendProperties
    <3>4. /\ in_dfa' = [in_dfa EXCEPT ![s] = read]
          /\ m_dfa' = [m_dfa EXCEPT ![s] = IF Len(read) = Size THEN read ELSE m_dfa[s]]
          /\ pc' = [pc EXCEPT ![s] = IF Len(read) = Size THEN "ready" ELSE "loading"]
      BY <2>1 DEF ReadChunk
    <3> HIDE DEF read
    <3> QED BY <1>2, <3>1, <3>3, <3>4, SizeAssumption DEF Load
  <2>2. CASE Reject(s)
    BY <1>2, <2>2 DEF Load, Reject
  <2> QED BY <1>2, <2>1, <2>2 DEF Load
<1>3. CASE Compile(s)
  <2>1. m_dfa[s] \o Image(build[s]) = Image(build[s])
    BY <1>3, ImageIsTable, ConcatEmptySeq DEF Compile
  <2> QED BY <1>3, <2>1 DEF Compile
<1>4. CASE Open(s)
  <2>1. /\ pc[s] = "opening" /\ file'.exists
        /\ pc' = [pc EXCEPT ![s] = "saving"]
        /\ UNCHANGED <<build, in_dfa, m_dfa, place>>
    BY <1>4 DEF Open
  <2> QED BY <2>1, SizeAssumption
<1>5. CASE GiveUp(s)
  BY <1>5 DEF GiveUp
<1>6. CASE Save(s)
  BY <1>6, SizeAssumption DEF Save
<1>7. CASE Stop(s)
  BY <1>7 DEF Stop
<1> QED BY <1>1, <1>2, <1>3, <1>4, <1>5, <1>6, <1>7 DEF InitLexer

-----------------------------------------------------------------------------
\* A server that starts while no other one is in init_lexer.
LEMMA StartKeepsAlone ==
    ASSUME CacheInv, CacheTypeOK', NEW s \in Servers, Start(s), ~shared'
    PROVE  (OneBusy /\ HeaderDecides /\ LoadingFollowsFile /\ SavingAtEnd
            /\ TablesOfBuild /\ CompiledOnce)'
<1> USE DEF CacheInv, CacheTypeOK, Start
<1>1. /\ ~shared /\ pc[s] = "down" /\ UNCHANGED file
      /\ \A t \in Servers : pc[t] \in {"down", "ready"}
      /\ pc' = [pc EXCEPT ![s] = IF file.exists THEN "loading" ELSE "compiling"]
      /\ in_dfa' = [in_dfa EXCEPT ![s] = <<>>]
      /\ m_dfa' = [m_dfa EXCEPT ![s] = <<>>]
      /\ \A t \in Servers \ {s} : build'[t] = build[t]
      /\ build'[s] \in Builds
  OBVIOUS
<1>2. OneBusy'
  BY <1>1 DEF OneBusy, Busy
<1>3. HeaderDecides'
  BY <1>1 DEF Alone, HeaderDecides, HasHeaderOf, Part
<1>4. LoadingFollowsFile'
  <2> SUFFICES ASSUME NEW t \in Servers, pc'[t] = "loading"
               PROVE  in_dfa'[t] = <<>>
    BY EmptySeq DEF LoadingFollowsFile, Part
  <2> QED BY <1>1
<1>5. SavingAtEnd'
  BY <1>1 DEF SavingAtEnd
<1>6. TablesOfBuild'
  BY <1>1 DEF TablesOfBuild
<1>7. CompiledOnce'
  <2> SUFFICES ASSUME NEW t \in Servers, pc'[t] = "compiling"
               PROVE  file'.content # Image(build'[t])
    BY DEF CompiledOnce
  <2>1. t = s /\ file.content = <<>>
    BY <1>1 DEF Alone, HeaderDecides
  <2>2. Len(Image(build'[s])) = Size
    BY <1>1, ImageIsTable
  <2> QED BY <1>1, <2>1, <2>2, SizeAssumption
<1> QED BY <1>2, <1>3, <1>4, <1>5, <1>6, <1>7

\* A server in init_lexer is the only one.
LEMMA OthersAreNotBusy ==
    ASSUME CacheInv, ~shared, NEW s \in Servers, pc[s] \in Busy
    PROVE  \A t \in Servers : t # s => pc[t] \in {"down", "ready"}
BY DEF CacheInv, CacheTypeOK, Steps, Alone, OneBusy, Busy

LEMMA ReadKeepsAlone ==
    ASSUME CacheInv, NEW s \in Servers, Load(s), Acceptable(s), ReadChunk(s), ~shared
    PROVE  (OneBusy /\ HeaderDecides /\ LoadingFollowsFile /\ SavingAtEnd
            /\ TablesOfBuild /\ CompiledOnce)'
<1> DEFINE next == Len(in_dfa[s]) + 1
           read == Append(in_dfa[s], file.content[next])
<1> USE DEF CacheInv, CacheTypeOK
<1>1. /\ pc[s] = "loading" /\ UNCHANGED <<file, build>>
      /\ in_dfa' = [in_dfa EXCEPT ![s] = read]
      /\ m_dfa' = [m_dfa EXCEPT ![s] = IF Len(read) = Size THEN read ELSE m_dfa[s]]
      /\ pc' = [pc EXCEPT ![s] = IF Len(read) = Size THEN "ready" ELSE "loading"]
      /\ build[s] \in Builds
  BY DEF Load, ReadChunk
<1>2. \A t \in Servers : t # s => pc[t] \in {"down", "ready"}
  BY <1>1, OthersAreNotBusy DEF Busy
<1>3. next <= Len(file.content) /\ Len(in_dfa[s]) \in Nat /\ Len(in_dfa[s]) < Size
  BY <1>1, LenProperties DEF Acceptable, OwnProgress
<1>4. HasHeaderOf(build[s])
  BY <1>1, <1>3, LenProperties DEF Acceptable, Alone, LoadingFollowsFile, HasHeaderOf
<1>5. Part(file.content, build[s])
  BY <1>1, <1>4 DEF Alone, HeaderDecides
<1>6. file.content[next] = Image(build[s])[next]
  BY <1>3, <1>5, LenProperties DEF Part
<1>7. Part(in_dfa[s], build[s])
  BY <1>1 DEF Alone, LoadingFollowsFile
<1>8. read \in Seq(Chunks) /\ Len(read) = next /\ Part(read, build[s])
  BY <1>1, <1>3, <1>6, <1>7, LongerPart
<1>9. Len(read) = Size => read = Image(build[s])
  BY <1>1, <1>8, WholePart
<1> HIDE DEF read, next
<1>10. OneBusy'
  BY <1>1, <1>2 DEF OneBusy, Busy
<1>11. HeaderDecides'
  BY <1>1 DEF Alone, HeaderDecides, HasHeaderOf, Part
<1>12. LoadingFollowsFile'
  BY <1>1, <1>2, <1>4, <1>8 DEF LoadingFollowsFile, Part, HasHeaderOf
<1>13. SavingAtEnd'
  BY <1>1, <1>2 DEF SavingAtEnd
<1>14. TablesOfBuild'
  BY <1>1, <1>9 DEF TablesOfBuild
<1>15. CompiledOnce'
  BY <1>1, <1>2 DEF CompiledOnce
<1> QED BY <1>10, <1>11, <1>12, <1>13, <1>14, <1>15

\* What is rejected is not the image of this build.
LEMMA RejectKeepsAlone ==
    ASSUME CacheInv, NEW s \in Servers, Load(s), ~Acceptable(s), Reject(s), ~shared
    PROVE  (OneBusy /\ HeaderDecides /\ LoadingFollowsFile /\ SavingAtEnd
            /\ TablesOfBuild /\ CompiledOnce)'
<1> USE DEF CacheInv, CacheTypeOK
<1>1. /\ pc[s] = "loading" /\ UNCHANGED <<file, build, in_dfa, m_dfa>>
      /\ pc' = [pc EXCEPT ![s] = "compiling"]
      /\ build[s] \in Builds
  BY DEF Load, Reject
<1>2. \A t \in Servers : t # s => pc[t] \in {"down", "ready"}
  BY <1>1, OthersAreNotBusy DEF Busy
<1>3. file.content # Image(build[s])
  <2>1. Len(Image(build[s])) = Size
    BY <1>1, ImageIsTable
  <2>2. Len(in_dfa[s]) \in Nat /\ Len(in_dfa[s]) < Size
    BY <1>1, LenProperties DEF OwnProgress
  <2> QED BY <2>1, <2>2, SizeAssumption DEF Acceptable
<1>4. OneBusy'
  BY <1>1, <1>2 DEF OneBusy, Busy
<1>5. HeaderDecides'
  BY <1>1 DEF Alone, HeaderDecides, HasHeaderOf, Part
<1>6. LoadingFollowsFile' /\ SavingAtEnd'
  BY <1>1, <1>2 DEF LoadingFollowsFile, SavingAtEnd
<1>7. TablesOfBuild'
  BY <1>1 DEF TablesOfBuild
<1>8. CompiledOnce'
  BY <1>1, <1>2, <1>3 DEF CompiledOnce
<1> QED BY <1>4, <1>5, <1>6, <1>7, <1>8

\* The steps that end in a state in which nothing is read or written.
LEMMA QuietKeepsAlone ==
    ASSUME CacheInv, NEW s \in Servers, Compile(s) \/ GiveUp(s) \/ Stop(s), ~shared
    PROVE  (OneBusy /\ HeaderDecides /\ LoadingFollowsFile /\ SavingAtEnd
            /\ TablesOfBuild /\ CompiledOnce)'
<1> USE DEF CacheInv, CacheTypeOK
<1>1. /\ UNCHANGED <<file, build, in_dfa, place>>
      /\ \A t \in Servers \ {s} : pc'[t] = pc[t] /\ m_dfa'[t] = m_dfa[t]
      /\ pc'[s] \in {"opening", "ready", "down"}
      /\ pc'[s] = "opening" => pc[s] = "compiling"
      /\ pc'[s] = "ready" => m_dfa'[s] = m_dfa[s] /\ pc[s] \in {"opening", "saving"}
  BY DEF Compile, GiveUp, Stop
<1>2. OneBusy'
  BY <1>1 DEF Alone, OneBusy, Busy
<1>3. HeaderDecides'
  BY <1>1 DEF Alone, HeaderDecides, HasHeaderOf, Part
<1>4. LoadingFollowsFile'
  BY <1>1 DEF Alone, LoadingFollowsFile, HasHeaderOf, Part
<1>5. SavingAtEnd'
  BY <1>1 DEF Alone, SavingAtEnd, Part
<1>6. TablesOfBuild'
  BY <1>1 DEF TablesOfBuild, OwnProgress
<1>7. CompiledOnce'
  BY <1>1 DEF CompiledOnce
<1> QED BY <1>2, <1>3, <1>4, <1>5, <1>6, <1>7

LEMMA OpenKeepsAlone ==
    ASSUME CacheInv, NEW s \in Servers, Open(s), ~shared
    PROVE  (OneBusy /\ HeaderDecides /\ LoadingFollowsFile /\ SavingAtEnd
            /\ TablesOfBuild /\ CompiledOnce)'
<1> USE DEF CacheInv, CacheTypeOK
<1>1. /\ pc[s] = "opening" /\ UNCHANGED <<build, in_dfa, m_dfa, place>>
      /\ file'.exists = TRUE /\ file'.content = <<>> /\ Len(file'.content) = 0
      /\ pc' = [pc EXCEPT ![s] = "saving"]
      /\ place[s] = 0
  BY DEF Open, OwnProgress
<1>2. \A t \in Servers : t # s => pc[t] \in {"down", "ready"}
  BY <1>1, OthersAreNotBusy DEF Busy
<1>3. OneBusy'
  BY <1>1, <1>2 DEF OneBusy, Busy
<1>4. HeaderDecides'
  BY <1>1 DEF HeaderDecides, HasHeaderOf
<1>5. LoadingFollowsFile' /\ CompiledOnce'
  BY <1>1, <1>2 DEF LoadingFollowsFile, CompiledOnce
<1>6. SavingAtEnd'
  <2>1. Part(file'.content, build'[s]) /\ Len(file'.content) = place'[s]
    BY <1>1 DEF Part
  <2>2. \A t \in Servers : pc'[t] = "saving" => t = s
    BY <1>1, <1>2
  <2> QED BY <2>1, <2>2 DEF SavingAtEnd, Part
<1>7. TablesOfBuild'
  BY <1>1 DEF TablesOfBuild
<1> QED BY <1>3, <1>4, <1>5, <1>6, <1>7

LEMMA SaveKeepsAlone ==
    ASSUME CacheInv, NEW s \in Servers, Save(s), ~shared
    PROVE  (OneBusy /\ HeaderDecides /\ LoadingFollowsFile /\ SavingAtEnd
            /\ TablesOfBuild /\ CompiledOnce)'
<1> DEFINE n == place[s] + 1
           after == Written(file.content, n, Image(build[s])[n])
<1> USE DEF CacheInv, CacheTypeOK
<1>1. /\ pc[s] = "saving" /\ UNCHANGED <<build, in_dfa, m_dfa>>
      /\ file'.exists = file.exists /\ file'.content = after
      /\ place' = [place EXCEPT ![s] = n]
      /\ pc' = [pc EXCEPT ![s] = IF n = Size THEN "ready" ELSE "saving"]
      /\ build[s] \in Builds /\ place[s] \in Nat
  BY DEF Save
<1>2. \A t \in Servers : t # s => pc[t] \in {"down", "ready"}
  BY <1>1, OthersAreNotBusy DEF Busy
<1>3. Len(file.content) = place[s] /\ Part(file.content, build[s]) /\ place[s] < Size
  BY <1>1 DEF Alone, SavingAtEnd, OwnProgress
<1>4. Len(after) = n /\ Part(after, build[s])
  BY <1>1, <1>3, WrittenBehind
<1>5. m_dfa[s] = Image(build[s])
  BY <1>1 DEF OwnProgress
<1> HIDE DEF after
<1>6. after[1] = Image(build[s])[1]
  BY <1>1, <1>4 DEF Part
<1>7. file.exists
  BY <1>1 DEF OwnProgress
<1>8. OneBusy'
  BY <1>1, <1>2 DEF OneBusy, Busy
<1>9. HeaderDecides'
  BY <1>1, <1>4, <1>6, <1>7, FirstChunk DEF HeaderDecides, HasHeaderOf, Part
<1>10. LoadingFollowsFile' /\ CompiledOnce'
  BY <1>1, <1>2 DEF LoadingFollowsFile, CompiledOnce
<1>11. SavingAtEnd'
  BY <1>1, <1>2, <1>4 DEF SavingAtEnd, Part
<1>12. TablesOfBuild'
  BY <1>1, <1>5 DEF TablesOfBuild
<1> QED BY <1>8, <1>9, <1>10, <1>11, <1>12

-----------------------------------------------------------------------------
LEMMA NextCacheInv ==
    ASSUME CacheInv, [CacheNext]_vars
    PROVE  CacheInv'
<1>1. CASE CacheNext
  <2>1. CacheTypeOK' /\ OwnProgress'
    BY <1>1, NextTypeOK, NextOwnProgress
  <2>2. ASSUME ~shared'
        PROVE  (OneBusy /\ HeaderDecides /\ LoadingFollowsFile /\ SavingAtEnd
                /\ TablesOfBuild /\ CompiledOnce)'
    <3> PICK s \in Servers : Start(s) \/ InitLexer(s) \/ Stop(s)
      BY <1>1 DEF CacheNext
    <3>1. CASE Start(s)
      BY <2>1, <2>2, <3>1, StartKeepsAlone
    <3>2. CASE Load(s)
      BY <2>2, <3>2, ReadKeepsAlone, RejectKeepsAlone DEF Load
    <3>3. CASE Compile(s) \/ GiveUp(s) \/ Stop(s)
      <4>1. ~shared
        BY <2>2, <3>3 DEF Compile, GiveUp, Stop
      <4> QED BY <3>3, <4>1, QuietKeepsAlone
    <3>4. CASE Open(s)
      BY <2>2, <3>4, OpenKeepsAlone DEF Open
    <3>5. CASE Save(s)
      BY <2>2, <3>5, SaveKeepsAlone DEF Save
    <3> QED BY <3>1, <3>2, <3>3, <3>4, <3>5 DEF InitLexer
  <2> QED BY <2>1, <2>2 DEF CacheInv, Alone, TablesOfBuild, CompiledOnce
<1>2. CASE UNCHANGED vars
  BY <1>2 DEF vars, CacheInv, CacheTypeOK, OwnProgress, Alone, OneBusy, HeaderDecides,
              HasHeaderOf, Part, LoadingFollowsFile, SavingAtEnd, TablesOfBuild, CompiledOnce
<1> QED BY <1>1, <1>2

LEMMA CacheInvariant == CacheSpec => []CacheInv
<1>1. CacheInit => CacheInv
  BY InitCacheInv
<1>2. CacheInv /\ [CacheNext]_vars => CacheInv'
  BY NextCacheInv
<1> QED BY <1>1, <1>2, PTL DEF CacheSpec

(***************************************************************************)
(* The type invariant: the file and the tables are never longer than a     *)
(* table, and save never writes past its end.                              *)
(***************************************************************************)
THEOREM CacheTypeCorrect == CacheSpec => []CacheTypeOK
<1>1. CacheInv => CacheTypeOK
  BY DEF CacheInv
<1> QED BY <1>1, CacheInvariant, PTL

(***************************************************************************)
(* A server that is ready has the tables of its own build, after any       *)
(* crashes and failures, while one server at a time is in init_lexer.      *)
(***************************************************************************)
THEOREM CacheTablesOfBuild == CacheSpec => []TablesOfBuild
<1>1. CacheInv => TablesOfBuild
  BY DEF CacheInv
<1> QED BY <1>1, CacheInvariant, PTL

(***************************************************************************)
(* A server only compiles tables that the file does not hold.              *)
(***************************************************************************)
THEOREM CacheCompiledOnce == CacheSpec => []CompiledOnce
<1>1. CacheInv => CompiledOnce
  BY DEF CacheInv
<1> QED BY <1>1, CacheInvariant, PTL

=============================================================================
