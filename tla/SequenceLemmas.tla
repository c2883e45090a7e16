--------------------------- MODULE SequenceLemmas ---------------------------
(***************************************************************************)
(* Facts about sequences used as stacks of at most two elements, about a   *)
(* queue next to the history of what went through it, about functions that *)
(* are defined by recursion, and about flattened sequences, with the       *)
(* induction over numbers that these need.                                 *)
(***************************************************************************)
EXTENDS Integers, Sequences, SequencesExt, SequenceTheorems, FiniteSetTheorems,
        WellFoundedInduction, TLAPS

\* A set of numbers has a least element.
LEMMA LeastIndex ==
    ASSUME NEW S, S \subseteq Nat, S # {}
    PROVE  \E i \in S : \A k \in S : ~(k < i)
<1>1. \E R : IsWellFoundedOn(R, Nat) /\ \A x, y \in Nat : x < y => <<x, y>> \in R
  <2>1. \A x, y \in Nat : x < y => <<x, y>> \in OpToRel(<, Nat)
    BY DEF OpToRel
  <2> QED BY <2>1, NatLessThanWellFounded
<1>2. PICK R : IsWellFoundedOn(R, Nat) /\ \A x, y \in Nat : x < y => <<x, y>> \in R
  BY <1>1
<1>3. IsWellFoundedOn(R, Nat)
  BY <1>2
<1>4. \E i \in S : \A k \in S : ~(<<k, i>> \in R)
  BY ONLY <1>3, S \subseteq Nat, S # {}, WFMin, Zenon
<1> QED BY <1>2, <1>4

\* The greatest of some numbers up to a limit.
LEMMA GreatestIndex ==
    ASSUME NEW limit \in Nat, NEW S, S \subseteq 0 .. limit, S # {}
    PROVE  \E i \in S : \A k \in S : k <= i
<1> DEFINE R == { limit - k : k \in S }
<1>1. R \subseteq Nat /\ R # {}
  <2>1. \A k \in S : limit - k \in Nat /\ limit - k \in R
    OBVIOUS
  <2> QED BY <2>1
<1>2. PICK r \in R : \A q \in R : ~(q < r)
  BY <1>1, LeastIndex
<1>3. PICK i \in S : r = limit - i
  OBVIOUS
<1>4. ASSUME NEW k \in S
      PROVE  k <= i
  <2>1. ~(limit - k < limit - i)
    BY <1>2, <1>3
  <2>2. k \in 0 .. limit /\ i \in 0 .. limit
    OBVIOUS
  <2> QED BY <2>1, <2>2
<1> QED BY <1>4

(***************************************************************************)
(* Induction, for a set instead of a predicate.                            *)
(***************************************************************************)
LEMMA Induction ==
    ASSUME NEW S, 0 \in S, \A n \in Nat : n \in S => n + 1 \in S
    PROVE  \A n \in Nat : n \in S
<1> SUFFICES ASSUME Nat \ S # {} PROVE FALSE
  OBVIOUS
<1>1. PICK n \in Nat \ S : \A k \in Nat \ S : ~(k < n)
  BY LeastIndex
<1>2. n - 1 \in Nat /\ n - 1 \in S
  BY <1>1
<1> QED BY <1>1, <1>2

\* A set of the first numbers.
LEMMA InitialSegment ==
    ASSUME NEW n \in Nat, NEW S, S \subseteq 1 .. n,
           \A k \in S : \A m \in 1 .. n : m < k => m \in S
    PROVE  Cardinality(S) \in 0 .. n /\ S = 1 .. Cardinality(S)
<1> DEFINE Out == { m \in Nat : m + 1 \notin S }
<1>1. n \in Out /\ Out \subseteq Nat
  <2>1. n + 1 \notin 1 .. n
    OBVIOUS
  <2> QED BY <2>1
<1>2. PICK m \in Out : \A k \in Out : ~(k < m)
  BY <1>1, LeastIndex
<1>3. m \in Nat /\ m <= n /\ m + 1 \notin S
  BY <1>1, <1>2
<1>4. ASSUME NEW k \in 1 .. m
      PROVE  k \in S
  <2>1. k - 1 \in Nat /\ k - 1 < m /\ (k - 1) + 1 = k
    BY <1>3
  <2>2. k - 1 \notin Out
    BY <1>2, <2>1
  <2> QED BY <2>1, <2>2
<1>5. ASSUME NEW k \in S
      PROVE  k \in 1 .. m
  <2>1. k \in 1 .. n
    OBVIOUS
  <2>2. ~(m + 1 < k) /\ k # m + 1
    <3>1. m + 1 < k => m + 1 \in 1 .. n
      BY <1>3, <2>1
    <3> QED BY <1>3, <3>1
  <2> QED BY <1>3, <2>1, <2>2
<1>6. S = 1 .. m
  BY <1>4, <1>5
<1>7. Cardinality(1 .. m) = m
  <2>1. Cardinality(1 .. m) = IF 1 > m THEN 0 ELSE m - 1 + 1
    BY <1>3, FS_Interval
  <2> QED BY <1>3, <2>1
<1> QED BY <1>3, <1>6, <1>7

\* The elements of a concatenation, counted from where each part begins.
LEMMA ConcatAt ==
    ASSUME NEW S, NEW s \in Seq(S), NEW t \in Seq(S)
    PROVE  /\ s \o t \in Seq(S) /\ Len(s \o t) = Len(s) + Len(t)
           /\ \A i \in 1 .. Len(s) : (s \o t)[i] = s[i]
           /\ \A i \in 1 .. Len(t) : (s \o t)[Len(s) + i] = t[i]
<1>1. Len(s) \in Nat /\ Len(t) \in Nat
  BY LenProperties
<1>2. /\ s \o t \in Seq(S) /\ Len(s \o t) = Len(s) + Len(t)
      /\ \A i \in 1 .. Len(s) + Len(t) :
           (s \o t)[i] = IF i <= Len(s) THEN s[i] ELSE t[i - Len(s)]
  BY ConcatProperties
<1>3. ASSUME NEW i \in 1 .. Len(s)
      PROVE  (s \o t)[i] = s[i]
  <2>1. i \in 1 .. Len(s) + Len(t) /\ i <= Len(s)
    BY <1>1
  <2> QED BY <1>2, <2>1
<1>4. ASSUME NEW i \in 1 .. Len(t)
      PROVE  (s \o t)[Len(s) + i] = t[i]
  <2>1. Len(s) + i \in 1 .. Len(s) + Len(t) /\ ~(Len(s) + i <= Len(s)) /\ Len(s) + i - Len(s) = i
    BY <1>1
  <2> QED BY <1>2, <2>1
<1> QED BY <1>2, <1>3, <1>4

-----------------------------------------------------------------------------
\* Pushing a second element.
LEMMA AppendToOne ==
    ASSUME NEW a, NEW b
    PROVE  Append(<<a>>, b) = <<a, b>>
<1> DEFINE S == {a, b}
           one == <<a>>
           two == <<a, b>>
<1>1. one \in Seq(S) /\ two \in Seq(S) /\ Len(one) = 1 /\ Len(two) = 2
  OBVIOUS
<1>2. one[1] = a /\ two[1] = a /\ two[2] = b /\ b \in S
  OBVIOUS
<1> HIDE DEF one, two, S
<1>3. /\ Append(one, b) \in Seq(S)
      /\ Len(Append(one, b)) = Len(one) + 1
      /\ \A i \in 1 .. Len(one) : Append(one, b)[i] = one[i]
      /\ Append(one, b)[Len(one) + 1] = b
  <2>1. one \in Seq(S) /\ b \in S
    BY <1>1, <1>2
  <2> HIDE DEF one
  <2> QED BY ONLY <2>1, AppendProperties
<1>4. Len(Append(one, b)) = 2 /\ Append(one, b)[1] = a /\ Append(one, b)[2] = b
  BY ONLY <1>1, <1>2, <1>3
<1>5. \A i \in 1 .. 2 : Append(one, b)[i] = two[i]
  BY <1>2, <1>4
<1>6. Append(one, b) = two
  BY <1>1, <1>3, <1>4, <1>5, SeqEqual
<1> QED BY <1>6 DEF one, two

\* Popping the second element.
LEMMA PopToOne ==
    ASSUME NEW a, NEW b
    PROVE  SubSeq(<<a, b>>, 1, 1) = <<a>>
<1> DEFINE S == {a, b}
           one == <<a>>
           two == <<a, b>>
<1>1. /\ one \in Seq(S) /\ Len(one) = 1 /\ one[1] = a
      /\ two \in Seq(S) /\ Len(two) = 2 /\ two[1] = a /\ two[2] = b
  OBVIOUS
<1> HIDE DEF one, two
<1>2. /\ SubSeq(two, 1, 1) \in Seq(S) /\ Len(SubSeq(two, 1, 1)) = 1
      /\ SubSeq(two, 1, 1)[1] = a
  BY <1>1
<1>3. \A i \in 1 .. 1 : SubSeq(two, 1, 1)[i] = one[i]
  BY <1>1, <1>2
<1>4. SubSeq(two, 1, 1) = one
  BY <1>1, <1>2, <1>3, SeqEqual
<1> QED BY <1>4 DEF one, two

\* Leaving a scope: the top of the stack and what is below it.
LEMMA LeaveShapes ==
    ASSUME NEW a, NEW b
    PROVE  /\ <<a>>[Len(<<a>>)] = a /\ SubSeq(<<a>>, 1, Len(<<a>>) - 1) = <<>>
           /\ <<a, b>>[Len(<<a, b>>)] = b /\ SubSeq(<<a, b>>, 1, Len(<<a, b>>) - 1) = <<a>>
<1>1. Len(<<a>>) = 1 /\ Len(<<a, b>>) = 2 /\ <<a>>[1] = a /\ <<a, b>>[2] = b
  OBVIOUS
<1>2. SubSeq(<<a>>, 1, 0) = <<>>
  OBVIOUS
<1> QED BY <1>1, <1>2, PopToOne

\* Taking the head of the queue: it becomes the last of the elements done.
LEMMA TakeKeepsHistory ==
    ASSUME NEW S, NEW done \in Seq(S), NEW queue \in Seq(S), queue # <<>>
    PROVE  done \o queue = Append(done, Head(queue)) \o Tail(queue)
<1>1. Head(queue) \in S /\ Tail(queue) \in Seq(S) /\ <<Head(queue)>> \in Seq(S)
  BY HeadTailProperties
<1>2. queue = <<Head(queue)>> \o Tail(queue)
  OBVIOUS
<1>3. Append(done, Head(queue)) = done \o <<Head(queue)>>
  BY <1>1, AppendIsConcat
<1>4. (done \o <<Head(queue)>>) \o Tail(queue) = done \o (<<Head(queue)>> \o Tail(queue))
  BY <1>1, ConcatAssociative
<1> QED BY <1>2, <1>3, <1>4

-----------------------------------------------------------------------------
(***************************************************************************)
(* A function that is defined by recursion exists, if each of its values   *)
(* comes from the one before by a step that stays in a set.                *)
(***************************************************************************)
IsRecursion(f, S, base, step, n) ==
    f \in [0 .. n -> S] /\ f[0] = base /\ \A i \in 1 .. n : f[i] = step[<<i, f[i - 1]>>]

LEMMA RecursionExists ==
    ASSUME NEW S, NEW base \in S, NEW step \in [Nat \X S -> S], NEW n \in Nat
    PROVE  \E f : IsRecursion(f, S, base, step, n)
<1> DEFINE Recursive(f, m) == f[0] = base /\ \A i \in 1 .. m : f[i] = step[<<i, f[i - 1]>>]
           N == { m \in Nat : \E f \in [0 .. m -> S] : Recursive(f, m) }
<1>1. 0 \in N
  <2> DEFINE f == [i \in 0 .. 0 |-> base]
  <2>1. f \in [0 .. 0 -> S] /\ Recursive(f, 0)
    OBVIOUS
  <2> QED BY <2>1
<1>2. ASSUME NEW m \in Nat, m \in N
      PROVE  m + 1 \in N
  <2>1. PICK f \in [0 .. m -> S] : Recursive(f, m)
    BY <1>2
  <2> DEFINE top == step[<<m + 1, f[m]>>]
             g == [i \in 0 .. m + 1 |-> IF i <= m THEN f[i] ELSE top]
  <2>2. f[m] \in S
    OBVIOUS
  <2>3. top \in S
    BY <2>2
  <2>4. g \in [0 .. m + 1 -> S]
    BY <2>3
  <2>5. g[0] = base
    BY <2>1
  <2>6. ASSUME NEW i \in 1 .. m + 1
        PROVE  g[i] = step[<<i, g[i - 1]>>]
    <3>1. CASE i <= m
      <4>1. g[i] = f[i] /\ g[i - 1] = f[i - 1]
        BY <3>1
      <4>2. f[i] = step[<<i, f[i - 1]>>]
        BY <2>1, <3>1
      <4> HIDE DEF g
      <4> QED BY <4>1, <4>2
    <3>2. CASE i = m + 1
      <4>1. g[i] = top /\ g[i - 1] = f[m]
        BY <3>2
      <4> HIDE DEF g
      <4> QED BY <3>2, <4>1
    <3> QED BY <3>1, <3>2
  <2> HIDE DEF g
  <2>7. Recursive(g, m + 1)
    BY <2>5, <2>6
  <2> HIDE DEF Recursive
  <2> QED BY <2>4, <2>7
<1> HIDE DEF N
<1>3. \A m \in Nat : m \in N
  BY <1>1, <1>2, Induction
<1> QED BY <1>3 DEF N, IsRecursion

-----------------------------------------------------------------------------
(***************************************************************************)
(* FlattenSeq.                                                             *)
(***************************************************************************)
Attach(front, last) == front \o last

\* The recursive function of FlattenSeq, on the first n sequences.
IsFlattening(f, seqs, n) ==
    f = [i \in 1 .. n |-> IF i = 1 THEN seqs[i] ELSE Attach(f[i - 1], seqs[i])]

LEMMA FlatteningExists ==
    ASSUME NEW seqs
    PROVE  \A n \in Nat : \E f : IsFlattening(f, seqs, n)
<1> DEFINE S == { n \in Nat : \E f : IsFlattening(f, seqs, n) }
<1>1. 0 \in S
  <2>1. IsFlattening([i \in 1 .. 0 |-> 0], seqs, 0)
    BY DEF IsFlattening
  <2> QED BY <2>1
<1>2. ASSUME NEW n \in Nat, n \in S
      PROVE  n + 1 \in S
  <2>1. PICK f : IsFlattening(f, seqs, n)
    BY <1>2
  <2> DEFINE next == IF n = 0 THEN seqs[1] ELSE Attach(f[n], seqs[n + 1])
             g == [i \in 1 .. n + 1 |-> IF i <= n THEN f[i] ELSE next]
             h == [i \in 1 .. n + 1 |-> IF i = 1 THEN seqs[i] ELSE Attach(g[i - 1], seqs[i])]
  <2>2. ASSUME NEW i \in 1 .. n + 1
        PROVE  g[i] = h[i]
    <3>1. CASE i <= n
      <4>1. f[i] = IF i = 1 THEN seqs[i] ELSE Attach(f[i - 1], seqs[i])
        BY <2>1, <3>1 DEF IsFlattening
      <4>2. i # 1 => g[i - 1] = f[i - 1]
        BY <3>1
      <4> QED BY <3>1, <4>1, <4>2
    <3>2. CASE i = n + 1
      <4>1. i # 1 => g[i - 1] = f[n]
        BY <3>2
      <4>2. g[i] = next
        BY <3>2
      <4> QED BY <3>2, <4>1, <4>2
    <3> QED BY <3>1, <3>2
  <2>3. g = h
    BY <2>2
  <2>4. IsFlattening(g, seqs, n + 1)
    BY <2>3 DEF IsFlattening
  <2> QED BY <2>4
<1> HIDE DEF S
<1>3. \A n \in Nat : n \in S
  BY <1>1, <1>2, Induction
<1> QED BY <1>3 DEF S

\* What FlattenSeq takes the last value of.
LEMMA FlattenSeqChosen ==
    ASSUME NEW S, NEW seqs \in Seq(S), Len(seqs) # 0
    PROVE  \E f : IsFlattening(f, seqs, Len(seqs)) /\ FlattenSeq(seqs) = f[Len(seqs)]
<1>1. Len(seqs) \in Nat
  BY LenProperties
<1>2. PICK f : IsFlattening(f, seqs, Len(seqs))
  BY <1>1, FlatteningExists
<1>3. f = [i \in 1 .. Len(seqs) |-> IF i = 1 THEN seqs[i] ELSE Attach(f[i - 1], seqs[i])]
  BY <1>2, Zenon DEF IsFlattening
<1> DEFINE Flattens(h) == h = [i \in 1 .. Len(seqs) |->
                              IF i = 1 THEN seqs[i] ELSE Attach(h[i - 1], seqs[i])]
           flatten == CHOOSE h : Flattens(h)
<1>4. FlattenSeq(seqs) = flatten[Len(seqs)]
  BY DEF FlattenSeq, Attach
<1>5. \E h : Flattens(h)
  BY <1>3
<1>6. Flattens(flatten)
  <2> HIDE DEF Flattens
  <2> QED BY <1>5, Zenon
<1> HIDE DEF flatten
<1>7. IsFlattening(flatten, seqs, Len(seqs))
  BY <1>6, Zenon DEF IsFlattening
<1> QED BY <1>4, <1>7

\* Flattenings of sequences that begin alike are equal as far as that goes.
LEMMA FlatteningsAgree ==
    ASSUME NEW seqs, NEW others, NEW f, NEW g, NEW n \in Nat, NEW m \in Nat, n <= m,
           IsFlattening(f, seqs, n), IsFlattening(g, others, m),
           \A i \in 1 .. n : seqs[i] = others[i]
    PROVE  \A i \in 1 .. n : f[i] = g[i]
<1> DEFINE S == { i \in Nat : i \in 1 .. n => f[i] = g[i] }
<1>1. 0 \in S
  OBVIOUS
<1>2. ASSUME NEW i \in Nat, i \in S
      PROVE  i + 1 \in S
  <2>1. CASE i + 1 <= n
    <3>1. i + 1 \in 1 .. n /\ i + 1 \in 1 .. m /\ (i + 1) - 1 = i /\ (i + 1 # 1 => i \in 1 .. n)
      BY <2>1
    <3>2. f[i + 1] = IF i + 1 = 1 THEN seqs[i + 1] ELSE Attach(f[i], seqs[i + 1])
      BY <3>1 DEF IsFlattening
    <3>3. g[i + 1] = IF i + 1 = 1 THEN others[i + 1] ELSE Attach(g[i], others[i + 1])
      BY <3>1 DEF IsFlattening
    <3> QED BY <1>2, <3>1, <3>2, <3>3
  <2> QED BY <2>1
<1> HIDE DEF S
<1>3. \A i \in Nat : i \in S
  BY <1>1, <1>2, Induction
<1> QED BY <1>3 DEF S

LEMMA FlattenEmpty == FlattenSeq(<<>>) = <<>>
BY DEF FlattenSeq

LEMMA FlatteningType ==
    ASSUME NEW S, NEW seqs, NEW n \in Nat, \A i \in 1 .. n : seqs[i] \in Seq(S),
           NEW f, IsFlattening(f, seqs, n)
    PROVE  \A i \in 1 .. n : f[i] \in Seq(S)
<1> DEFINE T == { i \in Nat : i \in 1 .. n => f[i] \in Seq(S) }
<1>1. 0 \in T
  OBVIOUS
<1>2. ASSUME NEW i \in Nat, i \in T
      PROVE  i + 1 \in T
  <2>1. CASE i + 1 <= n
    <3>1. i + 1 \in 1 .. n /\ (i + 1) - 1 = i /\ (i + 1 # 1 => i \in 1 .. n)
      BY <2>1
    <3>2. f[i + 1] = IF i + 1 = 1 THEN seqs[i + 1] ELSE Attach(f[i], seqs[i + 1])
      BY <3>1 DEF IsFlattening
    <3>3. seqs[i + 1] \in Seq(S) /\ (i + 1 # 1 => f[i] \in Seq(S))
      BY <1>2, <3>1
    <3> HIDE DEF T
    <3>4. f[i + 1] \in Seq(S)
      BY <3>2, <3>3, ConcatProperties DEF Attach
    <3> QED BY <3>4 DEF T
  <2> QED BY <2>1
<1> HIDE DEF T
<1>3. \A i \in Nat : i \in T
  BY <1>1, <1>2, Induction
<1> QED BY <1>3 DEF T

LEMMA FlattenType ==
    ASSUME NEW S, NEW seqs \in Seq(Seq(S))
    PROVE  FlattenSeq(seqs) \in Seq(S)
<1>1. Len(seqs) \in Nat /\ \A i \in 1 .. Len(seqs) : seqs[i] \in Seq(S)
  BY LenProperties, ElementOfSeq
<1>2. CASE Len(seqs) = 0
  <2>1. seqs = <<>> /\ <<>> \in Seq(S)
    BY <1>2
  <2> QED BY <2>1, FlattenEmpty
<1>3. CASE Len(seqs) # 0
  <2>1. PICK f : IsFlattening(f, seqs, Len(seqs)) /\ FlattenSeq(seqs) = f[Len(seqs)]
    BY <1>3, FlattenSeqChosen
  <2>2. \A i \in 1 .. Len(seqs) : f[i] \in Seq(S)
    BY <1>1, <2>1, FlatteningType
  <2> QED BY <1>1, <1>3, <2>1, <2>2
<1> QED BY <1>2, <1>3

LEMMA FlatteningGrows ==
    ASSUME NEW seqs, NEW more, NEW n \in Nat, n # 0, \A i \in 1 .. n : more[i] = seqs[i],
           NEW f, IsFlattening(f, seqs, n), NEW g, IsFlattening(g, more, n + 1)
    PROVE  g[n + 1] = Attach(f[n], more[n + 1])
<1>1. n <= n + 1 /\ n + 1 \in Nat /\ n \in 1 .. n /\ n + 1 \in 1 .. n + 1 /\ n + 1 # 1
  OBVIOUS
<1>2. \A i \in 1 .. n : seqs[i] = more[i]
  OBVIOUS
<1>3. \A i \in 1 .. n : f[i] = g[i]
  BY <1>1, <1>2, FlatteningsAgree
<1>4. g[n + 1] = Attach(g[(n + 1) - 1], more[n + 1])
  BY <1>1 DEF IsFlattening
<1> QED BY <1>1, <1>3, <1>4

LEMMA FlattenAppend ==
    ASSUME NEW S, NEW seqs \in Seq(Seq(S)), NEW s \in Seq(S)
    PROVE  FlattenSeq(Append(seqs, s)) = FlattenSeq(seqs) \o s
<1> DEFINE more == Append(seqs, s)
           n == Len(seqs)
<1>1. /\ more \in Seq(Seq(S)) /\ Len(more) = n + 1 /\ n \in Nat
      /\ \A i \in 1 .. n : more[i] = seqs[i]
      /\ more[n + 1] = s
  BY AppendProperties, LenProperties
<1> HIDE DEF more
<1>2. PICK g : IsFlattening(g, more, n + 1) /\ FlattenSeq(more) = g[n + 1]
  BY <1>1, FlattenSeqChosen
<1>3. CASE n = 0
  <2>1. seqs = <<>> /\ <<>> \o s = s
    BY <1>3, ConcatEmptySeq
  <2>2. g[1] = more[1]
    BY <1>2, <1>3 DEF IsFlattening
  <2> QED BY <1>1, <1>2, <1>3, <2>1, <2>2, FlattenEmpty DEF more
<1>4. CASE n # 0
  <2>1. PICK f : IsFlattening(f, seqs, n) /\ FlattenSeq(seqs) = f[n]
    BY <1>4, FlattenSeqChosen
  <2>2. g[n + 1] = Attach(f[n], more[n + 1])
    <3> HIDE DEF n
    <3>1. n \in Nat /\ \A i \in 1 .. n : more[i] = seqs[i]
      BY <1>1
    <3> QED BY <3>1, <1>2, <1>4, <2>1, FlatteningGrows
  <2>3. FlattenSeq(more) = Attach(FlattenSeq(seqs), s)
    BY <1>1, <1>2, <2>1, <2>2, Zenon
  <2> QED BY <2>3 DEF more, Attach
<1> QED BY <1>3, <1>4

\* Of sets with at most one element, SetToSeq gives the only order.
LEMMA SetToSeqEmpty == SetToSeq({}) = <<>>
<1>1. Cardinality({}) = 0
  BY FS_EmptySet
<1>2. SetToSeq({}) = CHOOSE f \in [1 .. 0 -> {}] : IsInjective(f)
  BY <1>1 DEF SetToSeq
<1>3. <<>> \in [1 .. 0 -> {}] /\ IsInjective(<<>>)
  BY DEF IsInjective
<1>4. \A f \in [1 .. 0 -> {}] : f = <<>>
  OBVIOUS
<1> QED BY <1>2, <1>3, <1>4

LEMMA SetToSeqOne ==
    ASSUME NEW r
    PROVE  SetToSeq({r}) = <<r>>
<1>1. Cardinality({r}) = 1
  BY FS_Singleton
<1>2. SetToSeq({r}) = CHOOSE f \in [1 .. 1 -> {r}] : IsInjective(f)
  BY <1>1 DEF SetToSeq
<1>3. <<r>> \in [1 .. 1 -> {r}] /\ IsInjective(<<r>>)
  BY DEF IsInjective
<1>4. ASSUME NEW f \in [1 .. 1 -> {r}]
      PROVE  f = <<r>>
  <2> DEFINE one == [i \in 1 .. 1 |-> r]
  <2>1. f = one
    OBVIOUS
  <2>2. r \in {r} /\ 1 \in Nat
    OBVIOUS
  <2>3. one \in Seq({r}) /\ Len(one) = 1 /\ one[1] = r
    BY ONLY <2>2
  <2>4. <<r>> \in Seq({r}) /\ Len(<<r>>) = 1 /\ <<r>>[1] = r
    OBVIOUS
  <2> HIDE DEF one
  <2> QED BY <2>1, <2>3, <2>4, SeqEqual
<1> QED BY <1>2, <1>3, <1>4

=============================================================================
