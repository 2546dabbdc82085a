---------------------------- MODULE AnswerProofs ----------------------------
(***************************************************************************)
(* Proofs about the part of module Page that is an answer on screen        *)
(* (module Bubble), for any lines and answers of any length: what          *)
(* MarkdownContent makes of a text, what is taken out of it when the       *)
(* stream is over, and the invariant of the part.                          *)
(***************************************************************************)
EXTENDS Page, SequenceTheorems, FiniteSetTheorems, WellFoundedInduction, TLAPS

-----------------------------------------------------------------------------
(* Induction over numbers, from the least element of a set: the induction   *)
(* theorems of the library take operators, this one takes a set.            *)

\* A set of numbers has a least one.
LEMMA LeastOf ==
  ASSUME NEW T \in SUBSET Nat, T # {}
  PROVE  \E x \in T : \A y \in T : x <= y
<1> DEFINE Below == OpToRel(<, Nat)
<1>1. IsWellFoundedOn(Below, Nat)
  BY NatLessThanWellFounded
<1>2. \A x, y \in Nat : x < y => <<x, y>> \in Below
  BY DEF OpToRel
<1> HIDE DEF Below
<1>3. PICK x \in T : \A y \in T : <<y, x>> \notin Below
  BY <1>1, WFMin
<1>4. \A y \in T : x \in Nat /\ y \in Nat /\ ~(y < x)
  BY <1>2, <1>3
<1> QED
  BY <1>4

\* What holds of 0, and of n + 1 if it does of n, holds of every number.
LEMMA Upwards ==
  ASSUME NEW T, 0 \in T, \A n \in Nat : n \in T => n + 1 \in T
  PROVE  Nat \subseteq T
<1> DEFINE rest == Nat \ T
<1> SUFFICES ASSUME rest # {} PROVE FALSE
  OBVIOUS
<1>1. PICK x \in rest : \A y \in rest : x <= y
  BY LeastOf
<1>2. x # 0 /\ x - 1 \in Nat /\ x - 1 \in T
  BY <1>1
<1> QED
  BY <1>2

\* What holds of i if it does of all later indices holds of every index.
LEMMA Downwards ==
  ASSUME NEW n \in Nat, NEW T,
         \A i \in 1..n : (\A j \in (i + 1)..n : j \in T) => i \in T
  PROVE  1..n \subseteq T
<1> DEFINE done == {k \in Nat : \A j \in 1..n : j > n - k => j \in T}
<1>1. 0 \in done
  OBVIOUS
<1>2. ASSUME NEW k \in Nat, k \in done PROVE k + 1 \in done
  <2> SUFFICES ASSUME NEW j \in 1..n, j > n - (k + 1) PROVE j \in T
    OBVIOUS
  <2>1. \A i \in (j + 1)..n : i \in 1..n /\ i > n - k
    OBVIOUS
  <2> QED
    BY <1>2, <2>1
<1>3. n \in done
  <2> HIDE DEF done
  <2> QED
    BY <1>1, <1>2, Upwards
<1> QED
  BY <1>3

\* A function that recurs to a later index: there is one.
Recurs(f, n, stop, first, next, step) ==
  \A i \in 1..n : f[i] = IF i \in stop THEN first[i] ELSE step[i][f[next[i]]]

\* There is such a function.
LEMMA Recursion ==
  ASSUME NEW n \in Nat, NEW V, NEW stop, NEW first \in [1..n -> V],
         NEW next, NEW step \in [1..n -> [V -> V]],
         \A i \in 1..n : i \notin stop => next[i] \in (i + 1)..n
  PROVE  \E f \in [1..n -> V] : Recurs(f, n, stop, first, next, step)
<1> DEFINE Value(f, i) == IF i \in stop THEN first[i] ELSE step[i][f[next[i]]]
           done == {k \in Nat :
                      \E f \in [1..n -> V] : \A i \in 1..n : i > n - k => f[i] = Value(f, i)}
<1>1. \A f \in [1..n -> V], i \in 1..n : Value(f, i) \in V
  <2> SUFFICES ASSUME NEW f \in [1..n -> V], NEW i \in 1..n PROVE Value(f, i) \in V
    OBVIOUS
  <2>1. CASE i \in stop
    BY <2>1
  <2>2. CASE i \notin stop
    <3>1. next[i] \in 1..n
      BY <2>2
    <3>2. f[next[i]] \in V /\ step[i] \in [V -> V]
      BY <3>1
    <3>3. step[i][f[next[i]]] \in V
      BY <3>2, Zenon
    <3> QED
      BY <2>2, <3>3
  <2> QED
    BY <2>1, <2>2
<1>2. \A f, g \in [1..n -> V], i \in 1..n :
        (\A j \in (i + 1)..n : f[j] = g[j]) => Value(f, i) = Value(g, i)
  OBVIOUS
<1> HIDE DEF Value
<1>3. 0 \in done
  BY first \in [1..n -> V], \A i \in 1..n : ~(i > n - 0)
<1>4. ASSUME NEW k \in Nat, k \in done PROVE k + 1 \in done
  <2>1. PICK f \in [1..n -> V] : \A i \in 1..n : i > n - k => f[i] = Value(f, i)
    BY <1>4
  <2>2. CASE k >= n
    <3>1. \A i \in 1..n : i > n - k
      BY <2>2
    <3>2. \A i \in 1..n : f[i] = Value(f, i)
      BY <2>1, <3>1, Zenon
    <3>3. k + 1 \in Nat
      OBVIOUS
    <3> QED
      BY <3>2, <3>3
  <2>3. CASE k < n
    <3> DEFINE m == n - k
               g == [f EXCEPT ![m] = Value(f, m)]
    <3>0. m \in 1..n
      BY <2>3
    <3>1. m \in 1..n /\ Value(f, m) \in V
      <4> HIDE DEF m
      <4> QED
        BY <1>1, <3>0
    <3>2. g \in [1..n -> V]
      BY <3>1
    <3>3. g[m] = Value(f, m) /\ \A j \in 1..n : j # m => g[j] = f[j]
      BY <3>1
    <3>4. ASSUME NEW i \in 1..n, i > n - (k + 1) PROVE g[i] = Value(g, i)
      <4>1. i >= m /\ \A j \in (i + 1)..n : j \in 1..n /\ j # m
        BY <3>1, <3>4
      <4>2. \A j \in (i + 1)..n : f[j] = g[j]
        BY <3>3, <4>1, Zenon
      <4>3. Value(f, i) = Value(g, i)
        <5> HIDE DEF g, m
        <5> QED
          BY <1>2, <2>1, <3>2, <3>4, <4>2
      <4>4. CASE i = m
        BY <3>3, <4>3, <4>4
      <4>5. CASE i # m
        <5>1. i > n - k
          BY <4>1, <4>5
        <5> QED
          BY <2>1, <3>3, <4>3, <4>5, <5>1, Zenon
      <4> QED
        BY <4>4, <4>5
    <3> QED
      <4> HIDE DEF g
      <4>1. k + 1 \in Nat
        OBVIOUS
      <4> QED
        BY <3>2, <3>4, <4>1
  <2>4. k >= n \/ k < n
    OBVIOUS
  <2> QED
    BY <2>2, <2>3, <2>4
<1>5. n \in done
  <2> HIDE DEF done
  <2> QED
    BY <1>3, <1>4, Upwards
<1>6. PICK f \in [1..n -> V] : \A i \in 1..n : f[i] = Value(f, i)
  <2>1. \A i \in 1..n : i > n - n
    OBVIOUS
  <2> QED
    BY <1>5, <2>1
<1> QED
  BY <1>6 DEF Value, Recurs

-----------------------------------------------------------------------------
(* The fences of an answer.                                                  *)

AnyLines == [k : Answer!Kinds, indent : BOOLEAN]

\* Min of the community modules is the least element.
LEMMA MinOf ==
  ASSUME NEW T \in SUBSET Nat, T # {}
  PROVE  Answer!Min(T) \in T /\ \A y \in T : Answer!Min(T) <= y
  BY LeastOf DEF Answer!Min

\* The opening fence and the next one after it: within the lines, and in order.
LEMMA FencesFound ==
  ASSUME NEW lines \in Seq(AnyLines), NEW i \in 1..(Len(lines) + 1)
  PROVE  /\ Answer!Opening(lines, i) \in Nat /\ Answer!Closing(lines, i) \in Nat
         /\ \/ Answer!Closing(lines, i) > Len(lines)
            \/ /\ i <= Answer!Opening(lines, i)
               /\ Answer!Opening(lines, i) < Answer!Closing(lines, i)
               /\ lines[Answer!Opening(lines, i)].k = "art"
               /\ lines[Answer!Closing(lines, i)].k \in Answer!Fences
<1> DEFINE end == Len(lines) + 1
           opens == {j \in i..Len(lines) : lines[j].k = "art"} \cup {end}
           opening == Answer!Opening(lines, i)
           closes == {j \in (opening + 1)..Len(lines) : lines[j].k \in Answer!Fences} \cup {end}
           closing == Answer!Closing(lines, i)
<1>1. Len(lines) \in Nat
  OBVIOUS
<1>2. opening = Answer!Min(opens)
  BY DEF Answer!Opening, Answer!FirstFrom
<1>3. opening \in opens
  <2>1. opens \in SUBSET Nat /\ opens # {}
    BY <1>1
  <2> QED
    BY <1>2, <2>1, MinOf
<1>4. opening \in Nat
  BY <1>1, <1>3
<1>5. closing = Answer!Min(closes)
  BY DEF Answer!Closing, Answer!FirstFrom
<1>6. closing \in closes
  <2> HIDE DEF opening
  <2>1. closes \in SUBSET Nat /\ closes # {}
    BY <1>1, <1>4
  <2> QED
    BY <1>5, <2>1, MinOf
<1> HIDE DEF opening, closing
<1>7. ASSUME closing <= Len(lines)
      PROVE  i <= opening /\ opening < closing /\ lines[opening].k = "art"
             /\ lines[closing].k \in Answer!Fences
  BY <1>1, <1>3, <1>4, <1>6, <1>7
<1> QED
  BY <1>1, <1>4, <1>6, <1>7 DEF opening, closing

-----------------------------------------------------------------------------
(* What Extract computes.                                                    *)

Extracts == [artifacts : Nat, text : Seq(AnyLines)]

Ends(lines, i) == Answer!Closing(lines, i) > Len(lines)
Tail1(lines, i) == [artifacts |-> 0, text |-> SubSeq(lines, i, Len(lines))]
Taken(lines, i, next) ==
  IF Answer!Parses(lines, Answer!Opening(lines, i), Answer!Closing(lines, i))
  THEN [artifacts |-> next.artifacts + 1,
        text |-> SubSeq(lines, i, Answer!Opening(lines, i) - 1)
                 \o <<Answer!Rest(lines[Answer!Closing(lines, i)])>> \o next.text]
  ELSE [next EXCEPT !.text = SubSeq(lines, i, Answer!Closing(lines, i)) \o @]
Behind(lines, i) == Answer!Closing(lines, i) + 1

\* What is taken out of the lines are lines again.
LEMMA TakenInRange ==
  ASSUME NEW lines \in Seq(AnyLines), NEW i \in 1..(Len(lines) + 1), ~Ends(lines, i),
         NEW next \in Extracts
  PROVE  Taken(lines, i, next) \in Extracts
<1> DEFINE opening == Answer!Opening(lines, i)
           closing == Answer!Closing(lines, i)
           rest == <<Answer!Rest(lines[closing])>>
<1>1. /\ Len(lines) \in Nat /\ opening \in Nat /\ closing \in Nat
      /\ i <= opening /\ opening < closing /\ closing <= Len(lines) /\ i \in Nat
      /\ \A j \in 1..Len(lines) : lines[j] \in AnyLines
  BY FencesFound DEF Ends
<1>2. rest \in Seq(AnyLines)
  <2>1. Answer!Rest(lines[closing]) \in AnyLines
    BY DEF Answer!Rest, Answer!LineOf, AnyLines, Answer!Kinds
  <2> QED
    BY <2>1
<1>3. next.artifacts \in Nat /\ next.text \in Seq(AnyLines)
  BY DEF Extracts
<1> HIDE DEF opening, closing, rest
<1>5. SubSeq(lines, i, opening - 1) \in Seq(AnyLines) /\ SubSeq(lines, i, closing) \in Seq(AnyLines)
  <2>1. opening - 1 \in Int /\ closing \in Int /\ i \in Int
        /\ \A j \in i..(opening - 1) : lines[j] \in AnyLines
    BY <1>1
  <2>2. \A j \in i..closing : lines[j] \in AnyLines
    BY <1>1
  <2> QED
    BY <2>1, <2>2, SubSeqProperties
<1>6. SubSeq(lines, i, opening - 1) \o rest \o next.text \in Seq(AnyLines)
  BY <1>2, <1>3, <1>5, ConcatProperties
<1>7. SubSeq(lines, i, closing) \o next.text \in Seq(AnyLines)
  BY <1>3, <1>5, ConcatProperties
<1>8. Taken(lines, i, next)
      = IF Answer!Parses(lines, opening, closing)
        THEN [artifacts |-> next.artifacts + 1,
              text |-> SubSeq(lines, i, opening - 1) \o rest \o next.text]
        ELSE [artifacts |-> next.artifacts, text |-> SubSeq(lines, i, closing) \o next.text]
  <2>1. \A x : [next EXCEPT !.text = x] = [artifacts |-> next.artifacts, text |-> x]
    BY DEF Extracts
  <2> QED
    BY <2>1 DEF Taken, opening, closing, rest
<1> HIDE DEF Taken
<1>9. next.artifacts + 1 \in Nat
  BY <1>3
<1> QED
  BY <1>3, <1>6, <1>7, <1>8, <1>9 DEF Extracts

\* Extract is the first value of a function that recurs to a later line.
LEMMA ExtractFrom ==
  ASSUME NEW lines \in Seq(AnyLines)
  PROVE  \E f \in [1..(Len(lines) + 1) -> Extracts] :
           /\ Answer!Extract(lines) = f[1]
           /\ \A i \in 1..(Len(lines) + 1) :
                f[i] = IF Ends(lines, i) THEN Tail1(lines, i)
                       ELSE Taken(lines, i, f[Behind(lines, i)])
<1> DEFINE n == Len(lines) + 1
           stop == {i \in 1..n : Ends(lines, i)}
           first1 == [i \in 1..n |-> Tail1(lines, i)]
           next1 == [i \in 1..n |-> Behind(lines, i)]
           step == [i \in 1..n |-> [r \in Extracts |->
                      IF Ends(lines, i) THEN r ELSE Taken(lines, i, r)]]
           Is(f) == f = [i \in 1..n |-> IF Ends(lines, i) THEN Tail1(lines, i)
                                        ELSE Taken(lines, i, f[Behind(lines, i)])]
<1>1. Answer!Extract(lines) = (CHOOSE f : Is(f))[1]
  BY DEF Answer!Extract, Ends, Tail1, Taken, Behind
<1>2. n \in Nat /\ Len(lines) \in Nat
  OBVIOUS
<1>3. stop \in SUBSET (1..n)
  OBVIOUS
<1>4. first1 \in [1..n -> Extracts]
  <2>1. ASSUME NEW i \in 1..n PROVE Tail1(lines, i) \in Extracts
    <3>1. /\ i \in Int /\ Len(lines) \in Int
          /\ \A j \in i..Len(lines) : lines[j] \in AnyLines
      BY <1>2
    <3>2. SubSeq(lines, i, Len(lines)) \in Seq(AnyLines)
      BY <3>1, SubSeqProperties
    <3> QED
      BY <3>2 DEF Tail1, Extracts
  <2> QED
    BY <2>1
<1>5. next1 \in [1..n -> Nat] /\ \A i \in 1..n : i \notin stop => next1[i] \in (i + 1)..n
  <2>1. ASSUME NEW i \in 1..n
        PROVE  Behind(lines, i) \in Nat /\ (~Ends(lines, i) => Behind(lines, i) \in (i + 1)..n)
    <3>2. /\ Answer!Opening(lines, i) \in Nat /\ Answer!Closing(lines, i) \in Nat
          /\ \/ Answer!Closing(lines, i) > Len(lines)
             \/ i <= Answer!Opening(lines, i) /\ Answer!Opening(lines, i) < Answer!Closing(lines, i)
      BY FencesFound
    <3> QED
      BY <1>2, <3>2 DEF Behind, Ends
  <2> QED
    BY <2>1
<1>6. step \in [1..n -> [Extracts -> Extracts]]
  <2>1. ASSUME NEW i \in 1..n, NEW r \in Extracts
        PROVE  (IF Ends(lines, i) THEN r ELSE Taken(lines, i, r)) \in Extracts
    BY TakenInRange
  <2> QED
    BY <2>1
<1>7. PICK f \in [1..n -> Extracts] : \A i \in 1..n :
        f[i] = IF i \in stop THEN first1[i] ELSE step[i][f[next1[i]]]
  <2> HIDE DEF n, stop, first1, next1, step
  <2>1. n \in Nat /\ \A i \in 1..n : i \notin stop => next1[i] \in (i + 1)..n
    BY <1>2, <1>5
  <2>2. \E f \in [1..n -> Extracts] : Recurs(f, n, stop, first1, next1, step)
    BY <1>4, <1>6, <2>1, Recursion, Zenon
  <2> QED
    BY <2>2 DEF Recurs
<1>8. ASSUME NEW i \in 1..n
      PROVE  f[i] = IF Ends(lines, i) THEN Tail1(lines, i)
                    ELSE Taken(lines, i, f[Behind(lines, i)])
  <2>1. CASE Ends(lines, i)
    BY <1>7, <2>1
  <2>2. CASE ~Ends(lines, i)
    <3>1. f[Behind(lines, i)] \in Extracts
      <4>1. next1[i] \in 1..n
        BY <1>5, <2>2
      <4> QED
        BY <1>7, <4>1
    <3>2. f[i] = step[i][f[Behind(lines, i)]]
      BY <1>7, <2>2
    <3> QED
      BY <2>2, <3>1, <3>2
  <2> QED
    BY <2>1, <2>2
<1>9. Is(f)
  BY <1>7, <1>8
<1> DEFINE g == CHOOSE h : Is(h)
<1>10. Is(g)
  <2> HIDE DEF Is
  <2> QED
    BY <1>9
<1> HIDE DEF g
<1>11. \A i \in 1..n : g[i] = IF Ends(lines, i) THEN Tail1(lines, i)
                               ELSE Taken(lines, i, g[Behind(lines, i)])
  BY <1>10
<1>12. 1..n \subseteq {i \in 1..n : g[i] \in Extracts}
  <2> DEFINE T == {i \in 1..n : g[i] \in Extracts}
  <2>1. ASSUME NEW i \in 1..n, \A j \in (i + 1)..n : j \in T PROVE i \in T
    <3>1. CASE Ends(lines, i)
      <4>1. first1[i] \in Extracts /\ g[i] = Tail1(lines, i)
        BY <1>4, <1>11, <3>1
      <4> QED
        BY <4>1
    <3>2. CASE ~Ends(lines, i)
      <4>1. Behind(lines, i) \in (i + 1)..n
        BY <1>5, <3>2
      <4>2. g[Behind(lines, i)] \in Extracts
        BY <2>1, <4>1
      <4>3. g[i] = Taken(lines, i, g[Behind(lines, i)])
        BY <1>11, <3>2
      <4> QED
        BY <3>2, <4>2, <4>3, TakenInRange
    <3> QED
      BY <3>1, <3>2
  <2> HIDE DEF T
  <2>2. 1..n \subseteq T
    <3> HIDE DEF n
    <3> QED
      BY <1>2, <2>1, Downwards
  <2> QED
    BY <2>2 DEF T
<1>13. g \in [1..n -> Extracts]
  <2>1. g = [i \in 1..n |-> g[i]]
    BY <1>10
  <2> QED
    BY <1>12, <2>1
<1> QED
  BY <1>1, <1>11, <1>13 DEF g

-----------------------------------------------------------------------------
(* Counting the lines of a kind.                                             *)

Moved(s, t, a, b, d) == \A i \in a..b : \A j \in Int : j = i + d => t[j].k = s[i].k
Within(s, a, b, kind) == {i \in a..b : s[i].k = kind}

\* Moving numbers does not change how many there are.
LEMMA Shifted ==
  ASSUME NEW A \in SUBSET Int, IsFiniteSet(A), NEW d \in Int
  PROVE  IsFiniteSet({x + d : x \in A}) /\ Cardinality({x + d : x \in A}) = Cardinality(A)
<1> DEFINE B == {x + d : x \in A}
           f == [x \in A |-> x + d]
<1>1. f \in Bijection(A, B)
  <2>1. f \in [A -> B]
    OBVIOUS
  <2>2. \A x, y \in A : f[x] = f[y] => x = y
    OBVIOUS
  <2>3. \A z \in B : \E x \in A : f[x] = z
    OBVIOUS
  <2> HIDE DEF f, B
  <2> QED
    BY <2>1, <2>2, <2>3 DEF Bijection, Injection, Surjection, IsInjective
<1>2. ExistsBijection(A, B)
  BY <1>1 DEF ExistsBijection
<1> QED
  BY <1>2, FS_Bijection

\* The lines of one kind in a range can be counted.
LEMMA WithinFinite ==
  ASSUME NEW s, NEW a \in Int, NEW b \in Int, NEW kind
  PROVE  /\ IsFiniteSet(Within(s, a, b, kind)) /\ Within(s, a, b, kind) \in SUBSET Int
         /\ Cardinality(Within(s, a, b, kind)) \in Nat
<1>1. IsFiniteSet(a..b) /\ Within(s, a, b, kind) \in SUBSET (a..b)
  BY FS_Interval DEF Within
<1>2. IsFiniteSet(Within(s, a, b, kind))
  BY <1>1, FS_Subset
<1> QED
  BY <1>1, <1>2, FS_CardinalityType

\* A range holds what its two parts hold.
LEMMA WithinSplits ==
  ASSUME NEW s, NEW a \in Int, NEW b \in Int, NEW c \in Int, NEW kind, a <= b + 1, b <= c
  PROVE  Cardinality(Within(s, a, c, kind))
         = Cardinality(Within(s, a, b, kind)) + Cardinality(Within(s, b + 1, c, kind))
<1>1. Within(s, a, c, kind) = Within(s, a, b, kind) \cup Within(s, b + 1, c, kind)
  BY DEF Within
<1>2. Within(s, a, b, kind) \cap Within(s, b + 1, c, kind) = {}
  BY DEF Within
<1>3. b + 1 \in Int
  OBVIOUS
<1>4. /\ IsFiniteSet(Within(s, a, b, kind)) /\ IsFiniteSet(Within(s, b + 1, c, kind))
      /\ Cardinality(Within(s, a, b, kind)) \in Nat
      /\ Cardinality(Within(s, b + 1, c, kind)) \in Nat
  BY <1>3, WithinFinite
<1>5. Cardinality(Within(s, a, c, kind))
      = Cardinality(Within(s, a, b, kind)) + Cardinality(Within(s, b + 1, c, kind))
        - Cardinality({})
  BY <1>1, <1>2, <1>4, FS_Union
<1> QED
  BY <1>4, <1>5, FS_EmptySet

\* Lines that are the same but for their place count the same.
LEMMA WithinShifts ==
  ASSUME NEW s, NEW t, NEW a \in Int, NEW b \in Int, NEW d \in Int, NEW kind,
         Moved(s, t, a, b, d)
  PROVE  Cardinality(Within(t, a + d, b + d, kind)) = Cardinality(Within(s, a, b, kind))
<1>1. Within(t, a + d, b + d, kind) = {x + d : x \in Within(s, a, b, kind)}
  <2>1. ASSUME NEW i \in Within(t, a + d, b + d, kind)
        PROVE  \E x \in Within(s, a, b, kind) : i = x + d
    <3>1. i - d \in a..b /\ i = (i - d) + d
      BY DEF Within
    <3>2. t[(i - d) + d].k = s[i - d].k
      BY <3>1 DEF Moved
    <3>3. i - d \in Within(s, a, b, kind)
      BY <3>1, <3>2 DEF Within
    <3> QED
      BY <3>1, <3>3
  <2>2. ASSUME NEW x \in Within(s, a, b, kind) PROVE x + d \in Within(t, a + d, b + d, kind)
    BY DEF Within, Moved
  <2> QED
    BY <2>1, <2>2
<1> QED
  BY <1>1, WithinFinite, Shifted

\* Count counts all lines of a kind.
LEMMA CountIs ==
  ASSUME NEW s \in Seq(AnyLines), NEW kind
  PROVE  Answer!Count(s, kind) = Cardinality(Within(s, 1, Len(s), kind))
         /\ Answer!Count(s, kind) \in Nat
<1>1. DOMAIN s = 1..Len(s) /\ Len(s) \in Int /\ 1 \in Int
  OBVIOUS
<1>2. Answer!Count(s, kind) = Answer!Cardinality(Within(s, 1, Len(s), kind))
  BY <1>1 DEF Answer!Count, Within
<1>3. Answer!Cardinality(Within(s, 1, Len(s), kind)) = Cardinality(Within(s, 1, Len(s), kind))
  BY DEF Answer!Cardinality, Cardinality
<1> QED
  BY <1>1, <1>2, <1>3, WithinFinite

\* Two texts have the lines of both.
LEMMA CountOfConcat ==
  ASSUME NEW s \in Seq(AnyLines), NEW t \in Seq(AnyLines), NEW kind
  PROVE  Answer!Count(s \o t, kind) = Answer!Count(s, kind) + Answer!Count(t, kind)
<1>1. /\ s \o t \in Seq(AnyLines) /\ Len(s \o t) = Len(s) + Len(t)
      /\ Len(s) \in Nat /\ Len(t) \in Nat
      /\ \A i \in 1..(Len(s) + Len(t)) :
           (s \o t)[i] = IF i <= Len(s) THEN s[i] ELSE t[i - Len(s)]
  BY ConcatProperties
<1> DEFINE u == s \o t
           m == Len(s)
           n == Len(t)
<1>2. Moved(s, u, 1, m, 0)
  <2>1. \A i \in 1..m : i \in 1..(m + n) /\ i + 0 = i /\ i <= m
    BY <1>1
  <2> QED
    BY <1>1, <2>1 DEF Moved
<1>3. Moved(t, u, 1, n, m)
  <2>1. \A i \in 1..n : \A j \in Int : j = i + m => j \in 1..(m + n) /\ ~(j <= m) /\ j - m = i
    BY <1>1
  <2> QED
    BY <1>1, <2>1 DEF Moved
<1>4. Len(u) = m + n
  BY <1>1
<1>5. Answer!Count(u, kind) = Cardinality(Within(u, 1, m + n, kind))
      /\ Answer!Count(s, kind) = Cardinality(Within(s, 1, m, kind))
      /\ Answer!Count(t, kind) = Cardinality(Within(t, 1, n, kind))
  BY <1>1, <1>4, CountIs
<1> HIDE DEF u, m, n
<1>6. m \in Int /\ n \in Int /\ m \in Nat /\ n \in Nat /\ 0 \in Int /\ 1 \in Int
  BY <1>1 DEF m, n
<1>7. Cardinality(Within(u, 1 + 0, m + 0, kind)) = Cardinality(Within(s, 1, m, kind))
  BY <1>2, <1>6, WithinShifts
<1>8. Cardinality(Within(u, 1 + m, n + m, kind)) = Cardinality(Within(t, 1, n, kind))
  BY <1>3, <1>6, WithinShifts
<1>9. 1 + 0 = 1 /\ m + 0 = m /\ 1 + m = m + 1 /\ n + m = m + n
  BY <1>6
<1>10. Cardinality(Within(u, 1, m + n, kind))
       = Cardinality(Within(u, 1, m, kind)) + Cardinality(Within(u, m + 1, m + n, kind))
  BY <1>6, WithinSplits
<1> QED
  BY <1>5, <1>7, <1>8, <1>9, <1>10 DEF u

\* A part of a text has the lines of its range.
LEMMA CountOfSubSeq ==
  ASSUME NEW s \in Seq(AnyLines), NEW a \in Nat, NEW b \in Nat, NEW kind,
         1 <= a, a <= b + 1, b <= Len(s)
  PROVE  /\ SubSeq(s, a, b) \in Seq(AnyLines)
         /\ Answer!Count(SubSeq(s, a, b), kind) = Cardinality(Within(s, a, b, kind))
<1> DEFINE u == SubSeq(s, a, b)
           n == b - a + 1
<1>1. \A i \in a..b : s[i] \in AnyLines
  OBVIOUS
<1>2. u \in Seq(AnyLines) /\ Len(u) = n /\ \A i \in 1..n : u[i] = s[a + i - 1]
  BY <1>1, SubSeqProperties
<1>3. 1 \in Int /\ n \in Int /\ a - 1 \in Int /\ Moved(u, s, 1, n, a - 1)
  <2>1. \A i \in 1..n : \A j \in Int : j = i + (a - 1) => j = a + i - 1
    OBVIOUS
  <2> QED
    BY <1>2, <2>1 DEF Moved
<1>4. Answer!Count(u, kind) = Cardinality(Within(u, 1, n, kind))
  BY <1>2, CountIs
<1> HIDE DEF u
<1>5. Cardinality(Within(s, 1 + (a - 1), n + (a - 1), kind)) = Cardinality(Within(u, 1, n, kind))
  <2> HIDE DEF n
  <2> QED
    BY <1>3, WithinShifts
<1>6. 1 + (a - 1) = a /\ n + (a - 1) = b
  OBVIOUS
<1> QED
  BY <1>2, <1>4, <1>5, <1>6 DEF u

-----------------------------------------------------------------------------
(* Extract keeps every line of JSON, text and heading.                       *)

\* What Extract makes of the lines from i on.
Fits(lines, i, r) ==
  /\ r \in Extracts
  /\ Cardinality(Within(lines, i, Len(lines), "json")) = r.artifacts + Answer!Count(r.text, "json")
  /\ \A kind \in {"text", "head"} :
       Cardinality(Within(lines, i, Len(lines), kind)) <= Answer!Count(r.text, kind)

\* What is left of a text from line i on.
LEMMA RestCounts ==
  ASSUME NEW line \in AnyLines
  PROVE  /\ <<Answer!Rest(line)>> \in Seq(AnyLines)
         /\ Answer!Count(<<Answer!Rest(line)>>, "json") = 0
<1> DEFINE s == <<Answer!Rest(line)>>
<1>1. Answer!Rest(line) \in AnyLines /\ Answer!Rest(line).k # "json"
  BY DEF Answer!Rest, Answer!LineOf, AnyLines, Answer!Kinds
<1>2. s \in Seq(AnyLines) /\ Len(s) = 1 /\ s[1].k # "json"
  BY <1>1
<1>3. Within(s, 1, Len(s), "json") = {}
  BY <1>2 DEF Within
<1> HIDE DEF s
<1>4. Answer!Count(s, "json") = 0
  BY <1>2, <1>3, CountIs, FS_EmptySet
<1> QED
  BY <1>2, <1>4 DEF s

\* The lines of a block of JSON from its opening fence to what is behind it.
LEMMA BlockCounts ==
  ASSUME NEW lines, NEW a \in Nat, NEW b \in Nat, a < b,
         lines[a].k = "art", lines[b].k \in Answer!Fences, Answer!Parses(lines, a, b)
  PROVE  /\ Cardinality(Within(lines, a, b, "json")) = 1
         /\ \A kind \in {"text", "head"} : Cardinality(Within(lines, a, b, kind)) = 0
<1>1. PICK j \in (a + 1)..(b - 1) :
        /\ lines[j].k = "json"
        /\ \A i \in (a + 1)..(b - 1) : i = j \/ lines[i].k = "blank"
  BY DEF Answer!Parses, Answer!Blank
<1>2. lines[b].k \in {"fence", "art"}
  BY DEF Answer!Fences
<1>3. \A i \in a..b : i = a \/ i = b \/ i \in (a + 1)..(b - 1)
  OBVIOUS
<1>4. Within(lines, a, b, "json") = {j}
  BY <1>1, <1>2, <1>3 DEF Within
<1>5. \A kind \in {"text", "head"} : Within(lines, a, b, kind) = {}
  BY <1>1, <1>2, <1>3 DEF Within
<1> QED
  BY <1>4, <1>5, FS_Singleton, FS_EmptySet

\* If the lines behind a block are all accounted for, so are those from it on.
LEMMA TakenFits ==
  ASSUME NEW lines \in Seq(AnyLines), NEW i \in 1..(Len(lines) + 1), ~Ends(lines, i),
         NEW next, Fits(lines, Behind(lines, i), next)
  PROVE  Fits(lines, i, Taken(lines, i, next))
<1> DEFINE L == Len(lines)
           o == Answer!Opening(lines, i)
           c == Answer!Closing(lines, i)
           rest == <<Answer!Rest(lines[c])>>
           W(a, b, kind) == Cardinality(Within(lines, a, b, kind))
           K == {"json", "text", "head"}
<1>1. /\ L \in Nat /\ o \in Nat /\ c \in Nat /\ i \in Nat /\ 1 <= i
      /\ i <= o /\ o < c /\ c <= L
      /\ lines[o].k = "art" /\ lines[c].k \in Answer!Fences /\ lines[c] \in AnyLines
  BY FencesFound DEF Ends
<1>2. next \in Extracts /\ next.artifacts \in Nat /\ next.text \in Seq(AnyLines)
  BY DEF Fits, Extracts
<1>3. Taken(lines, i, next) \in Extracts
  BY <1>2, TakenInRange
<1>4. Behind(lines, i) = c + 1
  BY DEF Behind
<1>5. /\ W(c + 1, L, "json") = next.artifacts + Answer!Count(next.text, "json")
      /\ \A kind \in {"text", "head"} : W(c + 1, L, kind) <= Answer!Count(next.text, kind)
  BY <1>4 DEF Fits
<1> HIDE DEF L, o, c
<1>6. \A kind : W(i, L, kind) = W(i, c, kind) + W(c + 1, L, kind)
  BY <1>1, WithinSplits
<1>7. \A kind : W(i, c, kind) = W(i, o - 1, kind) + W(o, c, kind)
  <2>1. (o - 1) + 1 = o /\ o - 1 \in Int /\ i <= (o - 1) + 1 /\ o - 1 <= c
    BY <1>1
  <2> QED
    BY <1>1, <2>1, WithinSplits
<1>8. \A kind : /\ W(i, o - 1, kind) \in Nat /\ W(i, c, kind) \in Nat
                /\ W(c + 1, L, kind) \in Nat
  <2>1. i \in Int /\ o - 1 \in Int /\ c \in Int /\ c + 1 \in Int /\ L \in Int
    BY <1>1
  <2> QED
    BY <2>1, WithinFinite
<1>9. \A kind : Answer!Count(next.text, kind) \in Nat
  BY <1>2, CountIs
<1>10. CASE Answer!Parses(lines, o, c)
  <2> DEFINE head1 == SubSeq(lines, i, o - 1)
  <2>1. head1 \in Seq(AnyLines) /\ \A kind : Answer!Count(head1, kind) = W(i, o - 1, kind)
    <3>1. o - 1 \in Nat /\ i <= (o - 1) + 1 /\ o - 1 <= Len(lines)
      BY <1>1 DEF L
    <3> QED
      BY <1>1, <3>1, CountOfSubSeq
  <2>2. /\ rest \in Seq(AnyLines) /\ Answer!Count(rest, "json") = 0
        /\ \A kind : Answer!Count(rest, kind) \in Nat
    BY <1>1, RestCounts, CountIs
  <2>3. /\ Taken(lines, i, next).artifacts = next.artifacts + 1
        /\ Taken(lines, i, next).text = head1 \o rest \o next.text
    BY <1>10 DEF Taken, o, c
  <2> HIDE DEF head1, rest, W
  <2>4. head1 \o rest \in Seq(AnyLines)
    BY <2>1, <2>2, ConcatProperties
  <2>5. \A kind : Answer!Count(head1 \o rest \o next.text, kind)
          = (W(i, o - 1, kind) + Answer!Count(rest, kind)) + Answer!Count(next.text, kind)
    <3> DEFINE both == head1 \o rest
    <3>1. \A kind : Answer!Count(both, kind) = Answer!Count(head1, kind) + Answer!Count(rest, kind)
      BY <2>1, <2>2, CountOfConcat
    <3>2. both \in Seq(AnyLines)
      BY <2>4
    <3> HIDE DEF both
    <3>3. \A kind : Answer!Count(both \o next.text, kind)
                   = Answer!Count(both, kind) + Answer!Count(next.text, kind)
      BY <1>2, <3>2, CountOfConcat
    <3> QED
      BY <2>1, <3>1, <3>3 DEF both
  <2>6. W(o, c, "json") = 1 /\ W(o, c, "text") = 0 /\ W(o, c, "head") = 0
    BY <1>1, <1>10, BlockCounts DEF W
  <2>7. \A kind : W(i, o - 1, kind) \in Nat
    BY <1>8
  <2>8. W(i, L, "json") = (next.artifacts + 1) + Answer!Count(head1 \o rest \o next.text, "json")
    <3>1. /\ W(i, L, "json") = W(i, c, "json") + W(c + 1, L, "json")
          /\ W(i, c, "json") = W(i, o - 1, "json") + W(o, c, "json")
          /\ W(c + 1, L, "json") = next.artifacts + Answer!Count(next.text, "json")
          /\ Answer!Count(head1 \o rest \o next.text, "json")
             = (W(i, o - 1, "json") + Answer!Count(rest, "json")) + Answer!Count(next.text, "json")
      BY <1>5, <1>6, <1>7, <2>5
    <3> QED
      BY <1>2, <1>9, <2>2, <2>6, <2>7, <3>1
  <2>9. ASSUME NEW kind \in {"text", "head"}
        PROVE  W(i, L, kind) <= Answer!Count(head1 \o rest \o next.text, kind)
    <3>1. /\ W(i, L, kind) = W(i, c, kind) + W(c + 1, L, kind)
          /\ W(i, c, kind) = W(i, o - 1, kind) + W(o, c, kind)
          /\ W(c + 1, L, kind) <= Answer!Count(next.text, kind)
          /\ Answer!Count(head1 \o rest \o next.text, kind)
             = (W(i, o - 1, kind) + Answer!Count(rest, kind)) + Answer!Count(next.text, kind)
      BY <1>5, <1>6, <1>7, <2>5
    <3>2. W(o, c, kind) = 0 /\ W(c + 1, L, kind) \in Nat
      BY <1>8, <2>6
    <3> QED
      BY <1>9, <2>2, <2>7, <3>1, <3>2
  <2> QED
    BY <1>3, <2>3, <2>8, <2>9 DEF Fits, W, L
<1>11. CASE ~Answer!Parses(lines, o, c)
  <2> DEFINE head1 == SubSeq(lines, i, c)
  <2>1. head1 \in Seq(AnyLines) /\ \A kind : Answer!Count(head1, kind) = W(i, c, kind)
    <3>1. c \in Nat /\ i <= c + 1 /\ c <= Len(lines)
      BY <1>1 DEF L
    <3> QED
      BY <1>1, <3>1, CountOfSubSeq
  <2>2. /\ Taken(lines, i, next).artifacts = next.artifacts
        /\ Taken(lines, i, next).text = head1 \o next.text
    <3>1. \A x : [next EXCEPT !.text = x] = [artifacts |-> next.artifacts, text |-> x]
      BY <1>2 DEF Extracts
    <3>2. Taken(lines, i, next) = [artifacts |-> next.artifacts, text |-> head1 \o next.text]
      BY <1>11, <3>1 DEF Taken, o, c
    <3> HIDE DEF head1
    <3>3. \A a, x : [artifacts |-> a, text |-> x].artifacts = a
                    /\ [artifacts |-> a, text |-> x].text = x
      OBVIOUS
    <3> QED
      BY <3>2, <3>3, Zenon
  <2> HIDE DEF head1, W
  <2>3. \A kind : Answer!Count(head1 \o next.text, kind) = W(i, c, kind) + Answer!Count(next.text, kind)
    BY <1>2, <2>1, CountOfConcat
  <2>4. \A kind : W(i, c, kind) \in Nat
    BY <1>8
  <2>5. W(i, L, "json") = next.artifacts + Answer!Count(head1 \o next.text, "json")
    <3>1. /\ W(i, L, "json") = W(i, c, "json") + W(c + 1, L, "json")
          /\ W(c + 1, L, "json") = next.artifacts + Answer!Count(next.text, "json")
          /\ Answer!Count(head1 \o next.text, "json")
             = W(i, c, "json") + Answer!Count(next.text, "json")
      BY <1>5, <1>6, <2>3
    <3> QED
      BY <1>2, <1>9, <2>4, <3>1
  <2>6. ASSUME NEW kind \in {"text", "head"}
        PROVE  W(i, L, kind) <= Answer!Count(head1 \o next.text, kind)
    <3>1. /\ W(i, L, kind) = W(i, c, kind) + W(c + 1, L, kind)
          /\ W(c + 1, L, kind) <= Answer!Count(next.text, kind)
          /\ Answer!Count(head1 \o next.text, kind) = W(i, c, kind) + Answer!Count(next.text, kind)
      BY <1>5, <1>6, <2>3
    <3>2. W(c + 1, L, kind) \in Nat
      BY <1>8
    <3> QED
      BY <1>9, <2>4, <3>1, <3>2
  <2> QED
    BY <1>3, <2>2, <2>5, <2>6 DEF Fits, W, L
<1> QED
  BY <1>10, <1>11

\* Where there is no block any more the text stays as it is.
LEMMA EndFits ==
  ASSUME NEW lines \in Seq(AnyLines), NEW i \in 1..(Len(lines) + 1)
  PROVE  Fits(lines, i, Tail1(lines, i))
<1> DEFINE L == Len(lines)
           s == SubSeq(lines, i, L)
<1>1. L \in Nat /\ i \in Nat /\ 1 <= i /\ i <= L + 1 /\ L <= Len(lines)
  OBVIOUS
<1>2. s \in Seq(AnyLines) /\ \A kind : Answer!Count(s, kind) = Cardinality(Within(lines, i, L, kind))
  BY <1>1, CountOfSubSeq
<1>3. \A kind : Answer!Count(s, kind) \in Nat
  BY <1>2, CountIs
<1>4. Tail1(lines, i) = [artifacts |-> 0, text |-> s]
  BY DEF Tail1
<1>5. Tail1(lines, i) \in Extracts
  BY <1>2, <1>4 DEF Extracts
<1> HIDE DEF s
<1> QED
  BY <1>2, <1>3, <1>4, <1>5 DEF Fits

\* Each line of JSON becomes an artifact or stays in the text, and no line of
\* text or heading is lost.
LEMMA ExtractKeeps ==
  ASSUME NEW lines \in Seq(AnyLines)
  PROVE  Fits(lines, 1, Answer!Extract(lines))
<1> DEFINE n == Len(lines) + 1
<1>1. PICK f \in [1..n -> Extracts] :
        /\ Answer!Extract(lines) = f[1]
        /\ \A i \in 1..n : f[i] = IF Ends(lines, i) THEN Tail1(lines, i)
                                  ELSE Taken(lines, i, f[Behind(lines, i)])
  BY ExtractFrom
<1> DEFINE T == {i \in 1..n : Fits(lines, i, f[i])}
<1>2. n \in Nat /\ Len(lines) \in Nat
  OBVIOUS
<1>3. ASSUME NEW i \in 1..n, \A j \in (i + 1)..n : j \in T PROVE i \in T
  <2>1. CASE Ends(lines, i)
    <3>1. f[i] = Tail1(lines, i)
      BY <1>1, <2>1
    <3> QED
      BY <3>1, EndFits
  <2>2. CASE ~Ends(lines, i)
    <3>1. Behind(lines, i) \in (i + 1)..n
      BY <1>2, <2>2, FencesFound DEF Behind, Ends
    <3>2. Fits(lines, Behind(lines, i), f[Behind(lines, i)])
      BY <1>3, <3>1
    <3>3. f[i] = Taken(lines, i, f[Behind(lines, i)])
      BY <1>1, <2>2
    <3>4. Fits(lines, i, Taken(lines, i, f[Behind(lines, i)]))
      BY <2>2, <3>2, TakenFits
    <3> QED
      BY <3>3, <3>4
  <2> QED
    BY <2>1, <2>2
<1>4. 1..n \subseteq T
  <2> HIDE DEF n, T
  <2> QED
    BY <1>2, <1>3, Downwards
<1>5. 1 \in 1..n
  BY <1>2
<1> QED
  BY <1>1, <1>4, <1>5

-----------------------------------------------------------------------------
(* trim keeps every line of JSON and heading, and loses no text.             *)

\* Max of the community modules is the greatest element.
LEMMA MaxOf ==
  ASSUME NEW n \in Nat, NEW T \in SUBSET (0..n), T # {}
  PROVE  Answer!Max(T) \in T /\ \A y \in T : y <= Answer!Max(T)
<1> DEFINE below == {n - x : x \in T}
<1>1. below \in SUBSET Nat /\ below # {}
  <2>1. \A x \in T : x \in Nat /\ n - x \in Nat
    OBVIOUS
  <2>2. PICK x \in T : TRUE
    OBVIOUS
  <2>3. n - x \in below
    BY <2>2
  <2> QED
    BY <2>1, <2>3
<1>2. PICK z \in below : \A y \in below : z <= y
  BY <1>1, LeastOf
<1>3. PICK x \in T : z = n - x
  BY <1>2
<1>4. \A y \in T : x >= y
  <2> SUFFICES ASSUME NEW y \in T PROVE x >= y
    OBVIOUS
  <2>1. n - y \in below
    OBVIOUS
  <2> QED
    BY <1>2, <1>3, <2>1
<1>5. Answer!Max(T) \in T /\ \A y \in T : Answer!Max(T) >= y
  BY <1>3, <1>4 DEF Answer!Max
<1>6. \A y \in T : y \in Int
  OBVIOUS
<1> QED
  BY <1>5, <1>6

\* Only blank lines are cut off at the end.
LEMMA StemKeeps ==
  ASSUME NEW s \in Seq(AnyLines)
  PROVE  /\ Answer!Stem(s) \in Seq(AnyLines)
         /\ \A kind : kind # "blank" => Answer!Count(Answer!Stem(s), kind) = Answer!Count(s, kind)
<1> DEFINE L == Len(s)
           T == {0} \cup {i \in DOMAIN s : s[i].k # "blank"}
           m == Answer!Max(T)
<1>1. L \in Nat /\ DOMAIN s = 1..L
  OBVIOUS
<1>2. T \in SUBSET (0..L) /\ T # {}
  BY <1>1
<1>3. m \in T /\ \A y \in T : y <= m
  <2> HIDE DEF T, L
  <2> QED
    BY <1>1, <1>2, MaxOf
<1>4. Answer!Stem(s) = SubSeq(s, 1, m)
  BY DEF Answer!Stem
<1> HIDE DEF m
<1>5. m \in Nat /\ m <= L /\ \A i \in (m + 1)..L : s[i].k = "blank"
  BY <1>1, <1>2, <1>3
<1>6. /\ SubSeq(s, 1, m) \in Seq(AnyLines)
      /\ \A kind : Answer!Count(SubSeq(s, 1, m), kind) = Cardinality(Within(s, 1, m, kind))
  <2>1. 1 \in Nat /\ 1 <= 1 /\ 1 <= m + 1
    BY <1>5
  <2> QED
    BY <1>5, <2>1, CountOfSubSeq
<1>7. ASSUME NEW kind, kind # "blank"
      PROVE  Answer!Count(SubSeq(s, 1, m), kind) = Answer!Count(s, kind)
  <2>1. Within(s, m + 1, L, kind) = {}
    BY <1>5, <1>7 DEF Within
  <2>2. 1 \in Int /\ m \in Int /\ L \in Int /\ 1 <= m + 1
    BY <1>1, <1>5
  <2>3. Cardinality(Within(s, 1, L, kind))
        = Cardinality(Within(s, 1, m, kind)) + Cardinality(Within(s, m + 1, L, kind))
    <3> HIDE DEF L
    <3> QED
      BY <1>5, <2>2, WithinSplits
  <2>4. Cardinality(Within(s, 1, m, kind)) \in Nat
    BY <2>2, WithinFinite
  <2>5. Answer!Count(s, kind) = Cardinality(Within(s, 1, L, kind))
    BY CountIs
  <2>6. Cardinality(Within(s, 1, L, kind)) = Cardinality(Within(s, 1, m, kind))
    <3>1. Cardinality(Within(s, m + 1, L, kind)) = 0
      BY <2>1, FS_EmptySet
    <3> HIDE DEF L
    <3> QED
      BY <2>3, <2>4, <3>1
  <2> QED
    BY <1>6, <2>5, <2>6
<1> QED
  BY <1>4, <1>6, <1>7

\* Nor does mirroring numbers change how many there are.
LEMMA Mirrored ==
  ASSUME NEW A \in SUBSET Int, IsFiniteSet(A), NEW d \in Int
  PROVE  Cardinality({d - x : x \in A}) = Cardinality(A)
<1> DEFINE B == {d - x : x \in A}
           f == [x \in A |-> d - x]
<1>1. f \in Bijection(A, B)
  <2>1. f \in [A -> B]
    OBVIOUS
  <2>2. \A x, y \in A : f[x] = f[y] => x = y
    OBVIOUS
  <2>3. \A z \in B : \E x \in A : f[x] = z
    OBVIOUS
  <2> HIDE DEF f, B
  <2> QED
    BY <2>1, <2>2, <2>3 DEF Bijection, Injection, Surjection, IsInjective
<1>2. ExistsBijection(A, B)
  BY <1>1 DEF ExistsBijection
<1> QED
  BY <1>2, FS_Bijection

\* A text backwards has the same lines.
LEMMA ReverseKeeps ==
  ASSUME NEW s \in Seq(AnyLines)
  PROVE  /\ Answer!Reverse(s) \in Seq(AnyLines)
         /\ \A kind : Answer!Count(Answer!Reverse(s), kind) = Answer!Count(s, kind)
<1> DEFINE L == Len(s)
           r == Answer!Reverse(s)
<1>1. L \in Nat /\ \A i \in 1..L : s[i] \in AnyLines /\ (L - i) + 1 \in 1..L
  OBVIOUS
<1>2. r = [i \in 1..L |-> s[(L - i) + 1]]
  BY DEF Answer!Reverse
<1>3. r \in Seq(AnyLines) /\ Len(r) = L /\ \A i \in 1..L : r[i] = s[(L - i) + 1]
  BY <1>1, <1>2
<1> HIDE DEF r
<1>4. ASSUME NEW kind PROVE Answer!Count(r, kind) = Answer!Count(s, kind)
  <2>1. ASSUME NEW i \in Within(r, 1, L, kind)
        PROVE  \E x \in Within(s, 1, L, kind) : i = (L + 1) - x
    <3>1. (L - i) + 1 \in 1..L /\ i = (L + 1) - ((L - i) + 1) /\ i \in 1..L /\ r[i].k = kind
      BY <1>1 DEF Within
    <3>2. s[(L - i) + 1].k = kind
      BY <1>3, <3>1
    <3>3. (L - i) + 1 \in Within(s, 1, L, kind)
      BY <3>1, <3>2 DEF Within
    <3> QED
      BY <3>1, <3>3
  <2>2. ASSUME NEW x \in Within(s, 1, L, kind)
        PROVE  (L + 1) - x \in Within(r, 1, L, kind)
    <3> DEFINE i == (L + 1) - x
    <3>1. i \in 1..L /\ (L - i) + 1 = x /\ s[x].k = kind
      BY <1>1 DEF Within
    <3>2. r[i].k = kind
      BY <1>3, <3>1
    <3> QED
      BY <3>1, <3>2 DEF Within
  <2>3. Within(r, 1, L, kind) = {(L + 1) - x : x \in Within(s, 1, L, kind)}
    BY <2>1, <2>2
  <2>4. L \in Int /\ 1 \in Int /\ L + 1 \in Int
    BY <1>1
  <2>5. IsFiniteSet(Within(s, 1, L, kind)) /\ Within(s, 1, L, kind) \in SUBSET Int
    BY <2>4, WithinFinite
  <2>6. Cardinality(Within(r, 1, L, kind)) = Cardinality(Within(s, 1, L, kind))
    <3> HIDE DEF L
    <3> QED
      BY <2>3, <2>4, <2>5, Mirrored
  <2> QED
    BY <1>3, <2>6, CountIs
<1> QED
  BY <1>3, <1>4 DEF r

\* Only blank lines are cut off at both ends; the first line loses its
\* indentation, and an unfinished item at the end becomes text.
LEMMA TrimmedKeeps ==
  ASSUME NEW s \in Seq(AnyLines)
  PROVE  /\ Answer!Trimmed(s) \in Seq(AnyLines)
         /\ Answer!Count(Answer!Trimmed(s), "json") = Answer!Count(s, "json")
         /\ \A kind \in {"text", "head"} : Answer!Count(s, kind) <= Answer!Count(Answer!Trimmed(s), kind)
<1> DEFINE stem == Answer!Stem(Answer!Reverse(Answer!Stem(Answer!Reverse(s))))
           bare(line) == [line EXCEPT !.k = IF line.k \in Answer!Unfinished THEN "text" ELSE line.k]
           t == Answer!Trimmed(s)
           L == Len(stem)
<1>1. /\ stem \in Seq(AnyLines)
      /\ \A kind : kind # "blank" => Answer!Count(stem, kind) = Answer!Count(s, kind)
  <2> DEFINE s1 == Answer!Reverse(s)
             s2 == Answer!Stem(s1)
             s3 == Answer!Reverse(s2)
  <2>1. s1 \in Seq(AnyLines) /\ \A kind : Answer!Count(s1, kind) = Answer!Count(s, kind)
    BY ReverseKeeps
  <2> HIDE DEF s1
  <2>2. s2 \in Seq(AnyLines) /\ \A kind : kind # "blank" => Answer!Count(s2, kind) = Answer!Count(s1, kind)
    BY <2>1, StemKeeps
  <2> HIDE DEF s2
  <2>3. s3 \in Seq(AnyLines) /\ \A kind : Answer!Count(s3, kind) = Answer!Count(s2, kind)
    BY <2>2, ReverseKeeps
  <2> HIDE DEF s3
  <2>4. /\ Answer!Stem(s3) \in Seq(AnyLines)
        /\ \A kind : kind # "blank" => Answer!Count(Answer!Stem(s3), kind) = Answer!Count(s3, kind)
    BY <2>3, StemKeeps
  <2> QED
    BY <2>1, <2>2, <2>3, <2>4 DEF s1, s2, s3
<1>2. t = [i \in DOMAIN stem |->
             [(IF i = Len(stem) THEN bare(stem[i]) ELSE stem[i]) EXCEPT !.indent = @ /\ i > 1]]
  BY DEF Answer!Trimmed
<1> HIDE DEF stem, t
<1>3. L \in Nat /\ DOMAIN stem = 1..L /\ \A i \in 1..L : stem[i] \in AnyLines
  BY <1>1
<1>4. ASSUME NEW i \in 1..L
      PROVE  /\ t[i] \in AnyLines
             /\ t[i].k = stem[i].k \/ (stem[i].k \in Answer!Unfinished /\ t[i].k = "text")
  <2> DEFINE line == IF i = Len(stem) THEN bare(stem[i]) ELSE stem[i]
  <2>1. stem[i] \in AnyLines
    BY <1>3
  <2>2. /\ line \in AnyLines
        /\ line.k = stem[i].k \/ (stem[i].k \in Answer!Unfinished /\ line.k = "text")
    <3>1. ASSUME NEW x \in AnyLines
          PROVE  /\ bare(x) \in AnyLines
                 /\ bare(x).k = x.k \/ (x.k \in Answer!Unfinished /\ bare(x).k = "text")
      BY DEF AnyLines, Answer!Kinds
    <3> HIDE DEF bare
    <3> QED
      BY <2>1, <3>1
  <2>3. t[i] = [line EXCEPT !.indent = line.indent /\ i > 1]
    BY <1>2, <1>3
  <2> HIDE DEF line
  <2>4. (line.indent /\ i > 1) \in BOOLEAN
    OBVIOUS
  <2>5. ASSUME NEW x \in BOOLEAN
        PROVE  [line EXCEPT !.indent = x] \in AnyLines /\ [line EXCEPT !.indent = x].k = line.k
    BY <2>2 DEF AnyLines
  <2>6. t[i] \in AnyLines /\ t[i].k = line.k
    BY <2>3, <2>4, <2>5
  <2> QED
    BY <2>2, <2>6
<1>5. t \in Seq(AnyLines) /\ Len(t) = L
  <2>1. t = [i \in 1..L |-> t[i]]
    BY <1>2, <1>3
  <2> QED
    BY <1>3, <1>4, <2>1
<1>6. Within(t, 1, L, "json") = Within(stem, 1, L, "json")
  BY <1>4 DEF Within, Answer!Unfinished
<1>7. \A kind \in {"text", "head"} : Within(stem, 1, L, kind) \in SUBSET Within(t, 1, L, kind)
  BY <1>4 DEF Within, Answer!Unfinished
<1>8. ASSUME NEW kind \in {"text", "head"}
      PROVE  Answer!Count(stem, kind) <= Answer!Count(t, kind)
  <2>1. L \in Int /\ 1 \in Int
    BY <1>3
  <2>2. IsFiniteSet(Within(t, 1, L, kind))
    BY <2>1, WithinFinite
  <2>3. Cardinality(Within(stem, 1, L, kind)) <= Cardinality(Within(t, 1, L, kind))
    BY <1>7, <2>2, FS_Subset
  <2> QED
    BY <1>1, <1>5, <2>3, CountIs
<1>9. Answer!Count(t, "json") = Answer!Count(stem, "json")
  BY <1>1, <1>5, <1>6, CountIs
<1> QED
  BY <1>1, <1>5, <1>8, <1>9 DEF t

\* What is as the schema says renders: no component throws on a list that is
\* absent, empty or full (Artifact.tsx).
LEMMA ConformingRenders ==
  ASSUME NEW a, Answer!Conforms(a)
  PROVE  ~Answer!Throws(a)
<1>1. /\ a.type # "null" /\ a.object = "none"
      /\ a.columns \in {"absent", "empty", "full"}
      /\ a.rows \in {"absent", "empty", "full"}
      /\ a.list \in {"absent", "empty", "full"}
  BY DEF Answer!Conforms
<1>2. ~Answer!TableThrows(a.columns, a.rows)
  BY <1>1 DEF Answer!TableThrows, Answer!Filled
<1>3. ~Answer!MapThrows(a.list) /\ ~Answer!MapIfAnyThrows(a.list) /\ ~Answer!PieThrows(a.list)
  BY <1>1 DEF Answer!MapThrows, Answer!MapIfAnyThrows, Answer!PieThrows
<1>4. ~Answer!SectionThrows(a)
  BY <1>1, <1>2, <1>3 DEF Answer!SectionThrows
<1> QED
  BY <1>1, <1>2, <1>3, <1>4 DEF Answer!Throws

\* No line of JSON, text or a heading of an answer is lost when it is over.
LEMMA EverythingShown ==
  ASSUME Answer!TypeOK
  PROVE  Answer!ArtifactsAreShown
<1>1. content \in Seq(AnyLines)
  BY PageAssumption, SeqMonotonic DEF PageAssumption, Answer!TypeOK, AnyLines
<1> SUFFICES ASSUME ~isStreaming
    PROVE  /\ Answer!Count(content, "json") = Answer!Artifacts + Answer!Count(Answer!Shown, "json")
           /\ \A kind \in {"text", "head"} :
                Answer!Count(content, kind) <= Answer!Count(Answer!Shown, kind)
  BY ConformingRenders DEF Answer!ArtifactsAreShown, Answer!Crashed
<1> DEFINE r == Answer!Extract(content)
<1>2. Answer!Artifacts = r.artifacts
  BY DEF Answer!Artifacts
<1>3. Answer!Shown = IF r.text = content THEN content ELSE Answer!Trimmed(r.text)
  BY DEF Answer!Shown, Answer!RemainingContent
<1>4. Fits(content, 1, r)
  BY <1>1, ExtractKeeps
<1> HIDE DEF r
<1>5. /\ r.text \in Seq(AnyLines)
      /\ Answer!Count(content, "json") = r.artifacts + Answer!Count(r.text, "json")
      /\ \A kind \in {"text", "head"} : Answer!Count(content, kind) <= Answer!Count(r.text, kind)
  BY <1>1, <1>4, CountIs DEF Fits, Extracts
<1>6. CASE r.text = content
  BY <1>2, <1>3, <1>5, <1>6
<1>7. CASE r.text # content
  <2>1. /\ Answer!Count(Answer!Shown, "json") = Answer!Count(r.text, "json")
        /\ \A kind \in {"text", "head"} :
             Answer!Count(r.text, kind) <= Answer!Count(Answer!Shown, kind)
    BY <1>3, <1>5, <1>7, TrimmedKeeps
  <2>2. ASSUME NEW kind \in {"text", "head"}
        PROVE  Answer!Count(content, kind) <= Answer!Count(Answer!Shown, kind)
    <3>1. Answer!Count(content, kind) \in Nat /\ Answer!Count(r.text, kind) \in Nat
      BY <1>1, <1>5, CountIs
    <3>2. Answer!Count(Answer!Shown, kind) \in Nat
      <4>1. Answer!Shown \in Seq(AnyLines)
        BY <1>3, <1>5, <1>7, TrimmedKeeps
      <4> QED
        BY <4>1, CountIs
    <3> QED
      BY <1>5, <2>1, <3>1, <3>2
  <2> QED
    BY <1>2, <1>5, <2>1, <2>2
<1> QED
  BY <1>6, <1>7

-----------------------------------------------------------------------------
(* What a pass of normalizeContent computes.                                 *)

Passes == [out : Seq(AnyLines), spent : BOOLEAN]
Marks == {Answer!Numbers, Answer!Bullets \cup {"dash"}}
Begun == [out |-> <<>>, spent |-> FALSE]

Anchors(acc, line, marks) == line.k \in marks /\ Answer!Stem(acc.out) # <<>> /\ ~acc.spent
Parts(line, marks) == line.k = "mid" /\ "bullet" \in marks

Anchored(stem, line) ==
  Append(Append(Answer!Front(stem), Answer!Shorn(Answer!Last(stem))), Answer!LineOf(line.k))
Parted(line) == <<[line EXCEPT !.k = "text"], Answer!LineOf("bullet")>>

\* Anchor, case by case.
LEMMA AnchorIs ==
  ASSUME NEW acc, NEW line, NEW marks \in Marks
  PROVE  /\ Anchors(acc, line, marks) =>
              Answer!Anchor(acc, line, marks)
              = [out |-> Anchored(Answer!Stem(acc.out), line),
                 spent |-> line.k \in Answer!Unfinished \cup {"dash"}]
         /\ Parts(line, marks) =>
              Answer!Anchor(acc, line, marks)
              = [out |-> acc.out \o Parted(line), spent |-> FALSE]
         /\ ~Anchors(acc, line, marks) /\ ~Parts(line, marks) =>
              Answer!Anchor(acc, line, marks)
              = [out |-> Append(acc.out, line), spent |-> acc.spent /\ line.k = "blank"]
<1>1. ~(line.k \in marks /\ line.k = "mid")
  BY DEF Marks, Answer!Numbers, Answer!Bullets
<1> QED
  BY <1>1 DEF Answer!Anchor, Anchors, Parts, Anchored, Parted

\* A mark without its space is no blank line.
LEMMA ShornInRange ==
  ASSUME NEW line \in AnyLines
  PROVE  /\ Answer!Shorn(line) \in AnyLines
         /\ Answer!Shorn(line) = line \/ line.k \in Answer!Unfinished
         /\ line.k # "blank" => Answer!Shorn(line).k # "blank"
<1>1. CASE line.k = "num0"
  <2>1. Answer!Shorn(line) = [line EXCEPT !.k = "text"]
    BY <1>1 DEF Answer!Shorn
  <2> QED
    BY <1>1, <2>1 DEF AnyLines, Answer!Kinds, Answer!Unfinished
<1>2. CASE line.k = "bullet0"
  <2>1. Answer!Shorn(line) = [line EXCEPT !.k = "dash"]
    BY <1>2 DEF Answer!Shorn
  <2> QED
    BY <1>2, <2>1 DEF AnyLines, Answer!Kinds, Answer!Unfinished
<1>3. CASE line.k # "num0" /\ line.k # "bullet0"
  <2>1. Answer!Shorn(line) = line
    BY <1>3 DEF Answer!Shorn
  <2> QED
    BY <2>1
<1> QED
  BY <1>1, <1>2, <1>3

\* All but the last line, and the last one.
LEMMA FrontIs ==
  ASSUME NEW s \in Seq(AnyLines), s # <<>>
  PROVE  /\ Answer!Front(s) \in Seq(AnyLines) /\ Len(Answer!Front(s)) = Len(s) - 1
         /\ \A i \in 1..(Len(s) - 1) : Answer!Front(s)[i] = s[i]
         /\ Answer!Last(s) \in AnyLines /\ Answer!Last(s) = s[Len(s)] /\ Len(s) \in Nat /\ Len(s) > 0
<1>1. Len(s) \in Nat /\ Len(s) > 0 /\ \A i \in 1..Len(s) : s[i] \in AnyLines
  BY EmptySeq
<1>2. /\ 1 \in Int /\ Len(s) - 1 \in Int /\ 1 <= Len(s)
      /\ \A i \in 1..(Len(s) - 1) : s[i] \in AnyLines
  BY <1>1
<1>3. /\ SubSeq(s, 1, Len(s) - 1) \in Seq(AnyLines)
      /\ Len(SubSeq(s, 1, Len(s) - 1))
         = IF 1 <= Len(s) - 1 THEN (Len(s) - 1) - 1 + 1 ELSE 0
      /\ \A i \in 1..((Len(s) - 1) - 1 + 1) : SubSeq(s, 1, Len(s) - 1)[i] = s[1 + i - 1]
  BY <1>2, SubSeqProperties
<1>4. \A i \in 1..(Len(s) - 1) : i \in 1..((Len(s) - 1) - 1 + 1) /\ 1 + i - 1 = i
  BY <1>1
<1>5. Len(SubSeq(s, 1, Len(s) - 1)) = Len(s) - 1
  <2> DEFINE front == SubSeq(s, 1, Len(s) - 1)
  <2>1. Len(front) = IF 1 <= Len(s) - 1 THEN (Len(s) - 1) - 1 + 1 ELSE 0
    BY <1>3
  <2> HIDE DEF front
  <2>2. \A n \in Nat : \A x : n > 0 /\ x = (IF 1 <= n - 1 THEN (n - 1) - 1 + 1 ELSE 0) => x = n - 1
    OBVIOUS
  <2>3. Len(s) \in Nat /\ Len(s) > 0
    BY <1>1
  <2>4. Len(front) = Len(s) - 1
    BY <2>1, <2>2, <2>3
  <2> QED
    BY <2>4 DEF front
<1>6. \A i \in 1..(Len(s) - 1) : SubSeq(s, 1, Len(s) - 1)[i] = s[i]
  BY <1>3, <1>4
<1>7. Len(s) \in 1..Len(s)
  BY <1>1
<1> QED
  BY <1>1, <1>3, <1>5, <1>6, <1>7 DEF Answer!Front, Answer!Last

\* The lines after a mark has been moved to the margin.
LEMMA AnchoredIs ==
  ASSUME NEW s \in Seq(AnyLines), s # <<>>, NEW line \in AnyLines
  PROVE  /\ Anchored(s, line) \in Seq(AnyLines) /\ Len(Anchored(s, line)) = Len(s) + 1
         /\ \A i \in 1..(Len(s) - 1) : Anchored(s, line)[i] = s[i]
         /\ Anchored(s, line)[Len(s)] = Answer!Shorn(s[Len(s)])
         /\ Anchored(s, line)[Len(s) + 1] = Answer!LineOf(line.k)
<1> DEFINE front == Answer!Front(s)
           both == Append(front, Answer!Shorn(Answer!Last(s)))
           all == Append(both, Answer!LineOf(line.k))
<1>1. /\ front \in Seq(AnyLines) /\ Len(front) = Len(s) - 1
      /\ \A i \in 1..(Len(s) - 1) : front[i] = s[i]
      /\ Answer!Last(s) \in AnyLines /\ Answer!Last(s) = s[Len(s)] /\ Len(s) \in Nat /\ Len(s) > 0
  BY FrontIs
<1>2. Answer!Shorn(Answer!Last(s)) \in AnyLines /\ Answer!LineOf(line.k) \in AnyLines
  BY <1>1, ShornInRange DEF Answer!LineOf, AnyLines
<1> HIDE DEF front
<1>3. /\ both \in Seq(AnyLines) /\ Len(both) = Len(front) + 1
      /\ \A i \in 1..Len(front) : both[i] = front[i]
      /\ both[Len(front) + 1] = Answer!Shorn(Answer!Last(s))
  BY <1>1, <1>2, AppendProperties
<1> HIDE DEF both
<1>4. /\ all \in Seq(AnyLines) /\ Len(all) = Len(both) + 1
      /\ \A i \in 1..Len(both) : all[i] = both[i]
      /\ all[Len(both) + 1] = Answer!LineOf(line.k)
  BY <1>2, <1>3, AppendProperties
<1>5. Anchored(s, line) = all
  BY DEF Anchored, both, front
<1> HIDE DEF all
<1>6. Len(front) + 1 = Len(s) /\ Len(both) = Len(s)
  BY <1>1, <1>3
<1>7. ASSUME NEW i \in 1..(Len(s) - 1) PROVE all[i] = s[i]
  <2>1. i \in 1..Len(both) /\ i \in 1..Len(front)
    BY <1>1, <1>6
  <2> QED
    BY <1>1, <1>3, <1>4, <2>1
<1>8. all[Len(s)] = Answer!Shorn(s[Len(s)])
  <2>1. Len(s) \in 1..Len(both)
    BY <1>1, <1>6
  <2> QED
    BY <1>1, <1>3, <1>4, <1>6, <2>1
<1> QED
  BY <1>4, <1>5, <1>6, <1>7, <1>8

\* A line with a mark inside becomes two.
LEMMA PartedIs ==
  ASSUME NEW line \in AnyLines
  PROVE  /\ Parted(line) \in Seq(AnyLines) /\ Len(Parted(line)) = 2
         /\ Parted(line)[1] = [line EXCEPT !.k = "text"]
         /\ Parted(line)[2] = Answer!LineOf("bullet")
<1>1. [line EXCEPT !.k = "text"] \in AnyLines /\ Answer!LineOf("bullet") \in AnyLines
  BY DEF Answer!LineOf, AnyLines, Answer!Kinds
<1> QED
  BY <1>1 DEF Parted

\* A pass over lines gives lines.
LEMMA AnchorInRange ==
  ASSUME NEW acc \in Passes, NEW line \in AnyLines, NEW marks \in Marks
  PROVE  Answer!Anchor(acc, line, marks) \in Passes
<1>1. acc.out \in Seq(AnyLines) /\ acc.spent \in BOOLEAN
  BY DEF Passes
<1>5. \A x \in Seq(AnyLines), b \in BOOLEAN : [out |-> x, spent |-> b] \in Passes
  BY DEF Passes
<1>2. CASE Anchors(acc, line, marks)
  <2>1. Answer!Stem(acc.out) \in Seq(AnyLines) /\ Answer!Stem(acc.out) # <<>>
    BY <1>1, <1>2, StemKeeps DEF Anchors
  <2>2. Anchored(Answer!Stem(acc.out), line) \in Seq(AnyLines)
    BY <2>1, AnchoredIs
  <2>3. (line.k \in Answer!Unfinished \cup {"dash"}) \in BOOLEAN
    OBVIOUS
  <2>4. Answer!Anchor(acc, line, marks)
        = [out |-> Anchored(Answer!Stem(acc.out), line),
           spent |-> line.k \in Answer!Unfinished \cup {"dash"}]
    BY <1>2, AnchorIs
  <2> QED
    BY <1>5, <2>2, <2>3, <2>4, Zenon
<1>3. CASE Parts(line, marks)
  <2>1. acc.out \o Parted(line) \in Seq(AnyLines)
    BY <1>1, PartedIs, ConcatProperties
  <2> QED
    <3>1. Answer!Anchor(acc, line, marks) = [out |-> acc.out \o Parted(line), spent |-> FALSE]
      BY <1>3, AnchorIs
    <3>2. FALSE \in BOOLEAN
      OBVIOUS
    <3> QED
      BY <1>5, <2>1, <3>1, <3>2, Zenon
<1>4. CASE ~Anchors(acc, line, marks) /\ ~Parts(line, marks)
  <2>1. Append(acc.out, line) \in Seq(AnyLines) /\ (acc.spent /\ line.k = "blank") \in BOOLEAN
    BY <1>1, AppendProperties
  <2> QED
    <3>1. Answer!Anchor(acc, line, marks)
          = [out |-> Append(acc.out, line), spent |-> acc.spent /\ line.k = "blank"]
      BY <1>4, AnchorIs
    <3> QED
      BY <1>5, <2>1, <3>1, Zenon
<1> QED
  BY <1>2, <1>3, <1>4

\* A function that recurs to the index before: there is one.
Mounts(f, n, base, step) == f[0] = base /\ \A i \in 1..n : f[i] = step[i][f[i - 1]]

\* There is such a function.
LEMMA Mounting ==
  ASSUME NEW n \in Nat, NEW V, NEW base \in V, NEW step \in [1..n -> [V -> V]]
  PROVE  \E f \in [0..n -> V] : Mounts(f, n, base, step)
<1> DEFINE done == {k \in Nat : \E f \in [0..n -> V] :
                      f[0] = base /\ \A i \in 1..n : i <= k => f[i] = step[i][f[i - 1]]}
<1>1. 0 \in done
  <2>1. [i \in 0..n |-> base] \in [0..n -> V] /\ [i \in 0..n |-> base][0] = base
    OBVIOUS
  <2>2. \A i \in 1..n : ~(i <= 0)
    OBVIOUS
  <2> QED
    BY <2>1, <2>2
<1>2. ASSUME NEW k \in Nat, k \in done PROVE k + 1 \in done
  <2>1. PICK f \in [0..n -> V] :
          f[0] = base /\ \A i \in 1..n : i <= k => f[i] = step[i][f[i - 1]]
    BY <1>2
  <2>2. CASE k >= n
    <3>1. \A i \in 1..n : i <= k
      BY <2>2
    <3>2. \A i \in 1..n : f[i] = step[i][f[i - 1]]
      BY <2>1, <3>1, Zenon
    <3>3. k + 1 \in Nat
      OBVIOUS
    <3> QED
      BY <2>1, <3>2, <3>3
  <2>3. CASE k < n
    <3> DEFINE m == k + 1
               v == step[m][f[k]]
               g == [f EXCEPT ![m] = v]
    <3>1. m \in 1..n /\ k \in 0..n /\ m \in 0..n
      BY <2>3
    <3>2. f[k] \in V /\ step[m] \in [V -> V]
      BY <3>1
    <3>3. v \in V
      BY <3>2, Zenon
    <3> HIDE DEF v
    <3>4. g \in [0..n -> V] /\ g[m] = v /\ \A j \in 0..n : j # m => g[j] = f[j]
      BY <3>1, <3>3
    <3>5. ASSUME NEW i \in 1..n, i <= m PROVE g[i] = step[i][g[i - 1]]
      <4>1. i - 1 \in 0..n /\ i \in 0..n /\ i - 1 # m
        BY <3>5
      <4>2. g[i - 1] = f[i - 1]
        BY <3>4, <4>1
      <4>3. CASE i = m
        <5>1. i - 1 = k
          BY <4>3
        <5> QED
          BY <3>4, <4>2, <4>3, <5>1 DEF v
      <4>4. CASE i # m
        <5>1. i <= k
          BY <3>5, <4>4
        <5>2. f[i] = step[i][f[i - 1]]
          BY <2>1, <5>1
        <5> QED
          BY <3>4, <4>1, <4>2, <4>4, <5>2
      <4> QED
        BY <4>3, <4>4
    <3>6. g[0] = base
      <4>1. 0 \in 0..n /\ 0 # m
        OBVIOUS
      <4> QED
        BY <2>1, <3>4, <4>1
    <3> QED
      <4> HIDE DEF g
      <4>1. m \in Nat
        OBVIOUS
      <4> QED
        BY <3>4, <3>5, <3>6, <4>1
  <2>4. k >= n \/ k < n
    OBVIOUS
  <2> QED
    BY <2>2, <2>3, <2>4
<1>3. n \in done
  <2> HIDE DEF done
  <2> QED
    BY <1>1, <1>2, Upwards
<1>4. PICK f \in [0..n -> V] : f[0] = base /\ \A i \in 1..n : i <= n => f[i] = step[i][f[i - 1]]
  BY <1>3
<1>5. \A i \in 1..n : i <= n
  OBVIOUS
<1> QED
  BY <1>4, <1>5 DEF Mounts

\* f is what a pass has made of the first lines, for each number of them.
Run(f, lines, marks) ==
  /\ f \in [0..Len(lines) -> Passes] /\ f[0] = Begun
  /\ \A i \in 1..Len(lines) : f[i] = Answer!Anchor(f[i - 1], lines[i], marks)

\* Pass is the last value of a run.
LEMMA PassRuns ==
  ASSUME NEW lines \in Seq(AnyLines), NEW marks \in Marks
  PROVE  \E f : Run(f, lines, marks) /\ Answer!Pass(lines, marks) = f[Len(lines)].out
<1> DEFINE n == Len(lines)
           step == [i \in 1..n |-> [r \in Passes |-> Answer!Anchor(r, lines[i], marks)]]
           Is(f) == f = [i \in 0..n |-> IF i = 0 THEN Begun
                                        ELSE Answer!Anchor(f[i - 1], lines[i], marks)]
           g == CHOOSE f : Is(f)
<1>1. Answer!Pass(lines, marks) = g[n].out
  BY DEF Answer!Pass, Begun
<1>2. n \in Nat /\ \A i \in 1..n : lines[i] \in AnyLines
  OBVIOUS
<1>3. Begun \in Passes
  <2>1. <<>> \in Seq(AnyLines)
    OBVIOUS
  <2> QED
    BY <2>1 DEF Begun, Passes
<1>4. step \in [1..n -> [Passes -> Passes]]
  <2>1. ASSUME NEW i \in 1..n, NEW r \in Passes PROVE Answer!Anchor(r, lines[i], marks) \in Passes
    BY <1>2, AnchorInRange
  <2> QED
    BY <2>1
<1>5. PICK f \in [0..n -> Passes] : Mounts(f, n, Begun, step)
  <2> HIDE DEF n, step
  <2> QED
    BY <1>2, <1>3, <1>4, Mounting
<1>6. Is(f)
  <2>1. f[0] = Begun /\ \A i \in 1..n : f[i] = step[i][f[i - 1]]
    BY <1>5 DEF Mounts
  <2>2. \A i \in 1..n : i - 1 \in 0..n /\ f[i - 1] \in Passes
    BY <1>5
  <2>3. \A i \in 1..n : f[i] = Answer!Anchor(f[i - 1], lines[i], marks)
    BY <2>1, <2>2
  <2>4. \A i \in 0..n : i = 0 \/ i \in 1..n
    OBVIOUS
  <2> QED
    BY <1>5, <2>1, <2>3, <2>4
<1>7. Is(g)
  <2> HIDE DEF Is
  <2> QED
    BY <1>6
<1> HIDE DEF g
<1>8. g[0] = Begun /\ \A i \in 1..n : g[i] = Answer!Anchor(g[i - 1], lines[i], marks)
  <2>1. 0 \in 0..n /\ \A i \in 1..n : i \in 0..n /\ i # 0
    BY <1>2
  <2> QED
    BY <1>7, <2>1
<1>9. \A k \in Nat : k <= n => g[k] \in Passes
  <2> DEFINE T == {k \in Nat : k <= n => g[k] \in Passes}
  <2>1. 0 \in T
    BY <1>3, <1>8
  <2>2. ASSUME NEW k \in Nat, k \in T PROVE k + 1 \in T
    <3> SUFFICES ASSUME k + 1 <= n PROVE g[k + 1] \in Passes
      OBVIOUS
    <3>1. g[k] \in Passes /\ k + 1 \in 1..n /\ (k + 1) - 1 = k
      BY <1>2, <2>2
    <3>2. g[k + 1] = Answer!Anchor(g[k], lines[k + 1], marks)
      BY <1>8, <3>1
    <3> QED
      BY <1>2, <3>1, <3>2, AnchorInRange
  <2>3. Nat \subseteq T
    <3> HIDE DEF T
    <3> QED
      BY <2>1, <2>2, Upwards
  <2> QED
    BY <2>3
<1>10. g \in [0..n -> Passes]
  <2>1. g = [i \in 0..n |-> g[i]]
    BY <1>7
  <2> QED
    BY <1>2, <1>9, <2>1
<1> QED
  BY <1>1, <1>8, <1>10 DEF Run

\* What a pass has made of the lines it has seen does not depend on the rest.
LEMMA RunsAgree ==
  ASSUME NEW lines, NEW more, NEW f, NEW g, NEW marks,
         Run(f, lines, marks), Run(g, more, marks),
         NEW k \in Nat, Len(lines) \in Nat, Len(more) \in Nat, k <= Len(lines), k <= Len(more),
         \A i \in 1..k : lines[i] = more[i]
  PROVE  f[k] = g[k]
<1> DEFINE T == {j \in Nat : j <= k => f[j] = g[j]}
<1>1. 0 \in T
  BY DEF Run
<1>2. ASSUME NEW j \in Nat, j \in T PROVE j + 1 \in T
  <2> SUFFICES ASSUME j + 1 <= k PROVE f[j + 1] = g[j + 1]
    OBVIOUS
  <2>1. /\ j + 1 \in 1..k /\ j + 1 \in 1..Len(lines) /\ j + 1 \in 1..Len(more)
        /\ (j + 1) - 1 = j /\ f[j] = g[j]
    BY <1>2
  <2>2. /\ f[j + 1] = Answer!Anchor(f[j], lines[j + 1], marks)
        /\ g[j + 1] = Answer!Anchor(g[j], more[j + 1], marks)
    BY <2>1 DEF Run
  <2> QED
    BY <2>1, <2>2
<1>3. Nat \subseteq T
  <2> HIDE DEF T
  <2> QED
    BY <1>1, <1>2, Upwards
<1> QED
  BY <1>3

-----------------------------------------------------------------------------
(* Lines that do not stop the renderer.                                      *)

\* The text up to its last line that is not blank.
LEMMA StemIs ==
  ASSUME NEW s \in Seq(AnyLines)
  PROVE  /\ Answer!Stem(s) \in Seq(AnyLines) /\ Len(Answer!Stem(s)) \in Nat
         /\ Len(Answer!Stem(s)) <= Len(s)
         /\ \A i \in 1..Len(Answer!Stem(s)) : Answer!Stem(s)[i] = s[i]
         /\ \A i \in (Len(Answer!Stem(s)) + 1)..Len(s) : s[i].k = "blank"
         /\ Len(Answer!Stem(s)) > 0 => s[Len(Answer!Stem(s))].k # "blank"
<1> DEFINE L == Len(s)
           T == {0} \cup {i \in DOMAIN s : s[i].k # "blank"}
           m == Answer!Max(T)
<1>1. L \in Nat /\ DOMAIN s = 1..L /\ \A i \in 1..L : s[i] \in AnyLines
  OBVIOUS
<1>2. T \in SUBSET (0..L) /\ T # {}
  BY <1>1
<1>3. m \in T /\ \A y \in T : y <= m
  <2> HIDE DEF T, L
  <2> QED
    BY <1>1, <1>2, MaxOf
<1>4. Answer!Stem(s) = SubSeq(s, 1, m)
  BY DEF Answer!Stem
<1> HIDE DEF m
<1>5. /\ m \in Nat /\ m <= L /\ \A i \in (m + 1)..L : s[i].k = "blank"
      /\ m > 0 => s[m].k # "blank"
  BY <1>1, <1>2, <1>3
<1>6. /\ SubSeq(s, 1, m) \in Seq(AnyLines)
      /\ Len(SubSeq(s, 1, m)) = IF 1 <= m THEN m - 1 + 1 ELSE 0
      /\ \A i \in 1..(m - 1 + 1) : SubSeq(s, 1, m)[i] = s[1 + i - 1]
  <2>1. 1 \in Int /\ m \in Int /\ \A i \in 1..m : s[i] \in AnyLines
    BY <1>1, <1>5
  <2> QED
    BY <2>1, SubSeqProperties
<1> DEFINE stem == SubSeq(s, 1, m)
<1>7. Len(stem) = m
  <2>1. \A k \in Nat : \A x : x = (IF 1 <= k THEN k - 1 + 1 ELSE 0) => x = k
    OBVIOUS
  <2> QED
    BY <1>5, <1>6, <2>1
<1>8. \A i \in 1..m : stem[i] = s[i]
  <2>1. \A i \in 1..m : i \in 1..(m - 1 + 1) /\ 1 + i - 1 = i
    BY <1>5
  <2> QED
    BY <1>6, <2>1
<1>9. stem \in Seq(AnyLines) /\ Answer!Stem(s) = stem
  BY <1>4, <1>6
<1> HIDE DEF stem, L, T
<1> QED
  BY <1>5, <1>7, <1>8, <1>9 DEF L

Calm(line) == line.k \notin Answer!Unfinished /\ ~(line.k = "num" /\ line.indent)
AllCalm(s) == \A i \in 1..Len(s) : Calm(s[i])

\* Moving a mark makes no line that stops the renderer.
LEMMA AnchorCalm ==
  ASSUME NEW acc \in Passes, NEW line \in AnyLines, NEW marks \in Marks,
         AllCalm(acc.out), Calm(line)
  PROVE  AllCalm(Answer!Anchor(acc, line, marks).out)
<1> DEFINE out == Answer!Anchor(acc, line, marks).out
           s == acc.out
<1>1. s \in Seq(AnyLines) /\ Len(s) \in Nat
  BY DEF Passes
<1>2. CASE Anchors(acc, line, marks)
  <2> DEFINE stem == Answer!Stem(s)
             m == Len(stem)
  <2>1. /\ stem \in Seq(AnyLines) /\ stem # <<>> /\ m \in Nat /\ m <= Len(s)
        /\ \A i \in 1..m : stem[i] = s[i]
    BY <1>1, <1>2, StemIs DEF Anchors
  <2> HIDE DEF stem
  <2>2. m > 0 /\ \A i \in 1..m : stem[i] \in AnyLines /\ Calm(stem[i])
    <3>1. m > 0
      BY <2>1, EmptySeq
    <3>2. \A i \in 1..m : i \in 1..Len(s)
      BY <1>1, <2>1
    <3> QED
      BY <2>1, <3>1, <3>2 DEF AllCalm
  <2>3. /\ Len(Anchored(stem, line)) = m + 1
        /\ \A i \in 1..(m - 1) : Anchored(stem, line)[i] = stem[i]
        /\ Anchored(stem, line)[m] = Answer!Shorn(stem[m])
        /\ Anchored(stem, line)[m + 1] = Answer!LineOf(line.k)
    BY <2>1, AnchoredIs
  <2>4. Answer!Shorn(stem[m]) = stem[m]
    <3>1. m \in 1..m
      BY <2>1, <2>2
    <3> QED
      BY <2>2, <3>1, ShornInRange DEF Calm
  <2>5. Calm(Answer!LineOf(line.k))
    BY DEF Calm, Answer!LineOf
  <2>6. out = Anchored(stem, line)
    BY <1>2, AnchorIs DEF stem
  <2> HIDE DEF out, m
  <2>7. ASSUME NEW i \in 1..(m + 1) PROVE Calm(Anchored(stem, line)[i])
    <3>1. CASE i = m + 1
      BY <2>3, <2>5, <3>1
    <3>2. CASE i = m
      <4>1. i \in 1..m
        BY <2>1, <2>2, <3>2 DEF m
      <4> QED
        BY <2>2, <2>3, <2>4, <3>2, <4>1
    <3>3. CASE i # m /\ i # m + 1
      <4>1. i \in 1..(m - 1) /\ i \in 1..m
        BY <2>1, <2>2, <3>3 DEF m
      <4> QED
        BY <2>2, <2>3, <4>1
    <3> QED
      BY <3>1, <3>2, <3>3
  <2> QED
    BY <2>3, <2>6, <2>7 DEF AllCalm, out
<1>3. CASE Parts(line, marks)
  <2>1. out = s \o Parted(line)
    BY <1>3, AnchorIs
  <2>2. /\ Parted(line) \in Seq(AnyLines) /\ Len(Parted(line)) = 2
        /\ Calm(Parted(line)[1]) /\ Calm(Parted(line)[2])
    <3>1. [line EXCEPT !.k = "text"].k = "text" /\ Answer!LineOf("bullet").k = "bullet"
      BY DEF AnyLines, Answer!LineOf
    <3>2. "text" \notin Answer!Unfinished /\ "bullet" \notin Answer!Unfinished
      BY DEF Answer!Unfinished
    <3> QED
      BY <3>1, <3>2, PartedIs DEF Calm
  <2> DEFINE p == Parted(line)
  <2> HIDE DEF out, s, p
  <2>3. /\ Len(s \o p) = Len(s) + 2
        /\ \A i \in 1..(Len(s) + 2) :
             (s \o p)[i] = IF i <= Len(s) THEN s[i] ELSE p[i - Len(s)]
    <3>1. p \in Seq(AnyLines) /\ Len(p) = 2 /\ s \in Seq(AnyLines)
      BY <1>1, <2>2 DEF p
    <3>2. /\ Len(s \o p) = Len(s) + Len(p)
          /\ \A i \in 1..(Len(s) + Len(p)) :
               (s \o p)[i] = IF i <= Len(s) THEN s[i] ELSE p[i - Len(s)]
      BY <3>1, ConcatProperties, Zenon
    <3>3. Len(s) + Len(p) = Len(s) + 2
      BY <3>1
    <3> QED
      BY <3>2, <3>3, Zenon
  <2>4. ASSUME NEW i \in 1..(Len(s) + 2) PROVE Calm((s \o p)[i])
    <3>1. CASE i <= Len(s)
      <4>1. i \in 1..Len(s)
        BY <1>1, <3>1
      <4> QED
        BY <2>3, <3>1, <4>1 DEF AllCalm, s
    <3>2. CASE ~(i <= Len(s))
      <4>1. i - Len(s) = 1 \/ i - Len(s) = 2
        BY <1>1, <3>2
      <4> QED
        BY <2>2, <2>3, <3>2, <4>1 DEF p
    <3> QED
      BY <3>1, <3>2
  <2> QED
    BY <2>1, <2>3, <2>4 DEF AllCalm, out, p
<1>4. CASE ~Anchors(acc, line, marks) /\ ~Parts(line, marks)
  <2>1. out = Append(s, line)
    BY <1>4, AnchorIs
  <2>2. /\ Len(Append(s, line)) = Len(s) + 1
        /\ \A i \in 1..Len(s) : Append(s, line)[i] = s[i]
        /\ Append(s, line)[Len(s) + 1] = line
    BY <1>1, AppendProperties
  <2> HIDE DEF out, s
  <2>3. ASSUME NEW i \in 1..(Len(s) + 1) PROVE Calm(Append(s, line)[i])
    <3>1. CASE i = Len(s) + 1
      BY <2>2, <3>1
    <3>2. CASE i # Len(s) + 1
      <4>1. i \in 1..Len(s)
        BY <1>1, <3>2
      <4> QED
        BY <2>2, <4>1 DEF AllCalm, s
    <3> QED
      BY <3>1, <3>2
  <2> QED
    BY <2>1, <2>2, <2>3 DEF AllCalm, out
<1> QED
  BY <1>2, <1>3, <1>4

\* Nor does a pass.
LEMMA PassCalm ==
  ASSUME NEW lines \in Seq(AnyLines), NEW marks \in Marks
  PROVE  /\ Answer!Pass(lines, marks) \in Seq(AnyLines)
         /\ AllCalm(lines) => AllCalm(Answer!Pass(lines, marks))
<1> DEFINE n == Len(lines)
<1>1. PICK f : Run(f, lines, marks) /\ Answer!Pass(lines, marks) = f[n].out
  BY PassRuns
<1>2. n \in Nat /\ n \in 0..n /\ \A i \in 1..n : lines[i] \in AnyLines
  OBVIOUS
<1>3. f[n] \in Passes
  BY <1>1, <1>2 DEF Run
<1>4. ASSUME AllCalm(lines) PROVE AllCalm(f[n].out)
  <2> DEFINE T == {k \in Nat : k <= n => AllCalm(f[k].out)}
  <2>1. 0 \in T
    BY <1>1, EmptySeq DEF Run, Begun, AllCalm
  <2>2. ASSUME NEW k \in Nat, k \in T PROVE k + 1 \in T
    <3> SUFFICES ASSUME k + 1 <= n PROVE AllCalm(f[k + 1].out)
      OBVIOUS
    <3>1. k + 1 \in 1..n /\ (k + 1) - 1 = k /\ k \in 0..n /\ AllCalm(f[k].out)
      BY <1>2, <2>2
    <3>2. f[k + 1] = Answer!Anchor(f[k], lines[k + 1], marks) /\ f[k] \in Passes
      BY <1>1, <3>1 DEF Run
    <3>3. Calm(lines[k + 1]) /\ lines[k + 1] \in AnyLines
      BY <1>2, <1>4, <3>1 DEF AllCalm
    <3> QED
      BY <3>1, <3>2, <3>3, AnchorCalm
  <2>3. Nat \subseteq T
    <3> HIDE DEF T
    <3> QED
      BY <2>1, <2>2, Upwards
  <2> QED
    BY <1>2, <2>3
<1> QED
  BY <1>1, <1>3, <1>4 DEF Passes

\* Nor do both.
LEMMA NormalizeCalm ==
  ASSUME NEW lines \in Seq(AnyLines)
  PROVE  /\ Answer!Normalize(lines) \in Seq(AnyLines)
         /\ AllCalm(lines) => AllCalm(Answer!Normalize(lines))
<1>1. Answer!Numbers \in Marks /\ Answer!Bullets \cup {"dash"} \in Marks
  BY DEF Marks
<1> QED
  BY <1>1, PassCalm DEF Answer!Normalize

-----------------------------------------------------------------------------
(* Where a block of parseMarkdown ends.                                      *)

FirstIn(T, L) == Answer!Min(T \cup {L + 1})

\* FirstIn is the least element of T, or L + 1.
LEMMA FirstInIs ==
  ASSUME NEW L \in Nat, NEW i \in Nat, i <= L + 1, NEW T \in SUBSET (i..L)
  PROVE  /\ FirstIn(T, L) \in i..(L + 1)
         /\ FirstIn(T, L) = L + 1 \/ FirstIn(T, L) \in T
         /\ \A j \in i..L : j < FirstIn(T, L) => j \notin T
<1> DEFINE all == T \cup {L + 1}
<1>1. all \in SUBSET Nat /\ all # {}
  OBVIOUS
<1>2. Answer!Min(all) \in all /\ \A y \in all : Answer!Min(all) <= y
  <2> HIDE DEF all
  <2> QED
    BY <1>1, MinOf
<1>3. FirstIn(T, L) = Answer!Min(all)
  BY DEF FirstIn
<1> DEFINE m == Answer!Min(all)
<1>4. m \in all /\ \A y \in all : m <= y
  BY <1>2
<1> HIDE DEF m
<1>5. m \in i..(L + 1) /\ (m = L + 1 \/ m \in T) /\ \A j \in i..L : j < m => j \notin T
  BY <1>4
<1> QED
  BY <1>3, <1>5 DEF m

IsFence(n, i) == n[i].k \in Answer!Fences
IsHead(n, i) == Answer!AtMargin(n[i], {"blank", "head"})
\* Line j is the first one that is not of the block begun by line i any more.
Stops(n, i, j) ==
  IF n[i].k = "num" THEN ~Answer!Continues(n, i, j)
  ELSE IF n[i].k = "bullet" THEN n[j].k # "bullet"
  ELSE Answer!EndsParagraph(n[j])
Stopping(n, i) == {j \in i..Len(n) : Stops(n, i, j)}
Fencing(n, i) == {j \in (i + 1)..Len(n) : n[j].k \in Answer!Fences}

\* After, case by case.
LEMMA AfterIs ==
  ASSUME NEW n, NEW i
  PROVE  /\ IsFence(n, i) => Answer!After(n, i) = FirstIn(Fencing(n, i), Len(n)) + 1
         /\ ~IsFence(n, i) /\ IsHead(n, i) => Answer!After(n, i) = i + 1
         /\ ~IsFence(n, i) /\ ~IsHead(n, i) =>
              Answer!After(n, i) = FirstIn(Stopping(n, i), Len(n))
<1>1. IsFence(n, i) =>
        /\ n[i].k # "num" /\ n[i].k # "bullet"
        /\ ~Answer!AtMargin(n[i], {"blank", "head"})
  BY DEF IsFence, Answer!Fences, Answer!AtMargin
<1>2. IsHead(n, i) => n[i].k # "num" /\ n[i].k # "bullet"
  BY DEF IsHead, Answer!AtMargin
<1>3. CASE IsFence(n, i)
  BY <1>1, <1>3 DEF Answer!After, Answer!FirstFrom, FirstIn, Fencing, IsFence
<1>4. CASE ~IsFence(n, i) /\ IsHead(n, i)
  BY <1>2, <1>4 DEF Answer!After, IsFence, IsHead
<1>5. CASE ~IsFence(n, i) /\ ~IsHead(n, i)
  <2>1. CASE n[i].k = "num"
    <3>1. Answer!After(n, i)
          = Answer!FirstFrom(n, i, LAMBDA j : ~Answer!Continues(n, i, j))
      BY <1>5, <2>1 DEF Answer!After, IsFence, IsHead
    <3> QED
      BY <1>5, <2>1, <3>1 DEF Answer!FirstFrom, FirstIn, Stopping, Stops
  <2>2. CASE n[i].k = "bullet"
    <3>1. Answer!After(n, i) = Answer!FirstFrom(n, i, LAMBDA j : n[j].k # "bullet")
      BY <1>5, <2>2 DEF Answer!After, IsFence, IsHead
    <3> QED
      BY <1>5, <2>2, <3>1 DEF Answer!FirstFrom, FirstIn, Stopping, Stops
  <2>3. CASE n[i].k # "num" /\ n[i].k # "bullet"
    <3>1. Answer!After(n, i) = Answer!FirstFrom(n, i, LAMBDA j : Answer!EndsParagraph(n[j]))
      BY <1>5, <2>3 DEF Answer!After, IsFence, IsHead
    <3> QED
      BY <1>5, <2>3, <3>1 DEF Answer!FirstFrom, FirstIn, Stopping, Stops
  <2> QED
    BY <2>1, <2>2, <2>3
<1> QED
  BY <1>3, <1>4, <1>5

\* The loop of parseMarkdown never goes back.
LEMMA AfterInRange ==
  ASSUME NEW n \in Seq(AnyLines), NEW i \in 1..Len(n)
  PROVE  Answer!After(n, i) \in i..(Len(n) + 2)
<1>1. Len(n) \in Nat /\ i \in Nat /\ i + 1 \in Nat /\ i <= Len(n) + 1 /\ i + 1 <= Len(n) + 1
  OBVIOUS
<1>2. CASE IsFence(n, i)
  <2>1. Fencing(n, i) \in SUBSET ((i + 1)..Len(n))
    BY DEF Fencing
  <2>2. FirstIn(Fencing(n, i), Len(n)) \in (i + 1)..(Len(n) + 1)
    BY <1>1, <2>1, FirstInIs
  <2> QED
    BY <1>1, <1>2, <2>2, AfterIs
<1>3. CASE ~IsFence(n, i) /\ IsHead(n, i)
  BY <1>1, <1>3, AfterIs
<1>4. CASE ~IsFence(n, i) /\ ~IsHead(n, i)
  <2>1. Stopping(n, i) \in SUBSET (i..Len(n))
    BY DEF Stopping
  <2>2. FirstIn(Stopping(n, i), Len(n)) \in i..(Len(n) + 1)
    BY <1>1, <2>1, FirstInIs
  <2> QED
    BY <1>1, <1>4, <2>2, AfterIs
<1> QED
  BY <1>2, <1>3, <1>4

\* A calm line is part of the block it begins.
LEMMA CalmGoesOn ==
  ASSUME NEW n \in Seq(AnyLines), NEW i \in 1..Len(n), Calm(n[i]), ~Answer!Blank(n[i])
  PROVE  Answer!After(n, i) # i
<1>1. Len(n) \in Nat /\ i \in Nat /\ i <= Len(n) + 1 /\ i + 1 <= Len(n) + 1 /\ i + 1 \in Nat
      /\ n[i] \in AnyLines
  OBVIOUS
<1>2. CASE IsFence(n, i)
  <2>1. Fencing(n, i) \in SUBSET ((i + 1)..Len(n))
    BY DEF Fencing
  <2>2. FirstIn(Fencing(n, i), Len(n)) \in (i + 1)..(Len(n) + 1)
    BY <1>1, <2>1, FirstInIs
  <2> QED
    BY <1>1, <1>2, <2>2, AfterIs
<1>3. CASE ~IsFence(n, i) /\ IsHead(n, i)
  BY <1>1, <1>3, AfterIs
<1>4. CASE ~IsFence(n, i) /\ ~IsHead(n, i)
  <2>1. Stopping(n, i) \in SUBSET (i..Len(n))
    BY DEF Stopping
  <2>2. FirstIn(Stopping(n, i), Len(n)) = Len(n) + 1 \/ FirstIn(Stopping(n, i), Len(n)) \in Stopping(n, i)
    BY <1>1, <2>1, FirstInIs
  <2>3. ~Stops(n, i, i)
    <3>1. CASE n[i].k = "num"
      <4>1. Answer!AtMargin(n[i], Answer!Numbers)
        BY <3>1 DEF Calm, Answer!AtMargin, Answer!Numbers
      <4> QED
        BY <3>1, <4>1 DEF Stops, Answer!Continues
    <3>2. CASE n[i].k = "bullet"
      BY <3>2 DEF Stops
    <3>3. CASE n[i].k # "num" /\ n[i].k # "bullet"
      <4>1. ~Answer!EndsParagraph(n[i])
        BY <1>4, <3>3 DEF Calm, Answer!Unfinished, Answer!EndsParagraph, Answer!AtMargin,
           Answer!Numbers, Answer!Bullets, Answer!Fences, IsFence, IsHead, Answer!Blank
      <4> QED
        BY <3>3, <4>1 DEF Stops
    <3> QED
      BY <3>1, <3>2, <3>3
  <2>4. i \notin Stopping(n, i) /\ i # Len(n) + 1
    BY <1>1, <2>3 DEF Stopping
  <2> QED
    BY <1>4, <2>2, <2>4, AfterIs
<1> QED
  BY <1>2, <1>3, <1>4

-----------------------------------------------------------------------------
(* The blocks of parseMarkdown.                                              *)

BlockValues == [kind : Answer!Kinds \cup {"hang"}, lines : Seq(AnyLines)]
Piece(n, i) ==
  Answer!Block(n[i].k, SubSeq(n, i, Answer!Min({Answer!After(n, i) - 1, Len(n)})))

Ended(n, i) == i > Len(n) \/ (~Answer!Blank(n[i]) /\ Answer!After(n, i) = i)
Ending(n, i) == IF i > Len(n) THEN <<>> ELSE <<Answer!Hang>>
Onwards(n, i) == IF Answer!Blank(n[i]) THEN i + 1 ELSE Answer!After(n, i)
Joined(n, i, r) == IF Answer!Blank(n[i]) THEN r ELSE <<Piece(n, i)>> \o r

\* f is what the lines from each one on become.
Parsed(f, n) ==
  /\ f \in [1..(Len(n) + 2) -> Seq(BlockValues)]
  /\ \A i \in 1..(Len(n) + 2) :
       f[i] = IF Ended(n, i) THEN Ending(n, i) ELSE Joined(n, i, f[Onwards(n, i)])

\* A block has a line, and ends where the next one begins.
LEMMA PieceInRange ==
  ASSUME NEW n \in Seq(AnyLines), NEW i \in 1..Len(n), Answer!After(n, i) # i
  PROVE  /\ Piece(n, i) \in BlockValues /\ Piece(n, i).kind = n[i].k
         /\ Answer!Min({Answer!After(n, i) - 1, Len(n)}) \in i..Len(n)
         /\ Answer!After(n, i) <= Len(n) =>
              Answer!Min({Answer!After(n, i) - 1, Len(n)}) = Answer!After(n, i) - 1
<1> DEFINE a == Answer!After(n, i)
           m == Answer!Min({a - 1, Len(n)})
<1>1. a \in i..(Len(n) + 2) /\ Len(n) \in Nat /\ i \in Nat
  BY AfterInRange
<1> HIDE DEF a
<1>2. {a - 1, Len(n)} \in SUBSET Nat /\ {a - 1, Len(n)} # {} /\ a - 1 \in i..(Len(n) + 1)
  BY <1>1 DEF a
<1>3. m \in {a - 1, Len(n)} /\ \A y \in {a - 1, Len(n)} : m <= y
  BY <1>2, MinOf
<1> HIDE DEF m
<1>4. m \in i..Len(n) /\ (a <= Len(n) => m = a - 1)
  BY <1>1, <1>2, <1>3
<1>5. i \in Int /\ m \in Int /\ \A j \in i..m : n[j] \in AnyLines
  <2>1. \A j \in i..m : j \in 1..Len(n)
    BY <1>1, <1>4
  <2> QED
    BY <1>1, <1>4, <2>1
<1>6. SubSeq(n, i, m) \in Seq(AnyLines)
  BY <1>5, SubSeqProperties
<1>7. Piece(n, i) = [kind |-> n[i].k, lines |-> SubSeq(n, i, m)]
  BY DEF Piece, Answer!Block, m, a
<1>8. n[i].k \in Answer!Kinds \cup {"hang"}
  <2>1. n[i] \in AnyLines
    OBVIOUS
  <2> QED
    BY <2>1 DEF AnyLines
<1>9. \A k \in Answer!Kinds \cup {"hang"}, x \in Seq(AnyLines) :
        [kind |-> k, lines |-> x] \in BlockValues /\ [kind |-> k, lines |-> x].kind = k
  BY DEF BlockValues
<1>10. Piece(n, i) \in BlockValues /\ Piece(n, i).kind = n[i].k
  BY <1>6, <1>7, <1>8, <1>9, Zenon
<1> QED
  BY <1>4, <1>10 DEF m, a

\* Blocks before blocks are blocks.
LEMMA JoinedInRange ==
  ASSUME NEW n \in Seq(AnyLines), NEW i \in 1..(Len(n) + 2), ~Ended(n, i),
         NEW r \in Seq(BlockValues)
  PROVE  Joined(n, i, r) \in Seq(BlockValues)
<1>1. CASE Answer!Blank(n[i])
  BY <1>1 DEF Joined
<1>2. CASE ~Answer!Blank(n[i])
  <2>1. i \in 1..Len(n) /\ Answer!After(n, i) # i
    BY <1>2 DEF Ended
  <2>2. <<Piece(n, i)>> \in Seq(BlockValues)
    <3>1. Piece(n, i) \in BlockValues
      BY <2>1, PieceInRange
    <3> QED
      BY <3>1
  <2>3. <<Piece(n, i)>> \o r \in Seq(BlockValues)
    BY <2>2, ConcatProperties
  <2> QED
    BY <1>2, <2>3 DEF Joined
<1> QED
  BY <1>1, <1>2

\* Parse is the first value of a function that recurs to a later line.
LEMMA ParseIs ==
  ASSUME NEW n \in Seq(AnyLines)
  PROVE  \E f : Parsed(f, n) /\ Answer!Parse(n) = f[1]
<1> DEFINE L == Len(n) + 2
           stop == {i \in 1..L : Ended(n, i)}
           first1 == [i \in 1..L |-> IF Ended(n, i) THEN Ending(n, i) ELSE <<>>]
           next1 == [i \in 1..L |-> Onwards(n, i)]
           step == [i \in 1..L |-> [r \in Seq(BlockValues) |->
                      IF Ended(n, i) THEN r ELSE Joined(n, i, r)]]
           Is(f) == f = [i \in 1..L |-> IF i > Len(n) THEN <<>>
                           ELSE IF Answer!Blank(n[i]) THEN f[i + 1]
                           ELSE IF Answer!After(n, i) = i THEN <<Answer!Hang>>
                           ELSE <<Piece(n, i)>> \o f[Answer!After(n, i)]]
           g == CHOOSE f : Is(f)
<1>1. Answer!Parse(n) = g[1]
  BY DEF Answer!Parse, Piece
<1>2. L \in Nat /\ Len(n) \in Nat
  OBVIOUS
<1>3. first1 \in [1..L -> Seq(BlockValues)]
  <2>1. Answer!Hang \in BlockValues
    BY DEF Answer!Hang, Answer!Block, BlockValues
  <2>2. <<>> \in Seq(BlockValues) /\ <<Answer!Hang>> \in Seq(BlockValues)
    BY <2>1
  <2> QED
    BY <2>2 DEF Ending
<1>4. \A i \in 1..L : i \notin stop => next1[i] \in (i + 1)..L
  <2> SUFFICES ASSUME NEW i \in 1..L, ~Ended(n, i) PROVE Onwards(n, i) \in (i + 1)..L
    OBVIOUS
  <2>1. i \in 1..Len(n) /\ (Answer!Blank(n[i]) \/ Answer!After(n, i) # i)
    BY DEF Ended
  <2>2. Answer!After(n, i) \in i..(Len(n) + 2)
    BY <2>1, AfterInRange
  <2> QED
    BY <1>2, <2>1, <2>2 DEF Onwards
<1>5. step \in [1..L -> [Seq(BlockValues) -> Seq(BlockValues)]]
  <2>1. ASSUME NEW i \in 1..L, NEW r \in Seq(BlockValues)
        PROVE  (IF Ended(n, i) THEN r ELSE Joined(n, i, r)) \in Seq(BlockValues)
    BY JoinedInRange
  <2> QED
    BY <2>1
<1>6. PICK f \in [1..L -> Seq(BlockValues)] : Recurs(f, L, stop, first1, next1, step)
  <2> HIDE DEF L, stop, first1, next1, step
  <2> QED
    BY <1>2, <1>3, <1>4, <1>5, Recursion, Zenon
<1>7. \A i \in 1..L : f[i] = IF Ended(n, i) THEN Ending(n, i) ELSE Joined(n, i, f[Onwards(n, i)])
  <2> SUFFICES ASSUME NEW i \in 1..L
      PROVE  f[i] = IF Ended(n, i) THEN Ending(n, i) ELSE Joined(n, i, f[Onwards(n, i)])
    OBVIOUS
  <2>1. f[i] = IF i \in stop THEN first1[i] ELSE step[i][f[next1[i]]]
    BY <1>6 DEF Recurs
  <2>2. CASE Ended(n, i)
    BY <2>1, <2>2
  <2>3. CASE ~Ended(n, i)
    <3>1. f[Onwards(n, i)] \in Seq(BlockValues)
      <4>1. next1[i] \in 1..L
        BY <1>4, <2>3
      <4> QED
        BY <4>1
    <3>2. f[i] = step[i][f[Onwards(n, i)]]
      BY <2>1, <2>3
    <3> QED
      BY <2>3, <3>1, <3>2
  <2> QED
    BY <2>2, <2>3
<1>8. ASSUME NEW h PROVE \A i \in 1..L :
        (IF Ended(n, i) THEN Ending(n, i) ELSE Joined(n, i, h[Onwards(n, i)]))
        = IF i > Len(n) THEN <<>>
          ELSE IF Answer!Blank(n[i]) THEN h[i + 1]
          ELSE IF Answer!After(n, i) = i THEN <<Answer!Hang>>
          ELSE <<Piece(n, i)>> \o h[Answer!After(n, i)]
  BY DEF Ended, Ending, Joined, Onwards
<1>9. Is(f)
  BY <1>7, <1>8
<1>10. Is(g)
  <2> HIDE DEF Is
  <2> QED
    BY <1>9
<1> HIDE DEF g
<1>11. \A i \in 1..L : g[i] = IF Ended(n, i) THEN Ending(n, i) ELSE Joined(n, i, g[Onwards(n, i)])
  BY <1>8, <1>10
<1>12. 1..L \subseteq {i \in 1..L : g[i] \in Seq(BlockValues)}
  <2> DEFINE T == {i \in 1..L : g[i] \in Seq(BlockValues)}
  <2>1. ASSUME NEW i \in 1..L, \A j \in (i + 1)..L : j \in T PROVE i \in T
    <3>1. CASE Ended(n, i)
      <4>1. first1[i] \in Seq(BlockValues) /\ g[i] = Ending(n, i)
        BY <1>3, <1>11, <3>1
      <4> QED
        BY <3>1, <4>1
    <3>2. CASE ~Ended(n, i)
      <4>1. Onwards(n, i) \in (i + 1)..L
        BY <1>4, <3>2
      <4>2. g[Onwards(n, i)] \in Seq(BlockValues)
        BY <2>1, <4>1
      <4>3. g[i] = Joined(n, i, g[Onwards(n, i)])
        BY <1>11, <3>2
      <4> QED
        BY <3>2, <4>2, <4>3, JoinedInRange
    <3> QED
      BY <3>1, <3>2
  <2> HIDE DEF T
  <2>2. 1..L \subseteq T
    <3> HIDE DEF L
    <3> QED
      BY <1>2, <2>1, Downwards
  <2> QED
    BY <2>2 DEF T
<1>13. g \in [1..L -> Seq(BlockValues)]
  <2>1. g = [i \in 1..L |-> g[i]]
    BY <1>10
  <2> QED
    BY <1>12, <2>1
<1> QED
  BY <1>1, <1>11, <1>13 DEF Parsed

\* Text without an unfinished item or an indented number never stops
\* parseMarkdown: each line that it looks at becomes part of a block
\* (MarkdownContent.tsx).
THEOREM CalmNeverHangs ==
  ASSUME NEW n \in Seq(AnyLines), AllCalm(n)
  PROVE  ~Answer!Contains(Answer!Parse(n), Answer!Hang)
<1> DEFINE L == Len(n) + 2
           NoHang(s) == \A j \in 1..Len(s) : s[j].kind # "hang"
<1>1. PICK f : Parsed(f, n) /\ Answer!Parse(n) = f[1]
  BY ParseIs
<1>2. L \in Nat /\ Len(n) \in Nat /\ f \in [1..L -> Seq(BlockValues)]
  BY <1>1 DEF Parsed
<1> DEFINE T == {i \in 1..L : NoHang(f[i])}
<1>3. ASSUME NEW i \in 1..L, \A j \in (i + 1)..L : j \in T PROVE i \in T
  <2>1. f[i] = IF Ended(n, i) THEN Ending(n, i) ELSE Joined(n, i, f[Onwards(n, i)])
    BY <1>1 DEF Parsed
  <2>2. CASE i > Len(n)
    <3>1. f[i] = <<>>
      BY <2>1, <2>2 DEF Ended, Ending
    <3> QED
      BY <3>1
  <2>3. CASE i <= Len(n)
    <3>1. i \in 1..Len(n) /\ Calm(n[i])
      BY <2>3 DEF AllCalm
    <3>2. ~Ended(n, i)
      BY <2>3, <3>1, CalmGoesOn DEF Ended
    <3>3. Onwards(n, i) \in (i + 1)..L
      <4>1. ~Answer!Blank(n[i]) => Answer!After(n, i) \in i..L /\ Answer!After(n, i) # i
        BY <3>1, AfterInRange, CalmGoesOn
      <4> QED
        BY <1>2, <3>1, <4>1 DEF Onwards
    <3>4. NoHang(f[Onwards(n, i)]) /\ f[Onwards(n, i)] \in Seq(BlockValues)
      <4>1. Onwards(n, i) \in T
        BY <1>3, <3>3
      <4>2. Onwards(n, i) \in 1..L
        BY <3>3
      <4> QED
        BY <1>2, <4>1, <4>2
    <3>5. CASE Answer!Blank(n[i])
      BY <2>1, <3>2, <3>4, <3>5 DEF Joined
    <3>6. CASE ~Answer!Blank(n[i])
      <4> DEFINE p == Piece(n, i)
                 r == f[Onwards(n, i)]
      <4>1. f[i] = <<p>> \o r
        BY <2>1, <3>2, <3>6 DEF Joined
      <4>2. p \in BlockValues /\ p.kind # "hang"
        <5>1. p \in BlockValues /\ p.kind = n[i].k
          BY <3>1, <3>6, CalmGoesOn, PieceInRange
        <5>2. n[i] \in AnyLines
          BY <3>1
        <5>3. "hang" \notin Answer!Kinds
          BY DEF Answer!Kinds
        <5> QED
          BY <5>1, <5>2, <5>3 DEF AnyLines
      <4> HIDE DEF p
      <4>3. <<p>> \in Seq(BlockValues) /\ Len(<<p>>) = 1 /\ <<p>>[1] = p
        BY <4>2
      <4>4. r \in Seq(BlockValues) /\ Len(r) \in Nat /\ NoHang(r)
        BY <3>4
      <4> HIDE DEF r
      <4>5. /\ Len(<<p>> \o r) = 1 + Len(r)
            /\ \A j \in 1..(1 + Len(r)) : (<<p>> \o r)[j] = IF j <= 1 THEN <<p>>[j] ELSE r[j - 1]
        <5>1. /\ Len(<<p>> \o r) = Len(<<p>>) + Len(r)
              /\ \A j \in 1..(Len(<<p>>) + Len(r)) :
                   (<<p>> \o r)[j] = IF j <= Len(<<p>>) THEN <<p>>[j] ELSE r[j - Len(<<p>>)]
          BY <4>3, <4>4, ConcatProperties
        <5> QED
          BY <4>3, <5>1, Zenon
      <4>6. ASSUME NEW j \in 1..(1 + Len(r)) PROVE (<<p>> \o r)[j].kind # "hang"
        <5>1. CASE j = 1
          BY <4>2, <4>3, <4>5, <5>1
        <5>2. CASE j # 1
          <6>1. j - 1 \in 1..Len(r) /\ ~(j <= 1)
            BY <4>4, <5>2
          <6>2. (<<p>> \o r)[j] = r[j - 1]
            BY <4>5, <6>1
          <6> QED
            BY <4>4, <6>1, <6>2
        <5> QED
          BY <5>1, <5>2
      <4> QED
        BY <4>1, <4>5, <4>6
    <3> QED
      BY <3>5, <3>6
  <2>4. i > Len(n) \/ i <= Len(n)
    BY <1>2
  <2> QED
    BY <2>2, <2>3, <2>4
<1>4. 1..L \subseteq T
  <2> HIDE DEF L, T
  <2> QED
    BY <1>2, <1>3, Downwards
<1>5. 1 \in 1..L
  BY <1>2
<1>6. NoHang(f[1])
  BY <1>4, <1>5
<1>7. Answer!Hang.kind = "hang"
  BY DEF Answer!Hang, Answer!Block
<1> QED
  BY <1>1, <1>6, <1>7 DEF Answer!Contains

\* Two calm texts are a calm one.
LEMMA CalmConcat ==
  ASSUME NEW s \in Seq(AnyLines), NEW t \in Seq(AnyLines), AllCalm(s), AllCalm(t)
  PROVE  AllCalm(s \o t)
<1>1. /\ Len(s \o t) = Len(s) + Len(t) /\ Len(s) \in Nat /\ Len(t) \in Nat
      /\ \A i \in 1..(Len(s) + Len(t)) :
           (s \o t)[i] = IF i <= Len(s) THEN s[i] ELSE t[i - Len(s)]
  BY ConcatProperties
<1> DEFINE u == s \o t
<1> HIDE DEF u
<1>2. ASSUME NEW i \in 1..(Len(s) + Len(t)) PROVE Calm(u[i])
  <2>1. CASE i <= Len(s)
    <3>1. i \in 1..Len(s) /\ u[i] = s[i]
      BY <1>1, <2>1 DEF u
    <3> QED
      BY <3>1 DEF AllCalm
  <2>2. CASE ~(i <= Len(s))
    <3>1. i - Len(s) \in 1..Len(t) /\ u[i] = t[i - Len(s)]
      BY <1>1, <2>2 DEF u
    <3> QED
      BY <3>1 DEF AllCalm
  <2> QED
    BY <2>1, <2>2
<1>3. Len(u) = Len(s) + Len(t)
  BY <1>1 DEF u
<1>4. AllCalm(u)
  BY <1>2, <1>3 DEF AllCalm
<1> QED
  BY <1>4 DEF u

\* A part of a calm text is calm.
LEMMA CalmSubSeq ==
  ASSUME NEW s \in Seq(AnyLines), AllCalm(s), NEW a \in Nat, NEW b \in Int, 1 <= a, b <= Len(s)
  PROVE  SubSeq(s, a, b) \in Seq(AnyLines) /\ AllCalm(SubSeq(s, a, b))
<1>1. a \in Int /\ \A i \in a..b : i \in 1..Len(s) /\ s[i] \in AnyLines
  OBVIOUS
<1>2. /\ SubSeq(s, a, b) \in Seq(AnyLines)
      /\ Len(SubSeq(s, a, b)) = IF a <= b THEN b - a + 1 ELSE 0
      /\ \A i \in 1..(b - a + 1) : SubSeq(s, a, b)[i] = s[a + i - 1]
  BY <1>1, SubSeqProperties
<1> DEFINE u == SubSeq(s, a, b)
<1> HIDE DEF u
<1>3. ASSUME NEW i \in 1..Len(u) PROVE Calm(u[i])
  <2>1. Len(u) = IF a <= b THEN b - a + 1 ELSE 0
    BY <1>2 DEF u
  <2>2. i \in 1..(b - a + 1) /\ a + i - 1 \in a..b
    BY <2>1
  <2>3. u[i] = s[a + i - 1]
    BY <1>2, <2>2 DEF u
  <2> QED
    BY <1>1, <2>2, <2>3 DEF AllCalm
<1> QED
  BY <1>2, <1>3 DEF AllCalm, u

\* What is left of a calm answer is calm.
LEMMA ExtractCalm ==
  ASSUME NEW lines \in Seq(AnyLines), AllCalm(lines)
  PROVE  AllCalm(Answer!Extract(lines).text)
<1> DEFINE n == Len(lines) + 1
<1>1. PICK f \in [1..n -> Extracts] :
        /\ Answer!Extract(lines) = f[1]
        /\ \A i \in 1..n : f[i] = IF Ends(lines, i) THEN Tail1(lines, i)
                                  ELSE Taken(lines, i, f[Behind(lines, i)])
  BY ExtractFrom
<1> DEFINE T == {i \in 1..n : AllCalm(f[i].text)}
<1>2. n \in Nat /\ Len(lines) \in Nat
  OBVIOUS
<1>3. ASSUME NEW i \in 1..n, \A j \in (i + 1)..n : j \in T PROVE i \in T
  <2>1. CASE Ends(lines, i)
    <3>1. f[i].text = SubSeq(lines, i, Len(lines))
      BY <1>1, <2>1 DEF Tail1
    <3>2. i \in Nat /\ 1 <= i /\ Len(lines) \in Int /\ Len(lines) <= Len(lines)
      BY <1>2
    <3> QED
      BY <3>1, <3>2, CalmSubSeq
  <2>2. CASE ~Ends(lines, i)
    <3> DEFINE o == Answer!Opening(lines, i)
               c == Answer!Closing(lines, i)
               r == f[Behind(lines, i)]
               rest == <<Answer!Rest(lines[c])>>
    <3>1. /\ o \in Nat /\ c \in Nat /\ i \in Nat /\ 1 <= i /\ i <= o /\ o < c /\ c <= Len(lines)
          /\ Behind(lines, i) \in (i + 1)..n
      BY <1>2, <2>2, FencesFound DEF Behind, Ends
    <3>2. r \in Extracts /\ AllCalm(r.text)
      <4>1. Behind(lines, i) \in T /\ Behind(lines, i) \in 1..n
        BY <1>3, <3>1
      <4> QED
        BY <4>1
    <3>3. f[i] = Taken(lines, i, r)
      BY <1>1, <2>2
    <3>4. rest \in Seq(AnyLines) /\ AllCalm(rest)
      <4>1. c \in 1..Len(lines) /\ lines[c] \in AnyLines
        BY <1>2, <3>1
      <4>2. rest \in Seq(AnyLines) /\ Len(rest) = 1
        BY <4>1, RestCounts
      <4>3. Calm(Answer!Rest(lines[c]))
        BY DEF Calm, Answer!Rest, Answer!LineOf, Answer!Unfinished
      <4> QED
        BY <4>2, <4>3 DEF AllCalm
    <3>5. r.text \in Seq(AnyLines)
      BY <3>2 DEF Extracts
    <3> HIDE DEF r, rest, o, c
    <3>6. /\ SubSeq(lines, i, o - 1) \in Seq(AnyLines) /\ AllCalm(SubSeq(lines, i, o - 1))
          /\ SubSeq(lines, i, c) \in Seq(AnyLines) /\ AllCalm(SubSeq(lines, i, c))
      <4>1. o - 1 \in Int /\ o - 1 <= Len(lines) /\ c \in Int
        BY <1>2, <3>1
      <4> QED
        BY <3>1, <4>1, CalmSubSeq
    <3>7. AllCalm(SubSeq(lines, i, o - 1) \o rest \o r.text)
      <4>1. /\ SubSeq(lines, i, o - 1) \o rest \in Seq(AnyLines)
            /\ AllCalm(SubSeq(lines, i, o - 1) \o rest)
        BY <3>4, <3>6, CalmConcat, ConcatProperties
      <4> QED
        BY <3>2, <3>5, <4>1, CalmConcat
    <3>8. AllCalm(SubSeq(lines, i, c) \o r.text)
      BY <3>2, <3>5, <3>6, CalmConcat
    <3>9. \A x : [r EXCEPT !.text = x].text = x
      BY <3>2 DEF Extracts
    <3>10. \/ f[i].text = SubSeq(lines, i, o - 1) \o rest \o r.text
           \/ f[i].text = SubSeq(lines, i, c) \o r.text
      <4>1. CASE Answer!Parses(lines, o, c)
        <5>1. f[i] = [artifacts |-> r.artifacts + 1,
                      text |-> SubSeq(lines, i, o - 1) \o rest \o r.text]
          BY <3>3, <4>1 DEF Taken, rest, o, c
        <5>2. \A a, x : [artifacts |-> a, text |-> x].text = x
          OBVIOUS
        <5> QED
          BY <5>1, <5>2, Zenon
      <4>2. CASE ~Answer!Parses(lines, o, c)
        <5>1. f[i] = [r EXCEPT !.text = SubSeq(lines, i, c) \o r.text]
          BY <3>3, <4>2 DEF Taken, o, c
        <5> QED
          BY <3>9, <5>1
      <4> QED
        BY <4>1, <4>2
    <3> QED
      BY <3>7, <3>8, <3>10
  <2> QED
    BY <2>1, <2>2
<1>4. 1..n \subseteq T
  <2> HIDE DEF n, T
  <2> QED
    BY <1>2, <1>3, Downwards
<1>5. 1 \in 1..n
  BY <1>2
<1> QED
  BY <1>1, <1>4, <1>5

\* A calm text stays calm when it is trimmed: lines are moved to the margin,
\* never away from it.
LEMMA TrimmedCalm ==
  ASSUME NEW s \in Seq(AnyLines), AllCalm(s)
  PROVE  AllCalm(Answer!Trimmed(s))
<1>1. ASSUME NEW x \in Seq(AnyLines), AllCalm(x) PROVE AllCalm(Answer!Stem(x))
  <2>1. \A i \in 1..Len(Answer!Stem(x)) : i \in 1..Len(x) /\ Answer!Stem(x)[i] = x[i]
    BY StemIs
  <2> QED
    BY <1>1, <2>1 DEF AllCalm
<1>2. ASSUME NEW x \in Seq(AnyLines), AllCalm(x) PROVE AllCalm(Answer!Reverse(x))
  <2>1. Answer!Reverse(x) = [i \in 1..Len(x) |-> x[(Len(x) - i) + 1]]
    BY DEF Answer!Reverse
  <2>2. \A i \in 1..Len(x) : (Len(x) - i) + 1 \in 1..Len(x)
    OBVIOUS
  <2>3. Len(Answer!Reverse(x)) = Len(x)
    <3>1. Answer!Reverse(x) \in Seq(AnyLines) /\ Len(x) \in Nat
      BY ReverseKeeps
    <3> QED
      BY <2>1, <3>1
  <2> QED
    BY <1>2, <2>1, <2>2, <2>3 DEF AllCalm
<1> DEFINE s1 == Answer!Reverse(s)
           s2 == Answer!Stem(s1)
           s3 == Answer!Reverse(s2)
           stem == Answer!Stem(s3)
           t == Answer!Trimmed(s)
           bare(line) == [line EXCEPT !.k = IF line.k \in Answer!Unfinished THEN "text" ELSE line.k]
<1>3. stem \in Seq(AnyLines) /\ AllCalm(stem)
  <2>1. s1 \in Seq(AnyLines) /\ AllCalm(s1)
    BY <1>2, ReverseKeeps
  <2> HIDE DEF s1
  <2>2. s2 \in Seq(AnyLines) /\ AllCalm(s2)
    BY <1>1, <2>1, StemKeeps
  <2> HIDE DEF s2
  <2>3. s3 \in Seq(AnyLines) /\ AllCalm(s3)
    BY <1>2, <2>2, ReverseKeeps
  <2> HIDE DEF s3
  <2> QED
    BY <1>1, <2>3, StemKeeps
<1>4. t = [i \in DOMAIN stem |->
             [(IF i = Len(stem) THEN bare(stem[i]) ELSE stem[i]) EXCEPT !.indent = @ /\ i > 1]]
  BY DEF Answer!Trimmed
<1>5. t \in Seq(AnyLines)
  BY TrimmedKeeps
<1> HIDE DEF stem, t
<1>6. Len(stem) \in Nat /\ DOMAIN stem = 1..Len(stem) /\ \A i \in 1..Len(stem) : stem[i] \in AnyLines
  BY <1>3
<1>7. Len(t) = Len(stem)
  BY <1>4, <1>5, <1>6
<1>8. ASSUME NEW i \in 1..Len(stem) PROVE Calm(t[i])
  <2> DEFINE line == IF i = Len(stem) THEN bare(stem[i]) ELSE stem[i]
  <2>1. stem[i] \in AnyLines /\ Calm(stem[i])
    BY <1>3, <1>6 DEF AllCalm
  <2>2. line = stem[i]
    <3>1. [stem[i] EXCEPT !.k = stem[i].k] = stem[i]
      BY <2>1 DEF AnyLines
    <3> QED
      BY <2>1, <3>1 DEF Calm
  <2>3. t[i] = [line EXCEPT !.indent = line.indent /\ i > 1]
    BY <1>4, <1>6
  <2> HIDE DEF line
  <2>4. ASSUME NEW x \in BOOLEAN, x => stem[i].indent
        PROVE  Calm([stem[i] EXCEPT !.indent = x])
    <3>1. /\ [stem[i] EXCEPT !.indent = x].k = stem[i].k
          /\ [stem[i] EXCEPT !.indent = x].indent = x
      BY <2>1 DEF AnyLines
    <3> QED
      BY <2>1, <2>4, <3>1 DEF Calm
  <2>5. (stem[i].indent /\ i > 1) \in BOOLEAN /\ ((stem[i].indent /\ i > 1) => stem[i].indent)
    OBVIOUS
  <2>6. Calm([stem[i] EXCEPT !.indent = stem[i].indent /\ i > 1])
    BY <2>4, <2>5
  <2> QED
    BY <2>2, <2>3, <2>6
<1>9. AllCalm(t)
  BY <1>7, <1>8 DEF AllCalm
<1> QED
  BY <1>9 DEF t

\* Only an unfinished item, or an indented number, stops the renderer.
LEMMA OnlyUnfinished ==
  ASSUME Answer!TypeOK
  PROVE  Answer!OnlyUnfinishedStops
<1>1. content \in Seq(AnyLines)
  BY PageAssumption, SeqMonotonic DEF PageAssumption, Answer!TypeOK, AnyLines
<1> SUFFICES ASSUME AllCalm(content) PROVE ~Answer!Frozen
  BY <1>1 DEF Answer!OnlyUnfinishedStops, AllCalm, Calm
<1>2. Answer!Shown \in Seq(AnyLines) /\ AllCalm(Answer!Shown)
  <2>1. CASE isStreaming
    BY <1>1, <2>1 DEF Answer!Shown
  <2>2. CASE ~isStreaming
    <3> DEFINE text == Answer!Extract(content).text
    <3>1. Answer!Shown = IF text = content THEN content ELSE Answer!Trimmed(text)
      BY <2>2 DEF Answer!Shown, Answer!RemainingContent
    <3>2. text \in Seq(AnyLines) /\ AllCalm(text)
      BY <1>1, ExtractKeeps, ExtractCalm DEF Fits, Extracts
    <3> HIDE DEF text
    <3>3. Answer!Trimmed(text) \in Seq(AnyLines) /\ AllCalm(Answer!Trimmed(text))
      BY <3>2, TrimmedKeeps, TrimmedCalm
    <3> QED
      BY <1>1, <3>1, <3>3
  <2> QED
    BY <2>1, <2>2
<1> QED
  BY <1>2, NormalizeCalm, CalmNeverHangs DEF Answer!Frozen, Answer!Hangs, Answer!Blocks

-----------------------------------------------------------------------------
(* What another line changes of the normalized ones.                         *)

\* All but the blank end stays, the last mark of it may lose its space.
Grown(n, more) ==
  /\ Len(Answer!Stem(n)) <= Len(more)
  /\ \A j \in 1..(Len(Answer!Stem(n)) - 1) : more[j] = n[j]
  /\ Len(Answer!Stem(n)) > 0 =>
       more[Len(Answer!Stem(n))] \in {n[Len(Answer!Stem(n))], Answer!Shorn(n[Len(Answer!Stem(n))])}

\* Where the blank end of a text begins.
LEMMA StemLength ==
  ASSUME NEW s \in Seq(AnyLines), NEW m \in Nat, m <= Len(s), m > 0 => s[m].k # "blank",
         \A j \in (m + 1)..Len(s) : s[j].k = "blank"
  PROVE  Len(Answer!Stem(s)) = m
<1> DEFINE k == Len(Answer!Stem(s))
<1>1. /\ k \in Nat /\ k <= Len(s) /\ Len(s) \in Nat /\ (k > 0 => s[k].k # "blank")
      /\ \A i \in (k + 1)..Len(s) : s[i].k = "blank"
  BY StemIs
<1> HIDE DEF k
<1>2. ~(k < m)
  <2> SUFFICES ASSUME k < m PROVE FALSE
    OBVIOUS
  <2>1. m \in (k + 1)..Len(s) /\ m > 0
    BY <1>1
  <2> QED
    BY <1>1, <2>1
<1>3. ~(k > m)
  <2> SUFFICES ASSUME k > m PROVE FALSE
    OBVIOUS
  <2>1. k \in (m + 1)..Len(s) /\ k > 0
    BY <1>1
  <2> QED
    BY <1>1, <2>1
<1>4. k = m
  BY <1>1, <1>2, <1>3
<1> QED
  BY <1>4 DEF k

\* The lines of two texts, one after the other.
LEMMA ConcatIs ==
  ASSUME NEW s \in Seq(AnyLines), NEW t \in Seq(AnyLines)
  PROVE  /\ s \o t \in Seq(AnyLines) /\ Len(s \o t) = Len(s) + Len(t)
         /\ Len(s) \in Nat /\ Len(t) \in Nat
         /\ \A i \in 1..Len(s) : (s \o t)[i] = s[i]
         /\ \A i \in 1..Len(t) : (s \o t)[Len(s) + i] = t[i]
<1>1. /\ s \o t \in Seq(AnyLines) /\ Len(s \o t) = Len(s) + Len(t)
      /\ Len(s) \in Nat /\ Len(t) \in Nat
      /\ \A i \in 1..(Len(s) + Len(t)) :
           (s \o t)[i] = IF i <= Len(s) THEN s[i] ELSE t[i - Len(s)]
  BY ConcatProperties
<1>2. ASSUME NEW i \in 1..Len(s) PROVE (s \o t)[i] = s[i]
  <2>1. i \in 1..(Len(s) + Len(t)) /\ i <= Len(s)
    BY <1>1
  <2> QED
    BY <1>1, <2>1
<1>3. ASSUME NEW i \in 1..Len(t) PROVE (s \o t)[Len(s) + i] = t[i]
  <2>1. Len(s) + i \in 1..(Len(s) + Len(t)) /\ ~(Len(s) + i <= Len(s)) /\ (Len(s) + i) - Len(s) = i
    BY <1>1
  <2> QED
    BY <1>1, <2>1
<1> QED
  BY <1>1, <1>2, <1>3

\* What the lines so far have become stays, but for the blank end.
LEMMA AnchorGrows ==
  ASSUME NEW acc \in Passes, NEW line \in AnyLines, NEW marks \in Marks
  PROVE  Grown(acc.out, Answer!Anchor(acc, line, marks).out)
<1> DEFINE s == acc.out
           stem == Answer!Stem(s)
           m == Len(stem)
           out == Answer!Anchor(acc, line, marks).out
<1>1. /\ s \in Seq(AnyLines) /\ stem \in Seq(AnyLines) /\ m \in Nat /\ m <= Len(s) /\ Len(s) \in Nat
      /\ \A i \in 1..m : stem[i] = s[i]
  BY StemIs DEF Passes
<1>2. CASE Anchors(acc, line, marks)
  <2>1. out = Anchored(stem, line) /\ stem # <<>>
    BY <1>2, AnchorIs DEF Anchors
  <2> HIDE DEF out, stem
  <2>2. m > 0
    BY <1>1, <2>1, EmptySeq
  <2>3. /\ Len(Anchored(stem, line)) = m + 1
        /\ \A i \in 1..(m - 1) : Anchored(stem, line)[i] = stem[i]
        /\ Anchored(stem, line)[m] = Answer!Shorn(stem[m])
    BY <1>1, <2>1, AnchoredIs
  <2>4. \A i \in 1..(m - 1) : i \in 1..m
    BY <1>1
  <2>5. m \in 1..m /\ m <= m + 1
    BY <1>1, <2>2
  <2>6. /\ m <= Len(out) /\ \A i \in 1..(m - 1) : out[i] = s[i]
        /\ out[m] = Answer!Shorn(s[m])
    BY <1>1, <2>1, <2>3, <2>4, <2>5
  <2> QED
    BY <2>6 DEF Grown, out, stem
<1>3. ASSUME NEW t \in Seq(AnyLines), out = s \o t PROVE Grown(s, out)
  <2>1. /\ Len(s \o t) = Len(s) + Len(t) /\ Len(t) \in Nat
        /\ \A i \in 1..Len(s) : (s \o t)[i] = s[i]
    BY <1>1, ConcatIs
  <2> HIDE DEF s, out, m
  <2>2. m <= Len(out)
    BY <1>1, <1>3, <2>1
  <2>3. \A i \in 1..(m - 1) : i \in 1..Len(s)
    BY <1>1
  <2>4. m > 0 => m \in 1..Len(s)
    BY <1>1
  <2> QED
    BY <1>3, <2>1, <2>2, <2>3, <2>4 DEF Grown, m
<1>4. CASE Parts(line, marks)
  <2>0. out = s \o Parted(line)
    BY <1>4, AnchorIs
  <2>1. out = s \o Parted(line) /\ Parted(line) \in Seq(AnyLines)
    BY <2>0, PartedIs
  <2> QED
    BY <1>3, <2>1
<1>5. CASE ~Anchors(acc, line, marks) /\ ~Parts(line, marks)
  <2>1. out = Append(s, line)
    BY <1>5, AnchorIs
  <2>2. Append(s, line) = s \o <<line>> /\ <<line>> \in Seq(AnyLines)
    BY <1>1, AppendIsConcat
  <2> QED
    BY <1>3, <2>1, <2>2
<1> QED
  BY <1>2, <1>4, <1>5

\* A line that is not blank is not made blank.
LEMMA AnchorEnds ==
  ASSUME NEW acc \in Passes, NEW line \in AnyLines, line.k # "blank", NEW marks \in Marks
  PROVE  LET out == Answer!Anchor(acc, line, marks).out
         IN  out \in Seq(AnyLines) /\ Len(out) > 0 /\ out[Len(out)].k # "blank"
<1> DEFINE s == acc.out
           out == Answer!Anchor(acc, line, marks).out
<1>1. s \in Seq(AnyLines) /\ Len(s) \in Nat
  BY DEF Passes
<1>2. \A kind : Answer!LineOf(kind).k = kind
  BY DEF Answer!LineOf
<1>3. CASE Anchors(acc, line, marks)
  <2> DEFINE stem == Answer!Stem(s)
  <2>1. out = Anchored(stem, line) /\ stem # <<>> /\ stem \in Seq(AnyLines) /\ Len(stem) \in Nat
    BY <1>1, <1>3, AnchorIs, StemIs DEF Anchors
  <2> HIDE DEF out, stem
  <2>2. /\ Anchored(stem, line) \in Seq(AnyLines) /\ Len(Anchored(stem, line)) = Len(stem) + 1
        /\ Anchored(stem, line)[Len(stem) + 1] = Answer!LineOf(line.k)
    BY <2>1, AnchoredIs
  <2> QED
    BY <1>2, <2>1, <2>2 DEF out
<1>4. CASE Parts(line, marks)
  <2>0. out = s \o Parted(line)
    BY <1>4, AnchorIs
  <2>1. /\ out = s \o Parted(line) /\ Parted(line) \in Seq(AnyLines) /\ Len(Parted(line)) = 2
        /\ Parted(line)[2] = Answer!LineOf("bullet")
    BY <2>0, PartedIs
  <2> DEFINE p == Parted(line)
  <2> HIDE DEF out, s, p
  <2>2. /\ s \o p \in Seq(AnyLines) /\ Len(s \o p) = Len(s) + Len(p)
        /\ \A i \in 1..Len(p) : (s \o p)[Len(s) + i] = p[i]
    BY <1>1, <2>1, ConcatIs DEF p
  <2>3. Len(p) = 2 /\ 2 \in 1..Len(p) /\ p[2].k = "bullet" /\ out = s \o p
    BY <1>2, <2>1 DEF p
  <2> QED
    BY <1>1, <2>2, <2>3 DEF out
<1>5. CASE ~Anchors(acc, line, marks) /\ ~Parts(line, marks)
  <2>1. out = Append(s, line)
    BY <1>5, AnchorIs
  <2>2. /\ Append(s, line) \in Seq(AnyLines) /\ Len(Append(s, line)) = Len(s) + 1
        /\ Append(s, line)[Len(s) + 1] = line
    BY <1>1, AppendProperties
  <2> HIDE DEF out, s
  <2> QED
    BY <1>1, <2>1, <2>2 DEF out
<1> QED
  BY <1>3, <1>4, <1>5

\* t is s and blank lines.
Padded(s, t) ==
  /\ Len(s) <= Len(t) /\ \A i \in 1..Len(s) : t[i] = s[i]
  /\ \A i \in (Len(s) + 1)..Len(t) : t[i].k = "blank"

\* Blank lines at the end are appended.
LEMMA BlanksPad ==
  ASSUME NEW lines \in Seq(AnyLines), NEW f, NEW marks \in Marks, Run(f, lines, marks),
         NEW k \in Nat, k <= Len(lines),
         \A i \in (k + 1)..Len(lines) : lines[i].k = "blank"
  PROVE  Padded(f[k].out, f[Len(lines)].out)
<1> DEFINE L == Len(lines)
           T == {d \in Nat : k + d <= L => Padded(f[k].out, f[k + d].out)}
<1>1. L \in Nat /\ \A i \in 0..L : f[i] \in Passes
  BY DEF Run
<1>2. 0 \in T
  <2>1. k + 0 = k /\ k \in 0..L /\ f[k].out \in Seq(AnyLines)
    BY <1>1 DEF Passes
  <2>2. Padded(f[k].out, f[k].out)
    BY <2>1 DEF Padded
  <2> QED
    BY <2>1, <2>2
<1>3. ASSUME NEW d \in Nat, d \in T PROVE d + 1 \in T
  <2> SUFFICES ASSUME k + (d + 1) <= L PROVE Padded(f[k].out, f[k + (d + 1)].out)
    OBVIOUS
  <2> DEFINE j == k + (d + 1)
             s == f[k].out
             t == f[k + d].out
             line == lines[j]
  <2>1. j \in 1..L /\ j \in (k + 1)..L /\ j - 1 = k + d /\ k + d \in 0..L /\ k \in 0..L
    BY <1>1
  <2>2. Padded(s, t) /\ s \in Seq(AnyLines) /\ t \in Seq(AnyLines) /\ line.k = "blank"
    BY <1>1, <1>3, <2>1 DEF Passes
  <2>3. f[j] = Answer!Anchor(f[k + d], line, marks) /\ line \in AnyLines
    BY <2>1 DEF Run
  <2>4. ~Anchors(f[k + d], line, marks) /\ ~Parts(line, marks)
    BY <2>2 DEF Anchors, Parts, Marks, Answer!Numbers, Answer!Bullets
  <2>5. f[j].out = Append(t, line)
    <3>1. f[j] = [out |-> Append(t, line), spent |-> f[k + d].spent /\ line.k = "blank"]
      BY <2>3, <2>4, AnchorIs
    <3> QED
      BY <3>1
  <2>6. /\ Len(Append(t, line)) = Len(t) + 1 /\ Append(t, line)[Len(t) + 1] = line
        /\ \A i \in 1..Len(t) : Append(t, line)[i] = t[i]
    BY <2>2, <2>3, AppendProperties
  <2> DEFINE u == Append(t, line)
  <2>7. Padded(s, u)
    <3> HIDE DEF s, t, line, u
    <3>1. Len(s) \in Nat /\ Len(t) \in Nat /\ Len(s) <= Len(t)
      BY <2>2 DEF Padded
    <3>2. ASSUME NEW i \in 1..Len(s) PROVE u[i] = s[i]
      <4>1. i \in 1..Len(t)
        BY <3>1
      <4> QED
        BY <2>2, <2>6, <4>1 DEF Padded, u
    <3>3. ASSUME NEW i \in (Len(s) + 1)..(Len(t) + 1) PROVE u[i].k = "blank"
      <4>1. CASE i = Len(t) + 1
        BY <2>2, <2>6, <4>1 DEF u
      <4>2. CASE i # Len(t) + 1
        <5>1. i \in (Len(s) + 1)..Len(t) /\ i \in 1..Len(t)
          BY <3>1, <4>2
        <5> QED
          BY <2>2, <2>6, <5>1 DEF Padded, u
      <4> QED
        BY <4>1, <4>2
    <3>4. Len(u) = Len(t) + 1 /\ Len(s) <= Len(u)
      BY <2>6, <3>1 DEF u
    <3> QED
      BY <3>2, <3>3, <3>4 DEF Padded
  <2> QED
    BY <2>5, <2>7
<1>4. Nat \subseteq T
  <2> HIDE DEF T
  <2> QED
    BY <1>2, <1>3, Upwards
<1>5. L - k \in Nat /\ k + (L - k) = L
  BY <1>1
<1>6. L - k \in T
  <2> HIDE DEF T, L
  <2> QED
    BY <1>4, <1>5
<1> QED
  BY <1>5, <1>6

\* A line that is no mark, or has nothing before it, is appended.
LEMMA AnchorAppends ==
  ASSUME NEW acc, NEW line, NEW marks \in Marks, ~Anchors(acc, line, marks), ~Parts(line, marks)
  PROVE  Answer!Anchor(acc, line, marks).out = Append(acc.out, line)
<1>1. Answer!Anchor(acc, line, marks)
      = [out |-> Append(acc.out, line), spent |-> acc.spent /\ line.k = "blank"]
  BY AnchorIs
<1> QED
  BY <1>1

\* A mark is moved to the margin.
LEMMA AnchorAnchors ==
  ASSUME NEW acc, NEW line, NEW marks \in Marks, Anchors(acc, line, marks)
  PROVE  Answer!Anchor(acc, line, marks).out = Anchored(Answer!Stem(acc.out), line)
<1>1. Answer!Anchor(acc, line, marks)
      = [out |-> Anchored(Answer!Stem(acc.out), line),
         spent |-> line.k \in Answer!Unfinished \cup {"dash"}]
  BY AnchorIs
<1> QED
  BY <1>1

\* The last mark of b may have lost its space.
Varied(a, b) ==
  /\ Len(a) = Len(b) /\ \A j \in 1..(Len(a) - 1) : b[j] = a[j]
  /\ b[Len(a)] \in {a[Len(a)], Answer!Shorn(a[Len(a)])}

\* The last mark decides nothing but how it looks itself.
LEMMA ShornVaries ==
  ASSUME NEW acc \in Passes, NEW line \in AnyLines,
         NEW marks, marks = Answer!Bullets \cup {"dash"}
  PROVE  Varied(Answer!Anchor(acc, line, marks).out,
                Answer!Anchor(acc, Answer!Shorn(line), marks).out)
<1> DEFINE s == acc.out
           short == Answer!Shorn(line)
           a == Answer!Anchor(acc, line, marks).out
           b == Answer!Anchor(acc, short, marks).out
<1>1. /\ s \in Seq(AnyLines) /\ short \in AnyLines /\ (short = line \/ line.k \in Answer!Unfinished)
      /\ marks \in Marks
  BY ShornInRange DEF Passes, Marks
<1>2. CASE short = line
  BY <1>2 DEF Varied
<1>3. ASSUME NEW p \in Seq(AnyLines), NEW y \in AnyLines, NEW z \in {y, Answer!Shorn(y)},
             a = Append(p, y), b = Append(p, z)
      PROVE  Varied(a, b)
  <2>0. z \in AnyLines
    BY ShornInRange
  <2>1. /\ Len(Append(p, y)) = Len(p) + 1 /\ Append(p, y)[Len(p) + 1] = y
        /\ \A i \in 1..Len(p) : Append(p, y)[i] = p[i]
    BY AppendProperties
  <2>2. /\ Len(Append(p, z)) = Len(p) + 1 /\ Append(p, z)[Len(p) + 1] = z
        /\ \A i \in 1..Len(p) : Append(p, z)[i] = p[i]
    BY <2>0, AppendProperties
  <2>3. Len(p) \in Nat /\ (Len(p) + 1) - 1 = Len(p)
    OBVIOUS
  <2> HIDE DEF a, b
  <2> QED
    BY <1>3, <2>1, <2>2, <2>3 DEF Varied
<1>4. CASE line.k = "num0"
  <2>1. short = [line EXCEPT !.k = "text"] /\ short.k = "text"
    BY <1>4 DEF Answer!Shorn, AnyLines
  <2>2. /\ ~Anchors(acc, line, marks) /\ ~Parts(line, marks)
        /\ ~Anchors(acc, short, marks) /\ ~Parts(short, marks)
    BY <1>4, <2>1 DEF Anchors, Parts, Answer!Bullets
  <2>3. a = Append(s, line)
    BY <1>1, <2>2, AnchorAppends
  <2>4. b = Append(s, short)
    BY <1>1, <2>2, AnchorAppends
  <2> QED
    BY <1>1, <1>3, <2>3, <2>4
<1>5. CASE line.k = "bullet0"
  <2>1. short = [line EXCEPT !.k = "dash"] /\ short.k = "dash"
    BY <1>5 DEF Answer!Shorn, AnyLines
  <2>2. /\ ~Parts(line, marks) /\ ~Parts(short, marks)
        /\ Anchors(acc, line, marks) <=> Anchors(acc, short, marks)
    BY <1>5, <2>1 DEF Anchors, Parts, Answer!Bullets
  <2>3. CASE ~Anchors(acc, line, marks)
    <3>1. a = Append(s, line)
      BY <1>1, <2>2, <2>3, AnchorAppends
    <3>2. b = Append(s, short)
      BY <1>1, <2>2, <2>3, AnchorAppends
    <3> QED
      BY <1>1, <1>3, <3>1, <3>2
  <2>4. CASE Anchors(acc, line, marks)
    <3> DEFINE stem == Answer!Stem(s)
               p == Append(Answer!Front(stem), Answer!Shorn(Answer!Last(stem)))
               y == Answer!LineOf("bullet0")
               z == Answer!LineOf("dash")
    <3>1. a = Anchored(stem, line)
      BY <1>1, <2>4, AnchorAnchors
    <3>2. b = Anchored(stem, short)
      BY <1>1, <2>2, <2>4, AnchorAnchors
    <3>3. a = Append(p, y) /\ b = Append(p, z)
      BY <1>5, <2>1, <3>1, <3>2 DEF Anchored
    <3>4. p \in Seq(AnyLines)
      <4>1. stem \in Seq(AnyLines) /\ stem # <<>>
        BY <1>1, <2>4, StemIs DEF Anchors
      <4>2. Answer!Front(stem) \in Seq(AnyLines) /\ Answer!Last(stem) \in AnyLines
        BY <4>1, FrontIs
      <4>3. Answer!Shorn(Answer!Last(stem)) \in AnyLines
        BY <4>2, ShornInRange
      <4> QED
        BY <4>2, <4>3, AppendProperties
    <3>5. y \in AnyLines /\ z \in {y, Answer!Shorn(y)}
      BY DEF AnyLines, Answer!LineOf, Answer!Shorn, Answer!Kinds
    <3> HIDE DEF p, y, z, a, b
    <3>6. Varied(a, b)
      BY <1>3, <3>3, <3>4, <3>5
    <3> QED
      BY <3>6 DEF a, b
  <2> QED
    BY <2>3, <2>4
<1>6. short = line \/ line.k = "num0" \/ line.k = "bullet0"
  BY <1>1 DEF Answer!Unfinished
<1> QED
  BY <1>2, <1>4, <1>5, <1>6

\* The first pass of one line more, and what the second one makes of it.
LEMMA NormalizeGrows ==
  ASSUME NEW lines \in Seq(AnyLines), NEW x \in AnyLines
  PROVE  Grown(Answer!Normalize(lines), Answer!Normalize(Append(lines, x)))
<1> DEFINE more == Append(lines, x)
           nums == Answer!Numbers
           dots == Answer!Bullets \cup {"dash"}
           once == Answer!Pass(lines, nums)
           onceMore == Answer!Pass(more, nums)
           n == Answer!Pass(once, dots)
           m == Answer!Pass(onceMore, dots)
           N == Len(lines)
           K == Len(once)
<1>1. /\ more \in Seq(AnyLines) /\ Len(more) = N + 1 /\ more[N + 1] = x
      /\ \A i \in 1..N : more[i] = lines[i]
  BY AppendProperties
<1>2. nums \in Marks /\ dots \in Marks
  BY DEF Marks
<1>3. PICK f : Run(f, lines, nums) /\ once = f[N].out
  BY <1>2, PassRuns
<1>4. PICK g : Run(g, more, nums) /\ onceMore = g[N + 1].out
  BY <1>1, <1>2, PassRuns
<1>5. f[N] = g[N]
  <2>1. N \in Nat /\ N <= N /\ N <= N + 1 /\ N + 1 \in Nat
    OBVIOUS
  <2> HIDE DEF more, nums, N
  <2> QED
    BY <1>1, <1>3, <1>4, <2>1, RunsAgree DEF N
<1> DEFINE acc == f[N]
<1>6. g[N + 1] = Answer!Anchor(acc, x, nums) /\ acc \in Passes /\ g[N + 1] \in Passes
  <2>1. N + 1 \in 1..(N + 1) /\ (N + 1) - 1 = N /\ N \in 0..N /\ N + 1 \in 0..(N + 1)
    OBVIOUS
  <2> HIDE DEF more, nums
  <2> QED
    BY <1>1, <1>3, <1>4, <1>5, <2>1 DEF Run
<1>7. once \in Seq(AnyLines) /\ onceMore \in Seq(AnyLines) /\ K \in Nat
  BY <1>3, <1>4, <1>6 DEF Passes
<1>8. PICK h : Run(h, once, dots) /\ n = h[K].out
  BY <1>2, <1>7, PassRuns
<1>9. PICK e : Run(e, onceMore, dots) /\ m = e[Len(onceMore)].out
  BY <1>2, <1>7, PassRuns
<1>10. ~Parts(x, nums)
  BY DEF Parts, Answer!Numbers
<1>11. CASE ~Anchors(acc, x, nums)
  <2>1. onceMore = Append(once, x)
    BY <1>2, <1>3, <1>4, <1>6, <1>10, <1>11, AnchorAppends
  <2>2. /\ Len(onceMore) = K + 1 /\ onceMore[K + 1] = x
        /\ \A i \in 1..K : onceMore[i] = once[i]
    BY <1>7, <2>1, AppendProperties
  <2> HIDE DEF once, onceMore, n, m, dots, K
  <2>3. h[K] = e[K] /\ h[K] \in Passes
    <3>1. K \in Nat /\ K <= K /\ K <= K + 1 /\ K + 1 \in Nat /\ K \in 0..K
      BY <1>7
    <3>2. h[K] \in Passes
      BY <1>8, <3>1 DEF Run, K
    <3>3. \A i \in 1..K : once[i] = onceMore[i]
      BY <2>2
    <3>4. h[K] = e[K]
      BY <1>8, <1>9, <2>2, <3>1, <3>3, RunsAgree DEF K
    <3> QED
      BY <3>2, <3>4
  <2>4. e[K + 1] = Answer!Anchor(h[K], x, dots)
    <3>1. K + 1 \in 1..(K + 1) /\ (K + 1) - 1 = K
      BY <1>7
    <3> QED
      BY <1>9, <2>2, <2>3, <3>1 DEF Run
  <2>5. m = Answer!Anchor(h[K], x, dots).out
    BY <1>9, <2>2, <2>4
  <2>6. Grown(h[K].out, Answer!Anchor(h[K], x, dots).out)
    BY <1>2, <2>3, AnchorGrows
  <2>7. Grown(n, m)
    BY <1>8, <2>5, <2>6
  <2> QED
    BY <2>7 DEF n, m, once, onceMore, dots, Answer!Normalize
<1>12. CASE Anchors(acc, x, nums)
  <2> DEFINE stem == Answer!Stem(once)
             k == Len(stem)
             last1 == stem[k]
             y == Answer!LineOf(x.k)
  <2>1. /\ onceMore = Anchored(stem, x) /\ stem # <<>> /\ x.k \in nums
        /\ stem \in Seq(AnyLines) /\ k \in Nat /\ k <= K
        /\ \A i \in 1..k : stem[i] = once[i]
        /\ \A i \in (k + 1)..K : once[i].k = "blank"
        /\ k > 0 => once[k].k # "blank"
    <3>1. onceMore = Anchored(stem, x)
      BY <1>2, <1>3, <1>4, <1>6, <1>12, AnchorAnchors
    <3>2. stem # <<>> /\ x.k \in nums
      BY <1>3, <1>12 DEF Anchors
    <3> QED
      BY <1>7, <3>1, <3>2, StemIs
  <2> HIDE DEF stem
  <2>2. /\ k > 0 /\ k \in 1..k /\ last1 \in AnyLines /\ last1 = once[k] /\ last1.k # "blank"
    <3>1. k > 0
      BY <2>1, EmptySeq
    <3>2. k \in 1..k
      BY <2>1, <3>1
    <3> QED
      BY <2>1, <3>1, <3>2
  <2>3. /\ Len(onceMore) = k + 1 /\ onceMore[k + 1] = y /\ onceMore[k] = Answer!Shorn(last1)
        /\ \A i \in 1..(k - 1) : onceMore[i] = once[i]
    <3>1. /\ Len(Anchored(stem, x)) = k + 1
          /\ \A i \in 1..(k - 1) : Anchored(stem, x)[i] = stem[i]
          /\ Anchored(stem, x)[k] = Answer!Shorn(stem[k])
          /\ Anchored(stem, x)[k + 1] = Answer!LineOf(x.k)
      BY <2>1, AnchoredIs
    <3>2. \A i \in 1..(k - 1) : i \in 1..k
      BY <2>1
    <3> QED
      BY <2>1, <3>1, <3>2
  <2>4. y \in AnyLines /\ ~Anchors(e[k], y, dots) /\ ~Parts(y, dots)
    <3>1. y.k = x.k
      BY DEF Answer!LineOf
    <3>2. x.k # "mid" /\ x.k \notin dots
      BY <2>1 DEF Answer!Numbers, Answer!Bullets
    <3>3. y \in AnyLines
      BY DEF AnyLines, Answer!LineOf
    <3> HIDE DEF y, dots
    <3> QED
      BY <3>1, <3>2, <3>3 DEF Anchors, Parts
  <2> HIDE DEF once, onceMore, n, m, K, k, last1, y
  <2>5. h[k - 1] = e[k - 1] /\ h[k - 1] \in Passes
    <3>1. /\ k - 1 \in Nat /\ k - 1 <= K /\ k - 1 <= k + 1 /\ k + 1 \in Nat /\ k - 1 \in 0..K
          /\ \A i \in 1..(k - 1) : once[i] = onceMore[i]
      BY <1>7, <2>1, <2>2, <2>3
    <3> HIDE DEF dots
    <3>2. h[k - 1] \in Passes
      BY <1>8, <3>1 DEF Run, K
    <3>3. h[k - 1] = e[k - 1]
      BY <1>7, <1>8, <1>9, <2>3, <3>1, RunsAgree DEF K
    <3> QED
      BY <3>2, <3>3
  <2>6. /\ h[k] = Answer!Anchor(h[k - 1], last1, dots)
        /\ e[k] = Answer!Anchor(h[k - 1], Answer!Shorn(last1), dots)
        /\ e[k + 1] = Answer!Anchor(e[k], y, dots)
        /\ h[k] \in Passes /\ e[k] \in Passes
    <3>1. /\ k \in 1..K /\ k \in 1..(k + 1) /\ k + 1 \in 1..(k + 1) /\ (k + 1) - 1 = k
          /\ k \in 0..K /\ k \in 0..(k + 1)
      <4>1. k \in Nat /\ k > 0 /\ k <= K /\ K \in Nat
        BY <1>7, <2>1, <2>2
      <4> QED
        BY <4>1
    <3> HIDE DEF dots
    <3>2. h[k] = Answer!Anchor(h[k - 1], last1, dots) /\ h[k] \in Passes
      BY <1>8, <2>2, <3>1 DEF Run, K
    <3>3. e[k] = Answer!Anchor(e[k - 1], Answer!Shorn(last1), dots) /\ e[k] \in Passes
      BY <1>9, <2>3, <3>1 DEF Run
    <3>4. e[k + 1] = Answer!Anchor(e[k], y, dots)
      BY <1>9, <2>3, <3>1 DEF Run
    <3> QED
      BY <2>5, <3>2, <3>3, <3>4
  <2> DEFINE a == h[k].out
             b == e[k].out
             p == Len(a)
  <2>7. m = Append(b, y)
    <3>1. e[k + 1].out = Append(e[k].out, y)
      BY <1>2, <2>4, <2>6, AnchorAppends
    <3> QED
      BY <1>9, <2>3, <3>1
  <2>8. a \in Seq(AnyLines) /\ b \in Seq(AnyLines) /\ p > 0 /\ a[p].k # "blank" /\ p \in Nat
    <3>1. LET out == Answer!Anchor(h[k - 1], last1, dots).out
          IN  out \in Seq(AnyLines) /\ Len(out) > 0 /\ out[Len(out)].k # "blank"
      BY <1>2, <2>2, <2>5, AnchorEnds
    <3> QED
      BY <2>6, <3>1 DEF Passes
  <2>9. Varied(a, b)
    <3>1. Varied(Answer!Anchor(h[k - 1], last1, dots).out,
                 Answer!Anchor(h[k - 1], Answer!Shorn(last1), dots).out)
      BY <2>2, <2>5, ShornVaries
    <3> QED
      BY <2>6, <3>1
  <2>10. Padded(a, n)
    <3>1. Padded(h[k].out, h[Len(once)].out)
      <4>1. once \in Seq(AnyLines) /\ k <= Len(once) /\ k \in Nat
            /\ \A i \in (k + 1)..Len(once) : once[i].k = "blank"
        BY <1>7, <2>1 DEF K
      <4> HIDE DEF dots
      <4> QED
        BY <1>2, <1>8, <4>1, BlanksPad
    <3> QED
      BY <1>8, <3>1 DEF K
  <2>11. n \in Seq(AnyLines)
    BY <1>7, <1>8 DEF Run, Passes, K
  <2> HIDE DEF a, b
  <2>12. Len(Answer!Stem(n)) = p
    <3>1. /\ p \in Nat /\ p <= Len(n) /\ (p > 0 => n[p].k # "blank")
          /\ \A j \in (p + 1)..Len(n) : n[j].k = "blank"
      <4>1. p \in 1..p
        BY <2>8
      <4> QED
        BY <2>8, <2>10, <4>1 DEF Padded
    <3> HIDE DEF p
    <3> QED
      BY <2>11, <3>1, StemLength
  <2>13. /\ Len(m) = p + 1 /\ \A j \in 1..p : m[j] = b[j]
    <3>1. Len(b) = p
      BY <2>9 DEF Varied
    <3>2. /\ Len(Append(b, y)) = Len(b) + 1 /\ \A i \in 1..Len(b) : Append(b, y)[i] = b[i]
      BY <2>4, <2>8, AppendProperties
    <3> QED
      BY <2>7, <3>1, <3>2
  <2>14. Grown(n, m)
    <3>1. \A j \in 1..(p - 1) : m[j] = n[j]
      <4>1. \A j \in 1..(p - 1) : j \in 1..p
        BY <2>8
      <4> QED
        BY <2>9, <2>10, <2>13, <4>1 DEF Varied, Padded
    <3>2. m[p] \in {n[p], Answer!Shorn(n[p])}
      <4>1. p \in 1..p
        BY <2>8
      <4> QED
        BY <2>9, <2>10, <2>13, <4>1 DEF Varied, Padded
    <3>3. p <= Len(m)
      BY <2>8, <2>13
    <3> HIDE DEF p
    <3> QED
      BY <2>12, <3>1, <3>2, <3>3 DEF Grown
  <2> QED
    BY <2>14 DEF n, m, once, onceMore, Answer!Normalize
<1> QED
  BY <1>11, <1>12

-----------------------------------------------------------------------------
(* A block that is followed by another one stays.                            *)

\* Nothing before q in T, and q in T: q is the first.
LEMMA FirstInUnique ==
  ASSUME NEW L \in Nat, NEW i \in Nat, NEW q \in i..L, NEW T \in SUBSET (i..L),
         q \in T, \A j \in i..L : j < q => j \notin T
  PROVE  FirstIn(T, L) = q
<1>1. i <= L + 1 /\ q \in Nat /\ q <= L
  OBVIOUS
<1>2. /\ FirstIn(T, L) \in i..(L + 1) /\ (FirstIn(T, L) = L + 1 \/ FirstIn(T, L) \in T)
      /\ \A j \in i..L : j < FirstIn(T, L) => j \notin T
  BY <1>1, FirstInIs
<1> DEFINE x == FirstIn(T, L)
<1> HIDE DEF x
<1>3. /\ x \in i..(L + 1) /\ (x = L + 1 \/ x \in T) /\ \A j \in i..L : j < x => j \notin T
  BY <1>2 DEF x
<1>4. ~(q < x)
  BY <1>3
<1>5. ~(x < q)
  BY <1>1, <1>3
<1>6. x = q
  BY <1>1, <1>3, <1>4, <1>5
<1> QED
  BY <1>6 DEF x

\* What an unfinished item is without its space.
LEMMA ShornKind ==
  ASSUME NEW line \in AnyLines, Answer!Shorn(line) # line
  PROVE  line.k \in Answer!Unfinished /\ Answer!Shorn(line).k \in {"text", "dash"}
<1>1. line.k = "num0" \/ line.k = "bullet0"
  BY DEF Answer!Shorn
<1> QED
  BY <1>1 DEF Answer!Shorn, Answer!Unfinished, AnyLines

\* The first m lines of n, the last of which may have lost its space in more.
Same(n, more, m) ==
  /\ m \in 1..Len(n) /\ m <= Len(more) /\ ~Answer!Blank(n[m])
  /\ \A j \in (m + 1)..Len(n) : Answer!Blank(n[j])
  /\ \A j \in 1..(m - 1) : more[j] = n[j]
  /\ \/ more[m] = n[m]
     \/ n[m].k \in Answer!Unfinished /\ more[m].k \in {"text", "dash"}

\* What one more line leaves alone.
LEMMA GrownIsSame ==
  ASSUME NEW n \in Seq(AnyLines), NEW more \in Seq(AnyLines), Grown(n, more),
         Len(Answer!Stem(n)) # 0
  PROVE  Same(n, more, Len(Answer!Stem(n)))
<1> DEFINE m == Len(Answer!Stem(n))
<1>1. /\ m \in Nat /\ m <= Len(n) /\ \A i \in (m + 1)..Len(n) : n[i].k = "blank"
      /\ m > 0 => n[m].k # "blank"
  BY StemIs
<1>2. m > 0 /\ m \in 1..Len(n)
  <2> HIDE DEF m
  <2> QED
    BY <1>1 DEF m
<1>3. /\ m <= Len(more) /\ \A j \in 1..(m - 1) : more[j] = n[j]
      /\ more[m] = n[m] \/ more[m] = Answer!Shorn(n[m])
  BY <1>2 DEF Grown
<1>4. n[m] \in AnyLines
  BY <1>2
<1> HIDE DEF m
<1>5. more[m] = n[m] \/ (n[m].k \in Answer!Unfinished /\ more[m].k \in {"text", "dash"})
  BY <1>3, <1>4, ShornKind
<1>6. Same(n, more, m)
  BY <1>1, <1>2, <1>3, <1>5 DEF Same, Answer!Blank
<1> QED
  BY <1>6 DEF m

\* What a line of the first m says is the same, but for the last one.
LEMMA SameLines ==
  ASSUME NEW n \in Seq(AnyLines), NEW more \in Seq(AnyLines), NEW m, Same(n, more, m),
         NEW j \in 1..m
  PROVE  /\ j \in 1..Len(n) /\ j \in 1..Len(more) /\ n[j] \in AnyLines /\ more[j] \in AnyLines
         /\ Answer!Blank(n[j]) <=> Answer!Blank(more[j])
         /\ Answer!Blank(n[j]) => j < m
         /\ j < m => more[j] = n[j]
<1>1. m \in Nat /\ m <= Len(n) /\ m <= Len(more) /\ Len(n) \in Nat /\ Len(more) \in Nat
  BY DEF Same
<1>2. j \in 1..Len(n) /\ j \in 1..Len(more) /\ (j < m => j \in 1..(m - 1)) /\ (~(j < m) => j = m)
  BY <1>1
<1>3. j < m => more[j] = n[j]
  BY <1>2 DEF Same
<1>4. ~(j < m) => ~Answer!Blank(n[j]) /\ ~Answer!Blank(more[j])
  BY <1>2 DEF Same, Answer!Blank
<1> QED
  BY <1>2, <1>3, <1>4

NextLine(n, j) == FirstIn({k \in j..Len(n) : ~Answer!Blank(n[k])}, Len(n))

\* Continues, with the next line that is not blank by its name.
LEMMA ContinuesIs ==
  ASSUME NEW n, NEW i, NEW j
  PROVE  Answer!Continues(n, i, j) <=>
           \/ Answer!AtMargin(n[j], Answer!Numbers)
           \/ j > i /\ n[j].k \in Answer!Bullets /\ n[j].indent
           \/ /\ Answer!Blank(n[j]) /\ NextLine(n, j) <= Len(n)
              /\ Answer!AtMargin(n[NextLine(n, j)], Answer!Numbers)
<1>1. Answer!FirstFrom(n, j, LAMBDA k : ~Answer!Blank(n[k])) = NextLine(n, j)
  BY DEF Answer!FirstFrom, NextLine, FirstIn
<1> QED
  BY <1>1 DEF Answer!Continues

\* The next line that is not blank stays the next one.
LEMMA NextStays ==
  ASSUME NEW n \in Seq(AnyLines), NEW more \in Seq(AnyLines), NEW m, Same(n, more, m),
         NEW j \in 1..m
  PROVE  /\ NextLine(n, j) \in j..m /\ NextLine(more, j) = NextLine(n, j)
         /\ ~Answer!Blank(n[NextLine(n, j)])
         /\ \A k \in j..m : k < NextLine(n, j) => Answer!Blank(n[k])
<1> DEFINE q == NextLine(n, j)
           T == {k \in j..Len(n) : ~Answer!Blank(n[k])}
           U == {k \in j..Len(more) : ~Answer!Blank(more[k])}
<1>1. /\ m \in Nat /\ m <= Len(n) /\ m <= Len(more) /\ Len(n) \in Nat /\ Len(more) \in Nat
      /\ j \in Nat /\ 1 <= j /\ j <= m /\ ~Answer!Blank(n[m])
  BY DEF Same
<1>2. /\ q \in j..(Len(n) + 1) /\ (q = Len(n) + 1 \/ q \in T)
      /\ \A k \in j..Len(n) : k < q => k \notin T
  <2>1. j <= Len(n) + 1 /\ T \in SUBSET (j..Len(n))
    BY <1>1
  <2>2. q = FirstIn(T, Len(n))
    BY DEF NextLine
  <2> HIDE DEF T
  <2> QED
    BY <1>1, <2>1, <2>2, FirstInIs
<1> HIDE DEF q
<1>3. q <= m
  <2> SUFFICES ASSUME ~(q <= m) PROVE FALSE
    OBVIOUS
  <2>1. m \in j..Len(n) /\ m < q
    BY <1>1, <1>2
  <2>2. m \in T
    BY <1>1, <2>1
  <2> QED
    BY <1>2, <2>1, <2>2
<1>4. q \in j..m /\ q \in T /\ \A k \in j..m : k < q => Answer!Blank(n[k])
  <2>1. q \in j..m /\ q # Len(n) + 1
    BY <1>1, <1>2, <1>3
  <2>2. \A k \in j..m : k \in j..Len(n)
    BY <1>1
  <2> QED
    BY <1>2, <2>1, <2>2
<1>5. q \in U /\ \A k \in j..Len(more) : k < q => k \notin U
  <2>1. \A k \in j..m : k \in 1..m /\ k \in j..Len(more)
    BY <1>1
  <2>2. \A k \in j..m : Answer!Blank(n[k]) <=> Answer!Blank(more[k])
    BY <2>1, SameLines
  <2>3. \A k \in j..Len(more) : k < q => k \in j..m
    BY <1>1, <1>4
  <2> QED
    BY <1>4, <2>1, <2>2, <2>3
<1>6. NextLine(more, j) = q
  <2>1. FirstIn(U, Len(more)) = q
    <3>1. U \in SUBSET (j..Len(more)) /\ q \in j..Len(more)
      BY <1>5
    <3> HIDE DEF U
    <3> QED
      BY <1>1, <1>5, <3>1, FirstInUnique
  <2> QED
    BY <2>1 DEF NextLine
<1> QED
  BY <1>4, <1>6 DEF q

\* The list that ends before the last line of n ends there with more lines, too.
LEMMA ListStays ==
  ASSUME NEW n \in Seq(AnyLines), NEW more \in Seq(AnyLines), NEW m, Same(n, more, m),
         NEW i \in 1..m, NEW a \in 1..m, i < a,
         ~Answer!Continues(n, i, a), \A j \in i..(a - 1) : Answer!Continues(n, i, j)
  PROVE  /\ ~Answer!Continues(more, i, a)
         /\ \A j \in i..(a - 1) : Answer!Continues(more, i, j)
<1>1. /\ m \in Nat /\ m <= Len(n) /\ m <= Len(more) /\ Len(n) \in Nat /\ Len(more) \in Nat
      /\ i \in Nat /\ a \in Nat /\ 1 <= i /\ i < a /\ a <= m /\ m \in 1..m /\ m \in 1..Len(n)
  BY DEF Same
<1>2. \/ more[m] = n[m]
      \/ n[m].k \in Answer!Unfinished /\ more[m].k \in {"text", "dash"}
  BY DEF Same
<1>3. Answer!AtMargin(more[m], Answer!Numbers) => more[m] = n[m]
  BY <1>2 DEF Answer!AtMargin, Answer!Numbers
<1>4. ~Answer!Continues(more, i, a)
  <2> SUFFICES ASSUME Answer!Continues(more, i, a) PROVE FALSE
    OBVIOUS
  <2> DEFINE q == NextLine(n, a)
  <2>1. /\ q \in a..m /\ NextLine(more, a) = q
        /\ a < m => more[a] = n[a]
        /\ Answer!Blank(n[a]) <=> Answer!Blank(more[a])
        /\ ~(a < m) => a = m
    BY <1>1, NextStays, SameLines
  <2>2. ~Answer!AtMargin(more[a], Answer!Numbers)
    BY <1>3, <2>1, ContinuesIs
  <2>3. ~(a > i /\ more[a].k \in Answer!Bullets /\ more[a].indent)
    <3>1. ~(a > i /\ n[a].k \in Answer!Bullets /\ n[a].indent)
      BY ContinuesIs
    <3>2. more[a] = n[a] \/ more[a].k \in {"text", "dash"}
      BY <1>2, <2>1
    <3> QED
      BY <3>1, <3>2 DEF Answer!Bullets
  <2>4. Answer!Blank(more[a]) /\ Answer!AtMargin(more[q], Answer!Numbers)
    BY <2>1, <2>2, <2>3, ContinuesIs
  <2>5. ~Answer!AtMargin(n[q], Answer!Numbers)
    <3>1. q <= Len(n)
      BY <1>1, <2>1
    <3> QED
      BY <2>1, <2>4, <3>1, ContinuesIs
  <2>6. q < m => more[q] = n[q]
    <3>1. q \in 1..m
      BY <1>1, <2>1
    <3> QED
      BY <3>1, SameLines
  <2>7. ~(q < m) => q = m
    BY <1>1, <2>1
  <2> QED
    BY <1>3, <2>4, <2>5, <2>6, <2>7
<1>5. ASSUME NEW j \in i..(a - 1) PROVE Answer!Continues(more, i, j)
  <2> DEFINE q == NextLine(n, j)
  <2>1. j \in 1..m /\ j < m /\ j < a /\ j \in Nat
    BY <1>1
  <2>2. /\ q \in j..m /\ NextLine(more, j) = q /\ more[j] = n[j]
        /\ \A k \in j..m : k < q => Answer!Blank(n[k])
    BY <2>1, NextStays, SameLines
  <2>3. Answer!Continues(n, i, j)
    OBVIOUS
  <2>4. CASE \/ Answer!AtMargin(n[j], Answer!Numbers)
             \/ j > i /\ n[j].k \in Answer!Bullets /\ n[j].indent
    BY <2>2, <2>4, ContinuesIs
  <2>5. CASE /\ Answer!Blank(n[j]) /\ q <= Len(n)
             /\ Answer!AtMargin(n[q], Answer!Numbers)
    <3>1. q <= Len(more) /\ q \in 1..m
      BY <1>1, <2>1, <2>2
    <3>2. CASE q < m
      <4>1. more[q] = n[q]
        BY <3>1, <3>2, SameLines
      <4> QED
        BY <2>2, <2>5, <3>1, <4>1, ContinuesIs
    <3>3. CASE ~(q < m)
      <4>0. q = m
        BY <1>1, <3>1, <3>3
      <4>1. CASE a = m
        BY <2>5, <4>0, <4>1, ContinuesIs
      <4>2. CASE a # m
        <5>1. a \in j..m /\ a < m /\ a \in 1..m
          BY <1>1, <2>1, <4>2
        <5>2. Answer!Blank(n[a])
          BY <2>2, <4>0, <5>1
        <5>3. NextLine(n, a) \in a..m /\ ~Answer!Blank(n[NextLine(n, a)])
          BY <5>1, NextStays
        <5>4. NextLine(n, a) = m
          <6> DEFINE r == NextLine(n, a)
          <6> HIDE DEF r
          <6>1. r \in a..m /\ ~Answer!Blank(n[r])
            BY <5>3 DEF r
          <6>2. r \in j..m /\ ~(r < m)
            BY <1>1, <2>1, <2>2, <4>0, <6>1
          <6>3. r = m
            BY <1>1, <6>1, <6>2
          <6> QED
            BY <6>3 DEF r
        <5> QED
          BY <1>1, <2>5, <4>0, <5>2, <5>4, ContinuesIs
      <4> QED
        BY <4>1, <4>2
    <3> QED
      BY <3>2, <3>3
  <2> QED
    BY <2>3, <2>4, <2>5, ContinuesIs
<1> QED
  BY <1>4, <1>5

\* A block ends where it did if another one that does not hang follows.
LEMMA AfterStays ==
  ASSUME NEW n \in Seq(AnyLines), NEW more \in Seq(AnyLines), NEW m, Same(n, more, m),
         NEW i \in 1..m, ~Answer!Blank(n[i]), Answer!After(n, i) # i, Answer!After(n, i) <= m,
         LET a == Answer!After(n, i) IN Answer!Blank(n[a]) \/ Answer!After(n, a) # a
  PROVE  i < m /\ Answer!After(more, i) = Answer!After(n, i)
<1> DEFINE a == Answer!After(n, i)
<1>1. /\ m \in Nat /\ m <= Len(n) /\ m <= Len(more) /\ Len(n) \in Nat /\ Len(more) \in Nat
      /\ i \in Nat /\ 1 <= i /\ i <= m /\ i \in 1..Len(n)
  BY DEF Same
<1>2. a \in Nat /\ i < a /\ a <= m
  <2>1. a \in i..(Len(n) + 2) /\ a # i
    BY <1>1, AfterInRange
  <2> HIDE DEF a
  <2> QED
    BY <1>1, <2>1 DEF a
<1>3. i < m /\ more[i] = n[i]
  <2>1. i < m
    <3> HIDE DEF a
    <3> QED
      BY <1>1, <1>2
  <2> QED
    BY <2>1, SameLines
<1>4. (IsFence(more, i) <=> IsFence(n, i)) /\ (IsHead(more, i) <=> IsHead(n, i))
  BY <1>3 DEF IsFence, IsHead
<1>5. ASSUME NEW j \in 1..m, j < m PROVE more[j] = n[j]
  BY <1>5, SameLines
<1>6. CASE IsFence(n, i)
  <2> DEFINE q == FirstIn(Fencing(n, i), Len(n))
  <2>1. a = q + 1
    BY <1>6, AfterIs
  <2>2. /\ q \in (i + 1)..(Len(n) + 1) /\ (q = Len(n) + 1 \/ q \in Fencing(n, i))
        /\ \A j \in (i + 1)..Len(n) : j < q => j \notin Fencing(n, i)
    <3>1. Fencing(n, i) \in SUBSET ((i + 1)..Len(n)) /\ i + 1 \in Nat /\ i + 1 <= Len(n) + 1
      BY <1>1 DEF Fencing
    <3> QED
      BY <1>1, <3>1, FirstInIs
  <2> HIDE DEF q, a
  <2>3. q < m /\ q \in 1..m /\ q \in Nat /\ q # Len(n) + 1 /\ q \in (i + 1)..Len(more)
    BY <1>1, <1>2, <2>1, <2>2
  <2>4. q \in Fencing(more, i)
    BY <1>5, <2>2, <2>3 DEF Fencing
  <2>5. \A j \in (i + 1)..Len(more) : j < q => j \notin Fencing(more, i)
    <3> SUFFICES ASSUME NEW j \in (i + 1)..Len(more), j < q PROVE j \notin Fencing(more, i)
      OBVIOUS
    <3>1. j \in 1..m /\ j < m /\ j \in (i + 1)..Len(n)
      BY <1>1, <2>3
    <3> QED
      BY <1>5, <2>2, <3>1 DEF Fencing
  <2>6. FirstIn(Fencing(more, i), Len(more)) = q
    <3>1. Fencing(more, i) \in SUBSET ((i + 1)..Len(more)) /\ i + 1 \in Nat
      BY <1>1 DEF Fencing
    <3> QED
      BY <1>1, <2>3, <2>4, <2>5, <3>1, FirstInUnique
  <2>7. Answer!After(more, i) = q + 1
    BY <1>4, <1>6, <2>6, AfterIs
  <2> QED
    BY <1>3, <2>1, <2>7 DEF a
<1>7. CASE ~IsFence(n, i) /\ IsHead(n, i)
  BY <1>3, <1>4, <1>7, AfterIs
<1>8. CASE ~IsFence(n, i) /\ ~IsHead(n, i)
  <2>1. a = FirstIn(Stopping(n, i), Len(n))
    BY <1>8, AfterIs
  <2>2. /\ a = Len(n) + 1 \/ a \in Stopping(n, i)
        /\ \A j \in i..Len(n) : j < a => j \notin Stopping(n, i)
    <3>1. Stopping(n, i) \in SUBSET (i..Len(n)) /\ i <= Len(n) + 1
      BY <1>1 DEF Stopping
    <3> QED
      BY <1>1, <2>1, <3>1, FirstInIs
  <2>3. Answer!Blank(n[a]) \/ Answer!After(n, a) # a
    OBVIOUS
  <2> HIDE DEF a
  <2>4. a \in i..Len(n) /\ a \in 1..m /\ a # Len(n) + 1 /\ a \in i..Len(more) /\ a \in 1..Len(n)
    BY <1>1, <1>2
  <2>5. Stops(n, i, a)
    BY <2>2, <2>4 DEF Stopping
  <2>6. ASSUME NEW j \in i..(a - 1) PROVE ~Stops(n, i, j) /\ j \in 1..m /\ j < m
    <3>1. j \in i..Len(n) /\ j < a /\ j \in 1..m /\ j < m
      BY <1>1, <1>2
    <3> QED
      BY <2>2, <3>1 DEF Stopping
  <2>7. Stops(more, i, a) /\ \A j \in i..(a - 1) : ~Stops(more, i, j)
    <3>1. CASE n[i].k = "num"
      <4>1. ~Answer!Continues(n, i, a) /\ \A j \in i..(a - 1) : Answer!Continues(n, i, j)
        BY <2>5, <2>6, <3>1 DEF Stops
      <4>2. ~Answer!Continues(more, i, a) /\ \A j \in i..(a - 1) : Answer!Continues(more, i, j)
        BY <1>2, <2>4, <4>1, ListStays
      <4> QED
        BY <1>3, <3>1, <4>2 DEF Stops
    <3>2. CASE n[i].k # "num"
      <4>1. \A j \in i..(a - 1) : ~Stops(more, i, j)
        BY <1>3, <1>5, <2>6, <3>2 DEF Stops
      <4>2. CASE more[a] = n[a]
        BY <1>3, <2>5, <3>2, <4>1, <4>2 DEF Stops
      <4>3. CASE more[a] # n[a]
        <5>1. a = m
          BY <1>1, <1>2, <1>5, <2>4, <4>3
        <5>2. n[a].k \in Answer!Unfinished /\ more[a].k \in {"text", "dash"}
          BY <4>3, <5>1 DEF Same
        <5>3. CASE n[i].k = "bullet"
          BY <1>3, <4>1, <5>2, <5>3 DEF Stops
        <5>4. CASE n[i].k # "bullet"
          <6>1. Answer!EndsParagraph(n[a])
            BY <2>5, <3>2, <5>4 DEF Stops
          <6>2. ~IsFence(n, a) /\ ~IsHead(n, a) /\ n[a].k # "num" /\ n[a].k # "bullet" /\ ~Answer!Blank(n[a])
            BY <5>2 DEF IsFence, IsHead, Answer!Fences, Answer!AtMargin, Answer!Unfinished, Answer!Blank
          <6>3. Answer!After(n, a) = FirstIn(Stopping(n, a), Len(n))
            BY <6>2, AfterIs
          <6>4. a \in Stopping(n, a) /\ Stopping(n, a) \in SUBSET (a..Len(n)) /\ a \in a..Len(n)
            BY <1>1, <2>4, <6>1, <6>2 DEF Stopping, Stops
          <6>5. FirstIn(Stopping(n, a), Len(n)) = a
            <7>1. \A j \in a..Len(n) : j < a => j \notin Stopping(n, a)
              BY <1>1, <1>2
            <7> QED
              BY <1>1, <1>2, <6>4, <7>1, FirstInUnique
          <6> QED
            BY <2>3, <6>2, <6>3, <6>5
        <5> QED
          BY <5>3, <5>4
      <4> QED
        BY <4>2, <4>3
    <3> QED
      BY <3>1, <3>2
  <2>8. FirstIn(Stopping(more, i), Len(more)) = a
    <3>1. Stopping(more, i) \in SUBSET (i..Len(more)) /\ a \in Stopping(more, i)
      BY <2>4, <2>7 DEF Stopping
    <3>2. \A j \in i..Len(more) : j < a => j \notin Stopping(more, i)
      <4> SUFFICES ASSUME NEW j \in i..Len(more), j < a PROVE j \notin Stopping(more, i)
        OBVIOUS
      <4>1. j \in i..(a - 1)
        BY <1>1, <1>2
      <4> QED
        BY <2>7, <4>1 DEF Stopping
    <3> QED
      BY <1>1, <2>4, <3>1, <3>2, FirstInUnique
  <2> QED
    BY <1>3, <1>4, <1>8, <2>8, AfterIs DEF a
<1> QED
  BY <1>6, <1>7, <1>8

Kept(s, t) == \A j \in 1..(Len(s) - 1) : j <= Len(t) /\ t[j] = s[j]
NoHang(s) == \A j \in 1..Len(s) : s[j] # Answer!Hang

\* Lines that are the same make the same block.
LEMMA SubSeqSame ==
  ASSUME NEW s \in Seq(AnyLines), NEW t \in Seq(AnyLines), NEW a \in Nat, NEW b \in Nat,
         1 <= a, b <= Len(s), b <= Len(t), \A j \in a..b : s[j] = t[j]
  PROVE  SubSeq(s, a, b) = SubSeq(t, a, b)
<1>1. \A j \in a..b : j \in 1..Len(s) /\ j \in 1..Len(t)
  OBVIOUS
<1>2. \A j \in a..b : s[j] \in AnyLines /\ t[j] \in AnyLines
  <2>1. \A j \in 1..Len(s) : s[j] \in AnyLines
    OBVIOUS
  <2>2. \A j \in 1..Len(t) : t[j] \in AnyLines
    OBVIOUS
  <2> QED
    BY <1>1, <2>1, <2>2
<1> DEFINE u == SubSeq(s, a, b)
           v == SubSeq(t, a, b)
<1>3. /\ u \in Seq(AnyLines) /\ Len(u) = IF a <= b THEN b - a + 1 ELSE 0
      /\ \A i \in 1..(b - a + 1) : u[i] = s[a + i - 1]
  BY <1>2, SubSeqProperties
<1>4. /\ v \in Seq(AnyLines) /\ Len(v) = IF a <= b THEN b - a + 1 ELSE 0
      /\ \A i \in 1..(b - a + 1) : v[i] = t[a + i - 1]
  BY <1>2, SubSeqProperties
<1> HIDE DEF u, v
<1>5. Len(u) = Len(v) /\ \A i \in 1..Len(u) : i \in 1..(b - a + 1)
  BY <1>3, <1>4
<1>6. \A i \in 1..(b - a + 1) : a + i - 1 \in a..b
  OBVIOUS
<1>7. \A i \in 1..Len(u) : u[i] = v[i]
  BY <1>3, <1>4, <1>5, <1>6
<1>8. u = v
  BY <1>3, <1>4, <1>5, <1>7, SeqEqual
<1> QED
  BY <1>8 DEF u, v

\* Nothing comes of blank lines.
LEMMA BlankEnd ==
  ASSUME NEW n \in Seq(AnyLines), NEW f, Parsed(f, n), NEW m \in Nat,
         \A j \in (m + 1)..Len(n) : Answer!Blank(n[j]),
         NEW i \in 1..(Len(n) + 2), i > m
  PROVE  f[i] = <<>>
<1> DEFINE L == Len(n) + 2
           T == {j \in 1..L : j > m => f[j] = <<>>}
<1>1. L \in Nat /\ Len(n) \in Nat
  OBVIOUS
<1>2. ASSUME NEW j \in 1..L, \A k \in (j + 1)..L : k \in T PROVE j \in T
  <2> SUFFICES ASSUME j > m PROVE f[j] = <<>>
    OBVIOUS
  <2>1. f[j] = IF Ended(n, j) THEN Ending(n, j) ELSE Joined(n, j, f[Onwards(n, j)])
    BY DEF Parsed
  <2>2. CASE j > Len(n)
    BY <2>1, <2>2 DEF Ended, Ending
  <2>3. CASE j <= Len(n)
    <3>1. Answer!Blank(n[j])
      BY <1>1, <2>3
    <3>2. f[j] = f[j + 1]
      BY <1>1, <2>1, <2>3, <3>1 DEF Ended, Joined, Onwards
    <3>3. j + 1 \in (j + 1)..L /\ j + 1 > m
      BY <1>1, <2>3
    <3> QED
      BY <1>2, <3>2, <3>3
  <2> QED
    BY <1>1, <2>2, <2>3
<1>3. 1..L \subseteq T
  <2> HIDE DEF T, L
  <2> QED
    BY <1>1, <1>2, Downwards
<1> QED
  BY <1>3

\* A block before other blocks.
LEMMA Prepended ==
  ASSUME NEW p \in BlockValues, NEW s \in Seq(BlockValues)
  PROVE  /\ <<p>> \o s \in Seq(BlockValues) /\ Len(<<p>> \o s) = 1 + Len(s) /\ Len(s) \in Nat
         /\ (<<p>> \o s)[1] = p /\ \A j \in 1..Len(s) : (<<p>> \o s)[j + 1] = s[j]
<1> DEFINE h == <<p>>
<1>1. h \in Seq(BlockValues) /\ Len(h) = 1 /\ h[1] = p /\ Len(s) \in Nat
  OBVIOUS
<1> HIDE DEF h
<1>2. /\ h \o s \in Seq(BlockValues) /\ Len(h \o s) = Len(h) + Len(s)
      /\ \A i \in 1..(Len(h) + Len(s)) :
           (h \o s)[i] = IF i <= Len(h) THEN h[i] ELSE s[i - Len(h)]
  BY <1>1, ConcatProperties
<1>3. ASSUME NEW j \in 1..Len(s) PROVE (h \o s)[j + 1] = s[j]
  <2>1. j + 1 \in 1..(Len(h) + Len(s)) /\ ~(j + 1 <= Len(h)) /\ (j + 1) - Len(h) = j
    BY <1>1
  <2> QED
    BY <1>2, <2>1
<1>4. (h \o s)[1] = p
  <2>1. 1 \in 1..(Len(h) + Len(s)) /\ 1 <= Len(h)
    BY <1>1
  <2> QED
    BY <1>1, <1>2, <2>1
<1>5. /\ h \o s \in Seq(BlockValues) /\ Len(h \o s) = 1 + Len(s) /\ Len(s) \in Nat
      /\ (h \o s)[1] = p /\ \A j \in 1..Len(s) : (h \o s)[j + 1] = s[j]
  BY <1>1, <1>2, <1>3, <1>4
<1> QED
  BY <1>5 DEF h

\* A block more that is kept.
LEMMA KeptPrepended ==
  ASSUME NEW p \in BlockValues, NEW s \in Seq(BlockValues), NEW t \in Seq(BlockValues), Kept(s, t)
  PROVE  Kept(<<p>> \o s, <<p>> \o t)
<1> DEFINE u == <<p>> \o s
           v == <<p>> \o t
<1>1. /\ Len(u) = 1 + Len(s) /\ Len(s) \in Nat
      /\ u[1] = p /\ \A j \in 1..Len(s) : u[j + 1] = s[j]
  BY Prepended
<1>2. /\ Len(v) = 1 + Len(t) /\ Len(t) \in Nat
      /\ v[1] = p /\ \A j \in 1..Len(t) : v[j + 1] = t[j]
  BY Prepended
<1> HIDE DEF u, v
<1>3. ASSUME NEW j \in 1..(Len(u) - 1) PROVE j <= Len(v) /\ v[j] = u[j]
  <2>1. CASE j = 1
    BY <1>1, <1>2, <2>1
  <2>2. CASE j # 1
    <3>1. j - 1 \in 1..(Len(s) - 1) /\ j - 1 \in 1..Len(s) /\ (j - 1) + 1 = j
      BY <1>1, <2>2
    <3>2. j - 1 <= Len(t) /\ t[j - 1] = s[j - 1]
      BY <3>1 DEF Kept
    <3>3. j - 1 \in 1..Len(t) /\ j <= Len(v)
      BY <1>2, <3>1, <3>2
    <3>4. u[(j - 1) + 1] = s[j - 1] /\ v[(j - 1) + 1] = t[j - 1]
      BY <1>1, <1>2, <3>1, <3>3
    <3> QED
      BY <3>1, <3>2, <3>3, <3>4
  <2> QED
    BY <2>1, <2>2
<1>4. Kept(u, v)
  BY <1>3 DEF Kept
<1> QED
  BY <1>4 DEF u, v

\* All blocks but the last are kept.
LEMMA ParseKeeps ==
  ASSUME NEW n \in Seq(AnyLines), NEW more \in Seq(AnyLines), NEW m, Same(n, more, m),
         NEW f, Parsed(f, n), NEW g, Parsed(g, more), NoHang(f[1])
  PROVE  Kept(f[1], g[1])
<1> DEFINE T == {i \in 1..m : NoHang(f[i]) => Kept(f[i], g[i])}
<1>1. /\ m \in Nat /\ m > 0 /\ m <= Len(n) /\ m <= Len(more) /\ Len(n) \in Nat /\ Len(more) \in Nat
      /\ \A j \in (m + 1)..Len(n) : Answer!Blank(n[j])
  BY DEF Same
<1>2. /\ \A i \in 1..(Len(n) + 2) : f[i] \in Seq(BlockValues)
      /\ \A i \in 1..(Len(more) + 2) : g[i] \in Seq(BlockValues)
  BY DEF Parsed
<1>3. ASSUME NEW i \in 1..m, \A j \in (i + 1)..m : j \in T PROVE i \in T
  <2> SUFFICES ASSUME NoHang(f[i]) PROVE Kept(f[i], g[i])
    OBVIOUS
  <2>1. /\ i \in 1..Len(n) /\ i \in 1..(Len(n) + 2) /\ i \in 1..(Len(more) + 2)
        /\ ~(i > Len(n)) /\ ~(i > Len(more))
    BY <1>1
  <2>2. /\ f[i] = IF Ended(n, i) THEN Ending(n, i) ELSE Joined(n, i, f[Onwards(n, i)])
        /\ g[i] = IF Ended(more, i) THEN Ending(more, i) ELSE Joined(more, i, g[Onwards(more, i)])
    BY <2>1 DEF Parsed
  <2>3. /\ Answer!Blank(n[i]) <=> Answer!Blank(more[i])
        /\ Answer!Blank(n[i]) => i < m
    BY SameLines
  <2>4. CASE Answer!Blank(n[i])
    <3>1. f[i] = f[i + 1]
      BY <2>1, <2>2, <2>4 DEF Ended, Joined, Onwards
    <3>2. g[i] = g[i + 1]
      BY <2>1, <2>2, <2>3, <2>4 DEF Ended, Joined, Onwards
    <3>3. i + 1 \in (i + 1)..m
      BY <1>1, <2>3, <2>4
    <3> QED
      BY <1>3, <3>1, <3>2, <3>3
  <2>5. CASE ~Answer!Blank(n[i])
    <3> DEFINE a == Answer!After(n, i)
               p == Piece(n, i)
    <3>1. a # i
      <4> SUFFICES ASSUME a = i PROVE FALSE
        OBVIOUS
      <4>1. f[i] = <<Answer!Hang>>
        BY <2>1, <2>2, <2>5 DEF Ended, Ending
      <4>2. Len(f[i]) = 1 /\ f[i][1] = Answer!Hang
        BY <4>1
      <4> QED
        BY <4>2 DEF NoHang
    <3>2. f[i] = <<p>> \o f[a]
      BY <2>1, <2>2, <2>5, <3>1 DEF Ended, Joined, Onwards
    <3>3. a \in (i + 1)..(Len(n) + 2) /\ a \in 1..(Len(n) + 2) /\ a \in Nat
      <4>1. a \in i..(Len(n) + 2)
        BY <2>1, AfterInRange
      <4> HIDE DEF a
      <4> QED
        BY <1>1, <3>1, <4>1 DEF a
    <3>4. p \in BlockValues /\ f[a] \in Seq(BlockValues)
      BY <1>2, <2>1, <3>1, <3>3, PieceInRange
    <3>5. CASE a > m
      <4>1. f[a] = <<>>
        <5> HIDE DEF a
        <5> QED
          BY <1>1, <3>3, <3>5, BlankEnd
      <4>2. Len(f[i]) = 1
        <5> HIDE DEF p, a
        <5>1. Len(f[i]) = 1 + Len(f[a])
          BY <3>2, <3>4, Prepended
        <5> QED
          BY <4>1, <5>1
      <4> QED
        BY <4>2 DEF Kept
    <3>6. CASE a <= m
      <4>1. a \in (i + 1)..m /\ a \in 1..m /\ a \in 1..(Len(more) + 2) /\ ~(a > Len(n))
        <5> HIDE DEF a
        <5> QED
          BY <1>1, <3>3, <3>6
      <4>2. NoHang(f[a])
        <5> HIDE DEF p, a
        <5>1. /\ Len(f[i]) = 1 + Len(f[a]) /\ Len(f[a]) \in Nat
              /\ \A j \in 1..Len(f[a]) : f[i][j + 1] = f[a][j]
          BY <3>2, <3>4, Prepended
        <5>2. \A j \in 1..Len(f[a]) : j + 1 \in 1..Len(f[i])
          BY <5>1
        <5> QED
          BY <5>1, <5>2 DEF NoHang
      <4>3. Answer!Blank(n[a]) \/ Answer!After(n, a) # a
        <5> SUFFICES ASSUME ~Answer!Blank(n[a]), Answer!After(n, a) = a PROVE FALSE
          OBVIOUS
        <5> HIDE DEF a
        <5>1. f[a] = IF Ended(n, a) THEN Ending(n, a) ELSE Joined(n, a, f[Onwards(n, a)])
          BY <3>3 DEF Parsed
        <5>2. f[a] = <<Answer!Hang>>
          BY <4>1, <5>1 DEF Ended, Ending
        <5>3. Len(f[a]) = 1 /\ f[a][1] = Answer!Hang
          BY <5>2
        <5> QED
          BY <4>2, <5>3 DEF NoHang
      <4>4. i < m /\ Answer!After(more, i) = a
        BY <2>5, <3>1, <3>6, <4>3, AfterStays
      <4>5. more[i] = n[i]
        BY <4>4, SameLines
      <4>6. Piece(more, i) = p
        <5>1. /\ Answer!Min({a - 1, Len(n)}) = a - 1
          <6>1. a <= Len(n)
            BY <1>1, <3>3, <3>6
          <6> QED
            BY <2>1, <3>1, <6>1, PieceInRange
        <5>2. Answer!Min({a - 1, Len(more)}) = a - 1
          <6>1. i \in 1..Len(more) /\ a <= Len(more) /\ Answer!After(more, i) # i
            BY <1>1, <3>1, <3>3, <3>6, <4>4
          <6>2. Answer!Min({Answer!After(more, i) - 1, Len(more)}) = Answer!After(more, i) - 1
            BY <4>4, <6>1, PieceInRange
          <6> QED
            BY <4>4, <6>2
        <5>3. SubSeq(n, i, a - 1) = SubSeq(more, i, a - 1)
          <6>1. i \in Nat /\ a - 1 \in Nat /\ 1 <= i /\ a - 1 <= Len(n) /\ a - 1 <= Len(more)
            <7> HIDE DEF a
            <7> QED
              BY <1>1, <3>3, <3>6
          <6>2. \A j \in i..(a - 1) : j \in 1..m /\ j < m
            <7> HIDE DEF a
            <7> QED
              BY <1>1, <3>3, <3>6
          <6>3. \A j \in i..(a - 1) : n[j] = more[j]
            BY <6>2, SameLines
          <6> HIDE DEF a
          <6> QED
            BY <6>1, <6>3, SubSeqSame
        <5>4. p = Answer!Block(n[i].k, SubSeq(n, i, a - 1))
          BY <5>1 DEF Piece
        <5>5. Piece(more, i) = Answer!Block(more[i].k, SubSeq(more, i, a - 1))
          BY <4>4, <5>2 DEF Piece
        <5> QED
          BY <4>5, <5>3, <5>4, <5>5
      <4>7. g[i] = <<p>> \o g[a]
        BY <2>1, <2>2, <2>3, <2>5, <3>1, <4>4, <4>6 DEF Ended, Joined, Onwards
      <4>8. Kept(f[a], g[a]) /\ g[a] \in Seq(BlockValues)
        <5> HIDE DEF a
        <5>1. a \in T
          BY <1>3, <4>1
        <5> QED
          BY <1>2, <4>1, <4>2, <5>1
      <4> HIDE DEF p, a
      <4> QED
        BY <3>2, <3>4, <4>7, <4>8, KeptPrepended
    <3> QED
      <4> HIDE DEF a
      <4> QED
        BY <1>1, <3>3, <3>5, <3>6
  <2> QED
    BY <2>4, <2>5
<1>4. 1..m \subseteq T
  <2> HIDE DEF T
  <2> QED
    BY <1>1, <1>3, Downwards
<1>5. 1 \in T
  BY <1>1, <1>4
<1> QED
  BY <1>5

\* Another line changes only the last block of an answer, if the renderer got
\* to its end before: normalizeContent changes at most the last mark, and where
\* that ends a block it does so with and without its space
\* (MarkdownContent.tsx).
THEOREM Settled ==
  ASSUME NEW lines \in Seq(AnyLines), NEW x \in AnyLines,
         ~Answer!Hangs(lines), Answer!Blocks(lines) # <<>>
  PROVE  Answer!IsPrefix(Answer!Front(Answer!Blocks(lines)), Answer!Blocks(Append(lines, x)))
<1> DEFINE n == Answer!Normalize(lines)
           more == Answer!Normalize(Append(lines, x))
           m == Len(Answer!Stem(n))
<1>1. n \in Seq(AnyLines)
  BY NormalizeCalm
<1>2. more \in Seq(AnyLines)
  <2>1. Append(lines, x) \in Seq(AnyLines)
    OBVIOUS
  <2> QED
    BY <2>1, NormalizeCalm
<1>3. Grown(n, more)
  BY NormalizeGrows
<1>4. Answer!Parse(n) # <<>> /\ ~Answer!Contains(Answer!Parse(n), Answer!Hang)
  BY DEF Answer!Blocks, Answer!Hangs
<1> HIDE DEF n, more
<1>5. PICK f : Parsed(f, n) /\ Answer!Parse(n) = f[1]
  BY <1>1, ParseIs
<1>6. PICK g : Parsed(g, more) /\ Answer!Parse(more) = g[1]
  BY <1>2, ParseIs
<1>7. NoHang(f[1])
  BY <1>4, <1>5 DEF NoHang, Answer!Contains
<1>8. m # 0
  <2>1. \A j \in (m + 1)..Len(n) : Answer!Blank(n[j])
    BY <1>1, StemIs DEF Answer!Blank
  <2>2. 0 \in Nat /\ 1 > 0 /\ 1 \in 1..(Len(n) + 2)
    BY <1>1
  <2>3. ASSUME \A j \in (0 + 1)..Len(n) : Answer!Blank(n[j]) PROVE f[1] = <<>>
    BY <1>1, <1>5, <2>2, <2>3, BlankEnd
  <2> HIDE DEF m
  <2>4. m = 0 => \A j \in (0 + 1)..Len(n) : Answer!Blank(n[j])
    BY <2>1
  <2>5. f[1] # <<>>
    BY <1>4, <1>5
  <2>6. m # 0
    BY <2>3, <2>4, <2>5
  <2> QED
    BY <2>6 DEF m
<1>9. Kept(f[1], g[1])
  <2>1. Same(n, more, m)
    BY <1>1, <1>2, <1>3, <1>8, GrownIsSame
  <2> HIDE DEF m
  <2> QED
    BY <1>1, <1>2, <1>5, <1>6, <1>7, <2>1, ParseKeeps
<1> DEFINE s == f[1]
           t == g[1]
<1>10. s \in Seq(BlockValues) /\ t \in Seq(BlockValues) /\ s # <<>>
  <2>1. 1 \in 1..(Len(n) + 2) /\ 1 \in 1..(Len(more) + 2)
    BY <1>1, <1>2
  <2> QED
    BY <1>4, <1>5, <1>6, <2>1 DEF Parsed
<1> HIDE DEF s, t
<1>11. Answer!IsPrefix(Answer!Front(s), t)
  <2> DEFINE k == Len(s) - 1
             u == SubSeq(s, 1, k)
             v == SubSeq(t, 1, k)
  <2>1. Len(s) \in Nat /\ Len(t) \in Nat /\ Len(s) > 0 /\ k \in Nat
    BY <1>10, EmptySeq
  <2>2. k <= Len(t) /\ \A j \in 1..k : t[j] = s[j]
    <3>1. \A j \in 1..k : j <= Len(t) /\ t[j] = s[j]
      BY <1>9 DEF Kept, s, t
    <3> HIDE DEF k
    <3>2. k = 0 \/ k \in 1..k
      BY <2>1
    <3> QED
      BY <2>1, <3>1, <3>2
  <2>3. /\ u \in Seq(BlockValues) /\ Len(u) = IF 1 <= k THEN k - 1 + 1 ELSE 0
        /\ \A i \in 1..(k - 1 + 1) : u[i] = s[1 + i - 1]
    <3>1. 1 \in Int /\ k \in Int /\ \A i \in 1..k : s[i] \in BlockValues
      BY <1>10, <2>1
    <3> HIDE DEF k
    <3> QED
      BY <3>1, SubSeqProperties
  <2>4. /\ v \in Seq(BlockValues) /\ Len(v) = IF 1 <= k THEN k - 1 + 1 ELSE 0
        /\ \A i \in 1..(k - 1 + 1) : v[i] = t[1 + i - 1]
    <3>1. 1 \in Int /\ k \in Int /\ \A i \in 1..k : t[i] \in BlockValues
      <4>1. \A i \in 1..k : i \in 1..Len(t)
        <5> HIDE DEF k
        <5> QED
          BY <2>1, <2>2
      <4> QED
        BY <1>10, <2>1, <4>1
    <3> HIDE DEF k
    <3> QED
      BY <3>1, SubSeqProperties
  <2>5. Answer!Front(s) = u
    BY DEF Answer!Front
  <2> HIDE DEF k, u, v
  <2>6. Len(u) = k /\ Len(v) = k
    BY <2>1, <2>3, <2>4
  <2>7. \A i \in 1..Len(u) : u[i] = v[i]
    <3>1. \A i \in 1..k : i \in 1..(k - 1 + 1) /\ 1 + i - 1 = i
      BY <2>1
    <3> QED
      BY <2>2, <2>3, <2>4, <2>6, <3>1
  <2>8. u = v
    BY <2>3, <2>4, <2>6, <2>7, SeqEqual
  <2>9. SubSeq(u, 1, Len(u)) = u
    BY <2>3, SubSeqFull
  <2>10. SubSeq(t, 1, Len(u)) = v
    BY <2>6 DEF v
  <2>11. Len(u) <= Len(t)
    BY <2>2, <2>6
  <2> QED
    BY <2>5, <2>8, <2>9, <2>10, <2>11 DEF Answer!IsPrefix
<1> QED
  BY <1>5, <1>6, <1>11 DEF n, more, s, t, Answer!Blocks

-----------------------------------------------------------------------------
(* The invariant of an answer on screen *)

\* The renderer got to the end of the answer before its last line came.
BubbleInv ==
  /\ Answer!TypeOK
  /\ content # <<>> /\ isStreaming => ~Answer!Hangs(Answer!Front(content))

LEMMA BubbleStarts == Answer!Init => BubbleInv
<1>1. Answer!Unknown \in Answer!Shapes
  BY DEF Answer!Unknown, Answer!Shapes, Answer!Plain
<1> QED
  BY <1>1 DEF Answer!Init, Answer!TypeOK, BubbleInv

LEMMA BubbleKept ==
  ASSUME BubbleInv, [Answer!Next]_bubbleVars
  PROVE  BubbleInv'
<1>1. ASSUME NEW line \in Lines, Answer!Token(line) PROVE BubbleInv'
  <2>1. content \in Seq(Lines) /\ content' = Append(content, line)
    BY <1>1 DEF BubbleInv, Answer!TypeOK, Answer!Token
  <2>2. content' \in Seq(Lines)
    BY <2>1, AppendProperties
  <2>3. ~Answer!Hangs(content)
    BY <1>1 DEF Answer!Token, Answer!Frozen, Answer!Shown
  <2>4. Answer!Front(Append(content, line)) = content
    <3>1. /\ Len(Append(content, line)) = Len(content) + 1 /\ Len(content) \in Nat
          /\ \A i \in 1..Len(content) : Append(content, line)[i] = content[i]
      BY <2>1, AppendProperties
    <3> DEFINE more == Append(content, line)
    <3>2. Append(content, line) # <<>> /\ Append(content, line) \in Seq(Lines)
      BY <2>1, AppendProperties
    <3>3. more \in Seq(AnyLines)
      BY <3>2, PageAssumption, SeqMonotonic DEF PageAssumption, AnyLines
    <3>4. /\ Answer!Front(more) \in Seq(AnyLines) /\ Len(Answer!Front(more)) = Len(more) - 1
          /\ \A i \in 1..(Len(more) - 1) : Answer!Front(more)[i] = more[i]
      BY <3>2, <3>3, FrontIs
    <3>5. content \in Seq(AnyLines)
      BY <2>1, PageAssumption, SeqMonotonic DEF PageAssumption, AnyLines
    <3> HIDE DEF more
    <3>6. Len(more) - 1 = Len(content)
      BY <3>1 DEF more
    <3>7. \A i \in 1..Len(content) : Answer!Front(more)[i] = content[i]
      BY <3>1, <3>4, <3>6 DEF more
    <3>8. Answer!Front(more) = content
      BY <3>4, <3>5, <3>6, <3>7, SeqEqual
    <3> QED
      BY <3>8 DEF more
  <2>5. ~Answer!Hangs(Answer!Front(content))'
    BY <2>1, <2>3, <2>4
  <2>6. Answer!TypeOK'
    BY <1>1, <2>2 DEF BubbleInv, Answer!TypeOK, Answer!Token
  <2> QED
    BY <2>5, <2>6 DEF BubbleInv
<1>2. CASE Answer!Done
  <2>1. Answer!Unknown \in Answer!Shapes
    BY DEF Answer!Unknown, Answer!Shapes
  <2>2. artifact' \in Answer!Shapes
    <3>1. CASE Answer!Extract(content).artifacts > 0
      BY <1>2, <3>1 DEF Answer!Done
    <3>2. CASE ~(Answer!Extract(content).artifacts > 0)
      BY <1>2, <2>1, <3>2 DEF Answer!Done
    <3> QED
      BY <3>1, <3>2
  <2> QED
    BY <1>2, <2>2 DEF BubbleInv, Answer!TypeOK, Answer!Done
<1>3. CASE UNCHANGED bubbleVars
  <2>1. content' = content /\ isStreaming' = isStreaming /\ artifact' = artifact
    BY <1>3 DEF bubbleVars
  <2> QED
    BY <2>1 DEF BubbleInv, Answer!TypeOK
<1> QED
  BY <1>1, <1>2, <1>3 DEF Answer!Next

LEMMA BlocksSettled ==
  ASSUME BubbleInv
  PROVE  Answer!SettledStays
<1> DEFINE lines == Answer!Front(content)
           x == Answer!Last(content)
<1> SUFFICES ASSUME isStreaming, content # <<>>, Answer!Blocks(lines) # <<>>
    PROVE  Answer!IsPrefix(Answer!Front(Answer!Blocks(lines)), Answer!Blocks(content))
  BY DEF Answer!SettledStays
<1>1. content \in Seq(AnyLines)
  BY PageAssumption, SeqMonotonic DEF PageAssumption, BubbleInv, Answer!TypeOK, AnyLines
<1>2. /\ lines \in Seq(AnyLines) /\ Len(lines) = Len(content) - 1
      /\ \A i \in 1..(Len(content) - 1) : lines[i] = content[i]
      /\ x \in AnyLines /\ x = content[Len(content)] /\ Len(content) \in Nat /\ Len(content) > 0
  BY <1>1, FrontIs
<1>3. ~Answer!Hangs(lines)
  BY DEF BubbleInv
<1> HIDE DEF lines, x
<1>4. Append(lines, x) = content
  <2> DEFINE more == Append(lines, x)
  <2>1. /\ more \in Seq(AnyLines) /\ Len(more) = Len(lines) + 1 /\ more[Len(lines) + 1] = x
        /\ \A i \in 1..Len(lines) : more[i] = lines[i]
    BY <1>2, AppendProperties
  <2> HIDE DEF more
  <2>2. Len(more) = Len(content)
    BY <1>2, <2>1
  <2>3. ASSUME NEW i \in 1..Len(more) PROVE more[i] = content[i]
    <3>1. CASE i = Len(content)
      BY <1>2, <2>1, <3>1
    <3>2. CASE i # Len(content)
      <4>1. i \in 1..(Len(content) - 1) /\ i \in 1..Len(lines)
        BY <1>2, <2>2, <3>2
      <4> QED
        BY <1>2, <2>1, <4>1
    <3> QED
      BY <3>1, <3>2
  <2>4. more = content
    BY <1>1, <2>1, <2>2, <2>3, SeqEqual
  <2> QED
    BY <2>4 DEF more
<1>5. Answer!IsPrefix(Answer!Front(Answer!Blocks(lines)), Answer!Blocks(Append(lines, x)))
  <2>1. Answer!Blocks(lines) # <<>>
    BY DEF lines
  <2> QED
    BY <1>2, <1>3, <2>1, Settled
<1> QED
  BY <1>4, <1>5 DEF lines
=============================================================================
