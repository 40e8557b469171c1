------------------------ MODULE CaptionSegmenterProofs ------------------------
(* Proofs about CaptionSegmenter for every value of its constants: its types, *)
(* that the caller has the segments as they are, that they hold the           *)
(* transcript and are only cut from what is stable, and that the segmenter is *)
(* a CaptionFeed.                                                             *)
EXTENDS CaptionSegmenter, FiniteSetTheorems, SequenceTheorems, TLAPS

-----------------------------------------------------------------------------
(* Induction, over sets: a set with 0 and every successor has all numbers. *)

Less == {ss \in Nat \X Nat : ss[1] < ss[2]}

LEMMA LessIsWellFounded ==
  IsWellFoundedOn(Less, Nat)
  BY NatLessThanWellFounded DEF OpToRel, Less

LEMMA Induction ==
  ASSUME NEW G, 0 \in G, \A n \in Nat : n \in G => n + 1 \in G
  PROVE  \A n \in Nat : n \in G
  <1> DEFINE B == Nat \ G
  <1>1. SUFFICES ASSUME B # {} PROVE FALSE
    OBVIOUS
  <1>2. \E x \in B : \A y \in B : ~(<< y, x >> \in Less)
    <2>1. B \subseteq Nat
      OBVIOUS
    <2> HIDE DEF B
    <2> QED
      BY <1>1, <2>1, LessIsWellFounded, WFMin
  <1>3. PICK x \in B : \A y \in B : ~(<< y, x >> \in Less)
    BY <1>2
  <1>4. x # 0 /\ x - 1 \in Nat /\ x - 1 < x
    OBVIOUS
  <1>5. << x - 1, x >> \in Less
    BY <1>4 DEF Less
  <1> QED
    BY <1>3, <1>4, <1>5

\* A set of numbers up to n has a greatest one, and a set of numbers a least one.
LEMMA GreatestOf ==
  ASSUME NEW n \in Nat, NEW S, S \subseteq 0..n, S # {}
  PROVE  Max(S) \in S /\ \A y \in S : Max(S) >= y
  <1> DEFINE G == {k \in Nat : \A T \in SUBSET (0..k) :
                      T # {} => \E x \in T : \A y \in T : x >= y}
  <1>1. 0 \in G
    <2>1. ASSUME NEW T \in SUBSET (0..0), T # {} PROVE \E x \in T : \A y \in T : x >= y
      <3>1. \A y \in T : y = 0
        BY <2>1
      <3>2. 0 \in T
        <4>1. PICK y : y \in T
          BY <2>1
        <4> QED BY <3>1, <4>1
      <3> QED
        BY <3>1, <3>2
    <2> QED
      BY <2>1
  <1>2. ASSUME NEW k \in Nat, k \in G PROVE k + 1 \in G
    <2>1. ASSUME NEW T \in SUBSET (0..(k + 1)), T # {}
          PROVE  \E x \in T : \A y \in T : x >= y
      <3>1. CASE k + 1 \in T
        BY <3>1
      <3>2. CASE k + 1 \notin T
        <4>1. T \in SUBSET (0..k)
          BY <3>2
        <4> QED
          BY <1>2, <2>1, <4>1
      <3> QED
        BY <3>1, <3>2
    <2> QED
      BY <2>1
  <1>3. n \in G
    <2> HIDE DEF G
    <2> QED BY <1>1, <1>2, Induction
  <1>4. \E x \in S : \A y \in S : x >= y
    BY <1>3
  <1> QED
    BY <1>4 DEF Max

LEMMA MaxOfInterval ==
  ASSUME NEW k \in Nat
  PROVE  Max(1..(k + 1)) = k + 1
  <1> DEFINE S == 1..(k + 1)
  <1>1. S \subseteq 0..(k + 1) /\ S # {} /\ k + 1 \in S /\ k + 1 \in Nat
    OBVIOUS
  <1>2. Max(S) \in S /\ \A y \in S : Max(S) >= y
    <2> HIDE DEF S
    <2> QED BY <1>1, GreatestOf
  <1>3. Max(S) \in 1..(k + 1) /\ Max(S) >= k + 1
    BY <1>1, <1>2
  <1> QED
    BY <1>3

LEMMA FoldPlaces ==
  ASSUME NEW n \in Nat, NEW k \in 0..(n - 1)
  PROVE  /\ 1..(k + 1) \in SUBSET (1..n) /\ 1..(k + 1) # {}
         /\ Max(1..(k + 1)) = k + 1
         /\ (1..(k + 1)) \ {Max(1..(k + 1))} = 1..k
  <1>1. Max(1..(k + 1)) = k + 1
    BY MaxOfInterval
  <1>2. 1..(k + 1) \in SUBSET (1..n) /\ 1..(k + 1) # {}
    OBVIOUS
  <1>3. (1..(k + 1)) \ {k + 1} = 1..k
    OBVIOUS
  <1> QED
    BY <1>1, <1>2, <1>3

\* What holds of a table before its first place and is kept at each, holds at the end.
LEMMA FoldKeeps ==
  ASSUME NEW n \in Nat, NEW it, NEW W, it[{}] \in W[0],
         \A k \in 0..(n - 1) : it[1..k] \in W[k] => it[1..(k + 1)] \in W[k + 1]
  PROVE  it[1..n] \in W[n]
  <1> DEFINE G == {k \in Nat : k <= n => it[1..k] \in W[k]}
  <1>1. 0 \in G
    <2>1. 1..0 = {}
      OBVIOUS
    <2> QED BY <2>1
  <1>2. ASSUME NEW k \in Nat, k \in G PROVE k + 1 \in G
    <2>1. k + 1 <= n => k \in 0..(n - 1) /\ k <= n
      OBVIOUS
    <2> QED
      BY <1>2, <2>1
  <1>3. n \in G
    <2> HIDE DEF G
    <2> QED BY <1>1, <1>2, Induction
  <1> QED
    BY <1>3

LEMMA LeastOf ==
  ASSUME NEW S, S \subseteq Nat, S # {}
  PROVE  \E x \in S : \A y \in S : x <= y
  <1>1. \E x \in S : \A y \in S : ~(<< y, x >> \in Less)
    BY LessIsWellFounded, WFMin
  <1>2. \A x, y \in Nat : << y, x >> \notin Less => x <= y
    BY DEF Less
  <1> QED
    BY <1>1, <1>2

-----------------------------------------------------------------------------
(* What a fold over the places of a sequence computes: a table, of the sets of *)
(* places, that satisfies the equations of the fold.                           *)

FoldTables(k, V, b, step) ==
    {g \in [SUBSET (1..k) -> V] : \A s \in SUBSET (1..k) :
        g[s] = IF s = {} THEN b ELSE step[Max(s)][g[s \ {Max(s)}]]}

LEMMA FoldTable ==
  ASSUME NEW n \in Nat, NEW V, NEW b \in V, NEW step \in [1..n -> [V -> V]]
  PROVE  FoldTables(n, V, b, step) # {}
  <1> DEFINE G == {k \in Nat : k <= n => FoldTables(k, V, b, step) # {}}
  <1>1. 0 \in G
    <2> DEFINE g == [s \in SUBSET (1..0) |-> b]
    <2>1. \A s \in SUBSET (1..0) : s = {}
      OBVIOUS
    <2>2. g \in FoldTables(0, V, b, step)
      BY <2>1 DEF FoldTables
    <2> HIDE DEF g
    <2> QED
      BY <2>2
  <1>2. ASSUME NEW k \in Nat, k \in G PROVE k + 1 \in G
    <2>1. SUFFICES ASSUME k + 1 <= n
                   PROVE  FoldTables(k + 1, V, b, step) # {}
      OBVIOUS
    <2>2. PICK g : g \in FoldTables(k, V, b, step)
      BY <1>2, <2>1
    <2>7. g \in [SUBSET (1..k) -> V]
      BY <2>2 DEF FoldTables
    <2> DEFINE h == [s \in SUBSET (1..(k + 1)) |->
                       IF k + 1 \in s THEN step[k + 1][g[s \ {k + 1}]] ELSE g[s]]
    <2>3. k + 1 \in 1..n
      BY <2>1
    <2>4. \A s \in SUBSET (1..(k + 1)) :
             /\ s \ {k + 1} \in SUBSET (1..k)
             /\ k + 1 \notin s => s \in SUBSET (1..k)
      OBVIOUS
    <2>5. h \in [SUBSET (1..(k + 1)) -> V]
      BY <2>3, <2>4, <2>7
    <2>6. ASSUME NEW s \in SUBSET (1..(k + 1))
          PROVE  h[s] = IF s = {} THEN b ELSE step[Max(s)][h[s \ {Max(s)}]]
      <3>1. CASE k + 1 \in s
        <4>1. Max(s) = k + 1
          <5>1. s \subseteq 0..(k + 1) /\ s # {}
            BY <3>1
          <5>2. k + 1 \in Nat
            OBVIOUS
          <5>3. Max(s) \in s /\ \A y \in s : Max(s) >= y
            BY <5>1, <5>2, GreatestOf
          <5>4. Max(s) \in 1..(k + 1)
            BY <5>3
          <5>5. Max(s) >= k + 1
            BY <3>1, <5>3
          <5> QED
            BY <5>4, <5>5
        <4>2. h[s] = step[k + 1][g[s \ {k + 1}]]
          BY <3>1
        <4>3. h[s \ {k + 1}] = g[s \ {k + 1}]
          BY <2>4
        <4> HIDE DEF h
        <4> QED
          BY <3>1, <4>1, <4>2, <4>3
      <3>2. CASE k + 1 \notin s /\ s = {}
        BY <2>2, <2>4, <3>2 DEF FoldTables
      <3>3. CASE k + 1 \notin s /\ s # {}
        <4>1. s \subseteq 0..k /\ s \in SUBSET (1..k)
          BY <3>3, <2>4
        <4>2. Max(s) \in s
          BY <3>3, <4>1, GreatestOf
        <4>3. h[s] = g[s] /\ h[s \ {Max(s)}] = g[s \ {Max(s)}]
          BY <3>3
        <4>4. g[s] = step[Max(s)][g[s \ {Max(s)}]]
          BY <2>2, <3>3, <4>1 DEF FoldTables
        <4> HIDE DEF h
        <4> QED
          BY <3>3, <4>3, <4>4
      <3> QED
        BY <3>1, <3>2, <3>3
    <2>8. h \in FoldTables(k + 1, V, b, step)
      <3> HIDE DEF h
      <3> QED BY <2>5, <2>6 DEF FoldTables
    <2> QED
      BY <2>8
  <1>3. n \in G
    <2> HIDE DEF G
    <2> QED BY <1>1, <1>2, Induction
  <1> QED
    BY <1>3

-----------------------------------------------------------------------------
(* Texts. *)

Text == Seq(STRING)

LEMMA Skips ==
  ASSUME NEW t \in Text, NEW i \in 1..(Len(t) + 1)
  PROVE  /\ SkipSpaces(t, i) \in i..(Len(t) + 1)
         /\ SkipSpaces(t, i) > Len(t) \/ ~Space(t[SkipSpaces(t, i)])
         /\ \A k \in i..(SkipSpaces(t, i) - 1) : Space(t[k])
  <1> DEFINE S == {j \in i..(Len(t) + 1) : j > Len(t) \/ ~Space(t[j])}
  <1>1. Len(t) \in Nat /\ i \in Nat
    BY DEF Text
  <1>2. S \subseteq Nat /\ Len(t) + 1 \in S
    BY <1>1
  <1>3. PICK j \in S : \A k \in S : j <= k
    <2> HIDE DEF S
    <2> QED BY <1>2, LeastOf
  <1>4. \A k \in i..(j - 1) : Space(t[k])
    <2> TAKE k \in i..(j - 1)
    <2>1. k \in i..(Len(t) + 1) /\ ~(j <= k)
      BY <1>1
    <2> QED
      BY <1>3, <2>1
  <1> QED
    BY <1>3, <1>4 DEF SkipSpaces

LEMMA Trims ==
  ASSUME NEW t \in Text, NEW n \in 0..Len(t)
  PROVE  /\ TrimTo(t, n) \in 0..n
         /\ \A k \in (TrimTo(t, n) + 1)..n : Space(t[k])
  <1> DEFINE S == {j \in 0..n : j = 0 \/ ~Space(t[j])}
  <1>1. n \in Nat /\ S \subseteq 0..n /\ 0 \in S
    BY DEF Text
  <1>2. Max(S) \in S /\ \A k \in S : Max(S) >= k
    <2> HIDE DEF S
    <2> QED BY <1>1, GreatestOf
  <1>3. ASSUME NEW j, j = Max(S) PROVE \A k \in (j + 1)..n : Space(t[k])
    <2> HIDE DEF S
    <2>1. j \in 0..n /\ \A k \in S : j >= k
      BY <1>1, <1>2, <1>3
    <2> TAKE k \in (j + 1)..n
    <2>2. k \in 0..n /\ k # 0 /\ ~(j >= k)
      BY <2>1, <1>1
    <2> QED
      BY <2>1, <2>2 DEF S
  <1>4. \E j \in 0..n : (j = 0 \/ ~Space(t[j])) /\ \A k \in (j + 1)..n : Space(t[k])
    <2> DEFINE j == Max(S)
    <2>1. j \in S
      BY <1>2
    <2>2. j \in 0..n /\ (j = 0 \/ ~Space(t[j]))
      <3> HIDE DEF j
      <3> QED BY <2>1
    <2>3. \A k \in (j + 1)..n : Space(t[k])
      BY <1>3
    <2> HIDE DEF j
    <2> QED
      BY <2>2, <2>3
  <1> QED
    BY <1>4 DEF TrimTo

\* What is cut off a text is neither empty nor wider than MaxWidth.
LEMMA Cuts ==
  ASSUME NEW t \in Text, NEW begin \in 1..Len(t)
  PROVE  CutOf(t, begin) \in begin..Len(t) /\ CutOf(t, begin) < begin + MaxWidth
  <1> DEFINE end == Min({Len(t), begin + MaxWidth - 1})
             All == {i \in begin..Len(t) : i < begin + MaxWidth}
  <1>1. Len(t) \in Nat /\ begin \in Nat /\ MaxWidth \in Nat /\ MinWidth \in Nat \ {0}
        /\ Target \in Nat /\ MinWidth < Target /\ Target < MaxWidth
    BY SegmenterAssumption DEF Text
  <1>2. end \in Nat /\ end <= Len(t) /\ end < begin + MaxWidth
        /\ (Len(t) < begin + MaxWidth => end = Len(t))
        /\ (Len(t) >= begin + MaxWidth => end = begin + MaxWidth - 1)
    <2>1. CASE Len(t) <= begin + MaxWidth - 1
      BY <1>1, <2>1 DEF Min
    <2>2. CASE Len(t) > begin + MaxWidth - 1
      BY <1>1, <2>2 DEF Min
    <2> QED
      BY <1>1, <2>1, <2>2
  <1>3. \A r : CutsAt(t, begin, r) \subseteq All
    <2> HIDE DEF end
    <2>1. \A r : CutsAt(t, begin, r) \subseteq begin..end
      BY DEF CutsAt, end
    <2> QED
      BY <1>1, <1>2, <2>1
  <1>4. ASSUME NEW ranks, ranks \subseteq 0..3, \E r \in ranks : CutsAt(t, begin, r) # {}
        PROVE  BestCut(t, begin, ranks) \in All
    <2> DEFINE R == {r \in ranks : CutsAt(t, begin, r) # {}}
    <2>1. R \subseteq 0..3 /\ R # {}
      BY <1>4
    <2>2. Max(R) \in R
      <3> HIDE DEF R
      <3> QED BY <2>1, GreatestOf
    <2> DEFINE C == CutsAt(t, begin, Max(R))
    <2>3. C # {} /\ C \subseteq All
      BY <1>3, <2>2
    <2>4. C \subseteq 0..Len(t)
      <3>1. All \subseteq 0..Len(t)
        BY <1>1
      <3> HIDE DEF C, All
      <3> QED BY <2>3, <3>1
    <2>5. Max(C) \in C
      <3> HIDE DEF C
      <3> QED BY <1>1, <2>3, <2>4, GreatestOf
    <2>6. BestCut(t, begin, ranks) = Max(C)
      BY DEF BestCut
    <2> HIDE DEF C
    <2> QED
      BY <2>3, <2>5, <2>6
  <1>5. CASE Len(t) - begin + 1 >= Target
    <2> DEFINE i == begin + MinWidth - 1
    <2>1. i \in begin..end /\ i - begin + 1 >= MinWidth
      <3> HIDE DEF end
      <3> QED BY <1>1, <1>2, <1>5
    <2>2. Rank(t, i) \in 0..3
      BY DEF Rank
    <2>3. i \in CutsAt(t, begin, Rank(t, i))
      BY <2>1 DEF CutsAt
    <2>4. BestCut(t, begin, 0..3) \in All
      <3> HIDE DEF i, All
      <3> QED BY <1>4, <2>2, <2>3
    <2> QED
      BY <1>5, <2>4 DEF CutOf
  <1>6. CASE ~(Len(t) - begin + 1 >= Target) /\ CutsAt(t, begin, 3) # {}
    <2>1. BestCut(t, begin, {3}) \in All
      <3> HIDE DEF All
      <3> QED BY <1>4, <1>6
    <2> QED
      BY <1>6, <2>1 DEF CutOf
  <1>7. CASE ~(Len(t) - begin + 1 >= Target) /\ CutsAt(t, begin, 3) = {}
    BY <1>1, <1>7 DEF CutOf
  <1> QED
    BY <1>5, <1>6, <1>7

-----------------------------------------------------------------------------
(* Texts put together. *)

\* What FlattenSeq computes, place after place.
FlattenTables(n, ss) ==
    {f \in [1..n -> Text] : \A i \in 1..n : f[i] = IF i = 1 THEN ss[i] ELSE f[i - 1] \o ss[i]}

LEMMA FlattenTable ==
  ASSUME NEW n \in Nat, NEW ss, \A i \in 1..n : ss[i] \in Text
  PROVE  FlattenTables(n, ss) # {}
  <1> DEFINE G == {k \in Nat : k <= n => FlattenTables(k, ss) # {}}
  <1>1. 0 \in G
    <2> DEFINE f == [i \in 1..0 |-> <<>>]
    <2>1. f \in [1..0 -> Text] /\ \A i \in 1..0 : FALSE
      OBVIOUS
    <2>2. f \in FlattenTables(0, ss)
      BY <2>1 DEF FlattenTables
    <2> HIDE DEF f
    <2> QED
      BY <2>2
  <1>2. ASSUME NEW k \in Nat, k \in G PROVE k + 1 \in G
    <2>1. SUFFICES ASSUME k + 1 <= n PROVE FlattenTables(k + 1, ss) # {}
      OBVIOUS
    <2>2. PICK f : f \in FlattenTables(k, ss)
      BY <1>2, <2>1
    <2>3. /\ f \in [1..k -> Text]
          /\ \A i \in 1..k : f[i] = IF i = 1 THEN ss[i] ELSE f[i - 1] \o ss[i]
      BY <2>2 DEF FlattenTables
    <2>4. PICK last : last = IF k = 0 THEN ss[k + 1] ELSE f[k] \o ss[k + 1]
      OBVIOUS
    <2>5. last \in Text
      <3>1. ss[k + 1] \in Text
        BY <2>1
      <3>2. k # 0 => f[k] \in Text
        BY <2>3
      <3>3. k # 0 => f[k] \o ss[k + 1] \in Text
        BY <3>1, <3>2, ConcatProperties DEF Text
      <3> QED
        BY <2>4, <3>1, <3>3
    <2> DEFINE h == [i \in 1..(k + 1) |-> IF i = k + 1 THEN last ELSE f[i]]
    <2>6. h \in [1..(k + 1) -> Text]
      <3>1. \A i \in 1..(k + 1) : i # k + 1 => i \in 1..k
        OBVIOUS
      <3> QED
        BY <2>3, <2>5, <3>1
    <2>7. ASSUME NEW i \in 1..(k + 1)
          PROVE  h[i] = IF i = 1 THEN ss[i] ELSE h[i - 1] \o ss[i]
      <3>1. CASE i = k + 1
        <4>1. i # 1 => h[i - 1] = f[k] /\ k # 0
          BY <3>1
        <4> QED
          BY <2>4, <3>1, <4>1
      <3>2. CASE i # k + 1
        <4>1. i \in 1..k /\ h[i] = f[i] /\ (i # 1 => h[i - 1] = f[i - 1])
          BY <3>2
        <4> QED
          BY <2>3, <4>1
      <3> QED
        BY <3>1, <3>2
    <2>8. h \in FlattenTables(k + 1, ss)
      <3> HIDE DEF h
      <3> QED BY <2>6, <2>7 DEF FlattenTables
    <2> QED
      BY <2>8
  <1>3. n \in G
    <2> HIDE DEF G
    <2> QED BY <1>1, <1>2, Induction
  <1> QED
    BY <1>3

LEMMA FlattenIs ==
  ASSUME NEW n \in Nat, n # 0, NEW ss \in [1..n -> Text], NEW f \in FlattenTables(n, ss)
  PROVE  FlattenSeq(ss) = f[n]
  <1> DEFINE It[i \in 1..Len(ss)] == IF i = 1 THEN ss[i] ELSE It[i - 1] \o ss[i]
             F(g) == [i \in 1..Len(ss) |-> IF i = 1 THEN ss[i] ELSE g[i - 1] \o ss[i]]
  <1>1. Len(ss) = n
    <2>1. ss \in Seq(Text)
      OBVIOUS
    <2> QED BY <2>1
  <1>2. /\ f \in [1..n -> Text]
        /\ \A i \in 1..n : f[i] = IF i = 1 THEN ss[i] ELSE f[i - 1] \o ss[i]
    BY DEF FlattenTables
  <1>3. f = F(f)
    BY <1>1, <1>2
  <1>4. It = CHOOSE g : g = F(g)
    BY DEF It
  <1>5. It = F(It)
    <2> HIDE DEF F, It
    <2> QED BY <1>3, <1>4
  <1>6. FlattenSeq(ss) = It[n]
    BY <1>1 DEF FlattenSeq
  <1>7. \A i \in 1..n : It[i] = IF i = 1 THEN ss[i] ELSE It[i - 1] \o ss[i]
    <2> HIDE DEF It
    <2> QED BY <1>1, <1>5
  <1> DEFINE G == {k \in Nat : k + 1 <= n => It[k + 1] = f[k + 1]}
  <1> HIDE DEF It
  <1>8. 0 \in G
    BY <1>2, <1>7
  <1>9. ASSUME NEW k \in Nat, k \in G PROVE k + 1 \in G
    <2>1. SUFFICES ASSUME k + 2 <= n PROVE It[k + 2] = f[k + 2]
      OBVIOUS
    <2>2. It[k + 1] = f[k + 1]
      BY <1>9, <2>1
    <2>3. PICK i \in 1..n : i = k + 2 /\ i # 1 /\ i - 1 = k + 1
      BY <2>1
    <2>4. It[i] = It[i - 1] \o ss[i] /\ f[i] = f[i - 1] \o ss[i]
      BY <1>2, <1>7, <2>3
    <2> QED
      BY <2>2, <2>3, <2>4
  <1>10. n - 1 \in Nat /\ (n - 1) + 1 = n
    OBVIOUS
  <1>11. n - 1 \in G
    <2> HIDE DEF G
    <2> QED BY <1>8, <1>9, <1>10, Induction
  <1> QED
    BY <1>6, <1>10, <1>11

LEMMA FlattenEmpty ==
  FlattenSeq(<<>>) = <<>>
  BY DEF FlattenSeq

LEMMA FlattenAppend ==
  ASSUME NEW ss \in Seq(Text), NEW x \in Text
  PROVE  /\ FlattenSeq(ss) \in Text
         /\ FlattenSeq(Append(ss, x)) = FlattenSeq(ss) \o x
  <1>1. PICK n : n = Len(ss)
    OBVIOUS
  <1>2. PICK tt : tt = Append(ss, x)
    OBVIOUS
  <1>3. /\ n \in Nat /\ n + 1 \in Nat /\ n + 1 # 0 /\ ss \in [1..n -> Text]
        /\ tt \in [1..(n + 1) -> Text]
        /\ tt[n + 1] = x /\ \A i \in 1..n : tt[i] = ss[i]
    <2>1. n \in Nat /\ n + 1 \in Nat /\ n + 1 # 0 /\ ss \in [1..n -> Text]
      BY <1>1
    <2>2. /\ tt \in Seq(Text) /\ Len(tt) = n + 1 /\ tt[n + 1] = x
          /\ \A i \in 1..n : tt[i] = ss[i]
      BY <1>1, <1>2, AppendProperties
    <2> QED
      BY <2>1, <2>2
  <1>4. PICK f : f \in FlattenTables(n + 1, tt)
    BY <1>3, FlattenTable
  <1>5. /\ f \in [1..(n + 1) -> Text]
        /\ \A i \in 1..(n + 1) : f[i] = IF i = 1 THEN tt[i] ELSE f[i - 1] \o tt[i]
    BY <1>4 DEF FlattenTables
  <1>6. FlattenSeq(tt) = f[n + 1]
    BY <1>3, <1>4, FlattenIs
  <1>7. CASE n = 0
    <2>1. ss = <<>> /\ f[n + 1] = x
      BY <1>1, <1>3, <1>5, <1>7
    <2>2. x \in Seq(STRING) /\ <<>> \in Text
      BY DEF Text
    <2>3. <<>> \o x = x
      BY <2>2, ConcatEmptySeq
    <2>4. FlattenSeq(ss) = <<>> /\ FlattenSeq(Append(ss, x)) = x
      BY <1>2, <1>6, <2>1, FlattenEmpty
    <2> QED
      BY <2>2, <2>3, <2>4
  <1>8. CASE n # 0
    <2> DEFINE h == [i \in 1..n |-> f[i]]
    <2>1. h \in [1..n -> Text]
      BY <1>3, <1>5
    <2>2. \A i \in 1..n : h[i] = IF i = 1 THEN ss[i] ELSE h[i - 1] \o ss[i]
      <3> TAKE i \in 1..n
      <3>1. i \in 1..(n + 1) /\ (i # 1 => i - 1 \in 1..n)
        BY <1>3
      <3> QED
        BY <1>3, <1>5, <3>1
    <2>3. h \in FlattenTables(n, ss)
      <3> HIDE DEF h
      <3> QED BY <2>1, <2>2 DEF FlattenTables
    <2>4. h[n] = f[n]
      BY <1>3, <1>8
    <2> HIDE DEF h
    <2>5. FlattenSeq(ss) = f[n]
      BY <1>3, <1>8, <2>3, <2>4, FlattenIs
    <2>6. f[n + 1] = f[n] \o x /\ f[n] \in Text
      <3>1. n + 1 \in 1..(n + 1) /\ n + 1 # 1 /\ (n + 1) - 1 = n /\ n \in 1..(n + 1)
        BY <1>3, <1>8
      <3> QED
        BY <1>3, <1>5, <3>1
    <2> QED
      BY <1>2, <1>6, <2>5, <2>6
  <1> QED
    BY <1>7, <1>8

LEMMA FlattenOne ==
  ASSUME NEW x \in Text
  PROVE  FlattenSeq(<< x >>) = x
  <1> DEFINE e == <<>>
  <1>4. e \in Seq(Text)
    OBVIOUS
  <1>1. FlattenSeq(Append(e, x)) = FlattenSeq(e) \o x
    <2> HIDE DEF e
    <2> QED BY <1>4, FlattenAppend
  <1>2. Append(<<>>, x) = << x >>
    OBVIOUS
  <1>3. <<>> \o x = x
    BY ConcatEmptySeq DEF Text
  <1> QED
    BY <1>1, <1>2, <1>3, FlattenEmpty

LEMMA FlattenTyped ==
  ASSUME NEW ss \in Seq(Text)
  PROVE  FlattenSeq(ss) \in Text
  <1>1. <<>> \in Text
    BY DEF Text
  <1> QED
    BY <1>1, FlattenAppend

LEMMA FlattenConcat ==
  ASSUME NEW a \in Seq(Text), NEW b \in Seq(Text)
  PROVE  FlattenSeq(a \o b) = FlattenSeq(a) \o FlattenSeq(b)
  <1> DEFINE Joins(d) == FlattenSeq(a \o d) = FlattenSeq(a) \o FlattenSeq(d)
             G == {k \in Nat : \A d \in Seq(Text) : Len(d) = k => Joins(d)}
  <1>1. 0 \in G
    <2> SUFFICES ASSUME NEW d \in Seq(Text), Len(d) = 0 PROVE Joins(d)
      OBVIOUS
    <2>1. d = <<>> /\ a \o d = a
      BY ConcatEmptySeq
    <2>2. FlattenSeq(a) \o <<>> = FlattenSeq(a)
      BY FlattenTyped, ConcatEmptySeq DEF Text
    <2> QED
      BY <2>1, <2>2, FlattenEmpty
  <1>2. ASSUME NEW k \in Nat, k \in G PROVE k + 1 \in G
    <2> SUFFICES ASSUME NEW d \in Seq(Text), Len(d) = k + 1 PROVE Joins(d)
      OBVIOUS
    <2>1. d # <<>>
      OBVIOUS
    <2>2. PICK c \in Seq(Text), x \in Text : d = Append(c, x)
      BY <2>1, SequenceEmptyOrAppend
    <2>3. Len(c) = k
      BY <2>2, AppendProperties
    <2>4. Joins(c)
      BY <1>2, <2>3
    <2>5. a \o c \in Seq(Text) /\ << x >> \in Seq(Text)
      BY ConcatProperties
    <2>6. a \o d = Append(a \o c, x)
      <3>1. d = c \o << x >> /\ Append(a \o c, x) = (a \o c) \o << x >>
        BY <2>2, <2>5, AppendIsConcat
      <3> QED
        BY <2>5, <3>1, ConcatAssociative
    <2>7. FlattenSeq(a \o d) = (FlattenSeq(a) \o FlattenSeq(c)) \o x
      <3>1. FlattenSeq(Append(a \o c, x)) = FlattenSeq(a \o c) \o x
        BY <2>5, FlattenAppend, Zenon
      <3> QED
        BY <2>4, <2>6, <3>1
    <2>8. FlattenSeq(d) = FlattenSeq(c) \o x
      BY <2>2, FlattenAppend
    <2>9. FlattenSeq(a) \in Seq(STRING) /\ FlattenSeq(c) \in Seq(STRING) /\ x \in Seq(STRING)
      BY FlattenTyped DEF Text
    <2>10. (FlattenSeq(a) \o FlattenSeq(c)) \o x = FlattenSeq(a) \o (FlattenSeq(c) \o x)
      BY <2>9, ConcatAssociative
    <2> QED
      BY <2>7, <2>8, <2>10, Zenon
  <1>3. Len(b) \in Nat /\ Len(b) \in G
    <2> HIDE DEF G
    <2> QED BY <1>1, <1>2, Induction
  <1> QED
    BY <1>3

LEMMA PrefixOf ==
  ASSUME NEW a \in Text, NEW b \in Text
  PROVE  IsPrefix(a, a \o b)
  <1>1. PICK m, n \in Nat : m = Len(a) /\ n = Len(b)
    BY DEF Text
  <1>2. /\ a \o b \in Seq(STRING) /\ Len(a \o b) = m + n
        /\ \A i \in 1..(m + n) : (a \o b)[i] = IF i <= m THEN a[i] ELSE b[i - m]
    BY <1>1, ConcatProperties DEF Text
  <1>3. PICK c : c = a \o b
    OBVIOUS
  <1>4. SubSeq(a, 1, m) = SubSeq(c, 1, m)
    <2>1. a \in Seq(STRING) /\ c \in Seq(STRING) /\ m <= Len(c) /\ \A i \in 1..m : c[i] = a[i]
      BY <1>1, <1>2, <1>3 DEF Text
    <2>2. /\ \A i \in 1..m : a[i] \in STRING
          /\ \A i \in 1..m : c[i] \in STRING
      BY <1>1, <1>2, <1>3, <2>1
    <2>3. /\ SubSeq(a, 1, m) \in Seq(STRING) /\ SubSeq(c, 1, m) \in Seq(STRING)
          /\ Len(SubSeq(a, 1, m)) = m /\ Len(SubSeq(c, 1, m)) = m
          /\ \A i \in 1..m : SubSeq(a, 1, m)[i] = a[i] /\ SubSeq(c, 1, m)[i] = c[i]
      <3>1. m - 1 + 1 = m /\ \A i \in 1..m : 1 + i - 1 = i
        OBVIOUS
      <3>2. IF 1 <= m THEN m - 1 + 1 = m ELSE 0 = m
        OBVIOUS
      <3> QED
        BY <2>2, <3>1, <3>2, SubSeqProperties
    <2> QED
      BY <2>1, <2>3, SeqEqual
  <1> QED
    BY <1>1, <1>2, <1>3, <1>4 DEF IsPrefix

LEMMA Reversed ==
  ASSUME NEW a \in Text, NEW b \in Text
  PROVE  /\ Reverse(a) \in Text /\ Reverse(a \o b) = Reverse(b) \o Reverse(a)
  <1>1. PICK m, n \in Nat : m = Len(a) /\ n = Len(b)
    BY DEF Text
  <1>2. ASSUME NEW t \in Text, NEW k \in Nat, k = Len(t)
        PROVE  /\ Reverse(t) \in Seq(STRING) /\ Len(Reverse(t)) = k
               /\ \A i \in 1..k : Reverse(t)[i] = t[k - i + 1]
    <2>1. \A i \in 1..k : k - i + 1 \in 1..k
      OBVIOUS
    <2>2. \A i \in 1..k : t[k - i + 1] \in STRING
      BY <1>2, <2>1 DEF Text
    <2>3. Reverse(t) = [i \in 1..k |-> t[k - i + 1]]
      BY <1>2 DEF Reverse
    <2>4. [i \in 1..k |-> t[k - i + 1]] \in Seq(STRING)
      BY <2>2
    <2> QED
      BY <2>3, <2>4
  <1>3. PICK c : c = a \o b
    OBVIOUS
  <1>4. /\ c \in Text /\ Len(c) = m + n
        /\ \A i \in 1..(m + n) : c[i] = IF i <= m THEN a[i] ELSE b[i - m]
    BY <1>1, <1>3, ConcatProperties DEF Text
  <1>5. PICK ra, rb, rc : ra = Reverse(a) /\ rb = Reverse(b) /\ rc = Reverse(c)
    OBVIOUS
  <1>6. /\ ra \in Seq(STRING) /\ Len(ra) = m /\ \A i \in 1..m : ra[i] = a[m - i + 1]
        /\ rb \in Seq(STRING) /\ Len(rb) = n /\ \A i \in 1..n : rb[i] = b[n - i + 1]
        /\ rc \in Seq(STRING) /\ Len(rc) = m + n
        /\ \A i \in 1..(m + n) : rc[i] = c[(m + n) - i + 1]
    <2>1. /\ ra \in Seq(STRING) /\ Len(ra) = m /\ \A i \in 1..m : ra[i] = a[m - i + 1]
          /\ rb \in Seq(STRING) /\ Len(rb) = n /\ \A i \in 1..n : rb[i] = b[n - i + 1]
      BY <1>1, <1>2, <1>5
    <2>2. PICK k \in Nat : k = m + n
      OBVIOUS
    <2>3. /\ rc \in Seq(STRING) /\ Len(rc) = k
          /\ \A i \in 1..k : rc[i] = c[k - i + 1]
      BY <1>2, <1>4, <1>5, <2>2
    <2> QED
      BY <2>1, <2>2, <2>3
  <1>7. /\ rb \o ra \in Seq(STRING) /\ Len(rb \o ra) = m + n
        /\ \A i \in 1..(m + n) : (rb \o ra)[i] = IF i <= n THEN rb[i] ELSE ra[i - n]
    <2>1. /\ rb \o ra \in Seq(STRING) /\ Len(rb \o ra) = n + m
          /\ \A i \in 1..(n + m) : (rb \o ra)[i] = IF i <= n THEN rb[i] ELSE ra[i - n]
      BY <1>6, ConcatProperties
    <2>2. n + m = m + n
      OBVIOUS
    <2> QED
      BY <2>1, <2>2
  <1>8. ASSUME NEW i \in 1..(m + n) PROVE rc[i] = (rb \o ra)[i]
    <2>1. PICK h : h = (m + n) - i + 1
      OBVIOUS
    <2>2. h \in 1..(m + n) /\ rc[i] = c[h]
      BY <1>6, <2>1
    <2>3. CASE i <= n
      <3>1. i \in 1..n /\ ~(h <= m)
        BY <2>1, <2>3
      <3>2. PICK j : j = h - m /\ j = n - i + 1
        BY <2>1
      <3>3. c[h] = b[j] /\ rb[i] = b[j]
        BY <1>4, <1>6, <2>2, <3>1, <3>2
      <3>4. (rb \o ra)[i] = rb[i]
        BY <1>7, <2>3
      <3> QED
        BY <2>2, <3>3, <3>4
    <2>4. CASE ~(i <= n)
      <3>1. PICK j \in 1..m : j = i - n
        BY <2>4
      <3>2. h <= m /\ h = m - j + 1
        BY <2>1, <3>1
      <3>3. c[h] = a[h] /\ ra[j] = a[h]
        BY <1>4, <1>6, <2>2, <3>2
      <3>4. (rb \o ra)[i] = ra[j]
        BY <1>7, <2>4, <3>1
      <3> QED
        BY <2>2, <3>3, <3>4
    <2> QED
      BY <2>3, <2>4
  <1>9. rc = rb \o ra
    BY <1>6, <1>7, <1>8, SeqEqual
  <1> QED
    BY <1>3, <1>5, <1>6, <1>9 DEF Text

LEMMA SuffixOf ==
  ASSUME NEW a \in Text, NEW b \in Text
  PROVE  IsSuffix(b, a \o b) /\ IsSuffix(b, b)
  <1>1. Reverse(a) \in Text /\ Reverse(b) \in Text /\ Reverse(a \o b) = Reverse(b) \o Reverse(a)
    BY Reversed
  <1>2. IsPrefix(Reverse(b), Reverse(b) \o Reverse(a))
    BY <1>1, PrefixOf
  <1>3. IsPrefix(Reverse(b), Reverse(b))
    BY <1>1 DEF IsPrefix, Text
  <1> QED
    BY <1>1, <1>2, <1>3 DEF IsSuffix

\* What a function makes of a sequence, put together.
Mapped(f, s) == [i \in DOMAIN s |-> f[s[i]]]

LEMMA MappedConcat ==
  ASSUME NEW S, NEW f \in [S -> Text], NEW a \in Seq(S), NEW b \in Seq(S)
  PROVE  /\ Mapped(f, a) \in Seq(Text)
         /\ FlattenSeq(Mapped(f, a \o b)) = FlattenSeq(Mapped(f, a)) \o FlattenSeq(Mapped(f, b))
  <1>1. ASSUME NEW d \in Seq(S)
        PROVE  /\ Mapped(f, d) \in Seq(Text) /\ Len(Mapped(f, d)) = Len(d)
               /\ \A i \in 1..Len(d) : Mapped(f, d)[i] = f[d[i]]
    <2>1. DOMAIN d = 1..Len(d) /\ Len(d) \in Nat /\ \A i \in 1..Len(d) : d[i] \in S
      OBVIOUS
    <2>2. Mapped(f, d) \in [1..Len(d) -> Text]
      BY <2>1 DEF Mapped
    <2>3. \A i \in 1..Len(d) : Mapped(f, d)[i] = f[d[i]]
      BY <2>1 DEF Mapped
    <2> HIDE DEF Mapped
    <2> QED
      BY <2>1, <2>2, <2>3
  <1>2. PICK m, n \in Nat : m = Len(a) /\ n = Len(b)
    OBVIOUS
  <1>3. PICK c : c = a \o b
    OBVIOUS
  <1>4. /\ c \in Seq(S) /\ Len(c) = m + n
        /\ \A i \in 1..(m + n) : c[i] = IF i <= m THEN a[i] ELSE b[i - m]
    BY <1>2, <1>3, ConcatProperties
  <1>5. PICK fa, fb, fc : fa = Mapped(f, a) /\ fb = Mapped(f, b) /\ fc = Mapped(f, c)
    OBVIOUS
  <1>6. /\ fa \in Seq(Text) /\ Len(fa) = m /\ \A i \in 1..m : fa[i] = f[a[i]]
        /\ fb \in Seq(Text) /\ Len(fb) = n /\ \A i \in 1..n : fb[i] = f[b[i]]
        /\ fc \in Seq(Text) /\ Len(fc) = m + n /\ \A i \in 1..(m + n) : fc[i] = f[c[i]]
    BY <1>1, <1>2, <1>4, <1>5
  <1>7. /\ fa \o fb \in Seq(Text) /\ Len(fa \o fb) = m + n
        /\ \A i \in 1..(m + n) : (fa \o fb)[i] = IF i <= m THEN fa[i] ELSE fb[i - m]
    <2>1. /\ fa \o fb \in Seq(Text) /\ Len(fa \o fb) = Len(fa) + Len(fb)
          /\ \A i \in 1..(Len(fa) + Len(fb)) :
                (fa \o fb)[i] = IF i <= Len(fa) THEN fa[i] ELSE fb[i - Len(fa)]
      BY <1>6, ConcatProperties
    <2> QED
      BY <1>6, <2>1
  <1>8. \A i \in 1..(m + n) : fc[i] = (fa \o fb)[i]
    <2> TAKE i \in 1..(m + n)
    <2>1. CASE i <= m
      <3>1. i \in 1..m
        BY <2>1
      <3> QED
        BY <1>4, <1>6, <1>7, <2>1, <3>1
    <2>2. CASE ~(i <= m)
      <3>1. PICK j \in 1..n : j = i - m
        BY <2>2
      <3> QED
        BY <1>4, <1>6, <1>7, <2>2, <3>1
    <2> QED
      BY <2>1, <2>2
  <1>9. fc = fa \o fb
    BY <1>6, <1>7, <1>8, SeqEqual
  <1>10. FlattenSeq(fa \o fb) = FlattenSeq(fa) \o FlattenSeq(fb)
    BY <1>6, FlattenConcat
  <1> QED
    BY <1>3, <1>5, <1>6, <1>9, <1>10

-----------------------------------------------------------------------------
(* The text without its spaces. *)

Unspaceds == [c \in STRING |-> Unspaced(c)]
Contents == [t \in Text |-> Content(t)]

\* What parts of a text say together.
Whole(parts) == FlattenSeq([i \in DOMAIN parts |-> Content(parts[i])])

LEMMA OneOfSeq ==
  ASSUME NEW S, NEW c \in S
  PROVE  << c >> \in Seq(S)
  OBVIOUS

LEMMA ContentMapped ==
  /\ Unspaceds \in [STRING -> Text]
  /\ \A t \in Text : Content(t) = FlattenSeq(Mapped(Unspaceds, t)) /\ Content(t) \in Text
  <1>1. ASSUME NEW c \in STRING PROVE Unspaced(c) \in Text
    <2>1. << c >> \in Seq(STRING)
      BY OneOfSeq
    <2>2. <<>> \in Seq(STRING)
      BY EmptySeq
    <2> QED
      BY <2>1, <2>2, Zenon DEF Unspaced, Text
  <1>2. Unspaceds \in [STRING -> Text]
    BY <1>1 DEF Unspaceds
  <1>3. ASSUME NEW t \in Text
        PROVE  Content(t) = FlattenSeq(Mapped(Unspaceds, t)) /\ Content(t) \in Text
    <2>1. \A i \in DOMAIN t : t[i] \in STRING
      BY DEF Text
    <2>2. [i \in DOMAIN t |-> Unspaced(t[i])] = Mapped(Unspaceds, t)
      BY <2>1 DEF Mapped, Unspaceds
    <2>3. Mapped(Unspaceds, t) \in Seq(Text)
      BY <1>2, MappedConcat DEF Text
    <2> QED
      BY <2>2, <2>3, FlattenTyped DEF Content
  <1> QED
    BY <1>2, <1>3

LEMMA ContentConcat ==
  ASSUME NEW a \in Text, NEW b \in Text
  PROVE  /\ a \o b \in Text
         /\ Content(a \o b) = Content(a) \o Content(b)
  <1>1. a \o b \in Text
    BY ConcatProperties DEF Text
  <1>2. a \in Seq(STRING) /\ b \in Seq(STRING)
    BY DEF Text
  <1>3. PICK f : f = Unspaceds
    OBVIOUS
  <1>4. f \in [STRING -> Text]
    BY <1>3, ContentMapped
  <1>5. FlattenSeq(Mapped(f, a \o b)) = FlattenSeq(Mapped(f, a)) \o FlattenSeq(Mapped(f, b))
    BY <1>2, <1>4, MappedConcat
  <1>6. \A t \in Text : Content(t) = FlattenSeq(Mapped(f, t))
    BY <1>3, ContentMapped
  <1> QED
    BY <1>1, <1>5, <1>6

LEMMA ContentsTyped ==
  Contents \in [Text -> Text]
  BY ContentMapped DEF Contents

LEMMA WholeMapped ==
  ASSUME NEW parts \in Seq(Text)
  PROVE  Whole(parts) = FlattenSeq(Mapped(Contents, parts)) /\ Whole(parts) \in Text
  <1>1. \A i \in DOMAIN parts : parts[i] \in Text
    OBVIOUS
  <1>2. [i \in DOMAIN parts |-> Content(parts[i])] = Mapped(Contents, parts)
    BY <1>1 DEF Mapped, Contents
  <1>3. Mapped(Contents, parts) \in Seq(Text)
    BY ContentsTyped, MappedConcat
  <1> QED
    BY <1>2, <1>3, FlattenTyped DEF Whole

LEMMA WholeConcat ==
  ASSUME NEW a \in Seq(Text), NEW b \in Seq(Text)
  PROVE  Whole(a \o b) = Whole(a) \o Whole(b)
  <1>1. a \o b \in Seq(Text)
    BY ConcatProperties
  <1>2. PICK f : f = Contents
    OBVIOUS
  <1>3. f \in [Text -> Text]
    BY <1>2, ContentsTyped
  <1>4. FlattenSeq(Mapped(f, a \o b)) = FlattenSeq(Mapped(f, a)) \o FlattenSeq(Mapped(f, b))
    BY <1>3, MappedConcat
  <1>5. \A parts \in Seq(Text) : Whole(parts) = FlattenSeq(Mapped(f, parts))
    BY <1>2, WholeMapped
  <1> QED
    BY <1>1, <1>4, <1>5

LEMMA WholeAppend ==
  ASSUME NEW parts \in Seq(Text), NEW t \in Text
  PROVE  Whole(Append(parts, t)) = Whole(parts) \o Content(t)
  <1>1. << t >> \in Seq(Text) /\ Append(parts, t) = parts \o << t >>
    BY AppendIsConcat
  <1>2. [i \in DOMAIN << t >> |-> Content(<< t >>[i])] = << Content(t) >>
    OBVIOUS
  <1>3. Whole(<< t >>) = Content(t)
    BY <1>2, ContentMapped, FlattenOne DEF Whole
  <1> QED
    BY <1>1, <1>3, WholeConcat

LEMMA WholeEmpty ==
  Whole(<<>>) = <<>> /\ Content(<<>>) = <<>>
  <1>1. [i \in DOMAIN <<>> |-> Content(<<>>[i])] = <<>>
    OBVIOUS
  <1>2. [i \in DOMAIN <<>> |-> Unspaced(<<>>[i])] = <<>>
    OBVIOUS
  <1> QED
    BY <1>1, <1>2, FlattenEmpty DEF Whole, Content

\* Spaces do not count.
LEMMA ContentOfBlank ==
  ASSUME NEW t \in Text, \A i \in 1..Len(t) : Space(t[i])
  PROVE  Content(t) = <<>>
  <1>1. PICK n \in Nat : n = Len(t) /\ DOMAIN t = 1..n
    BY DEF Text
  <1>2. PICK ss : ss = [i \in 1..n |-> Unspaced(t[i])]
    OBVIOUS
  <1>3. PICK f : f = [i \in 1..n |-> <<>>]
    OBVIOUS
  <1>4. <<>> \in Text /\ <<>> \o <<>> = <<>>
    BY ConcatEmptySeq DEF Text
  <1>5. \A i \in 1..n : ss[i] = <<>> /\ f[i] = <<>>
    BY <1>1, <1>2, <1>3 DEF Unspaced
  <1>6. ss \in [1..n -> Text] /\ f \in [1..n -> Text]
    BY <1>2, <1>3, <1>4, <1>5
  <1>7. CASE n = 0
    <2>1. t = <<>>
      BY <1>1, <1>7 DEF Text
    <2> QED
      BY <2>1, WholeEmpty
  <1>8. CASE n # 0
    <2>1. \A i \in 1..n : i # 1 => i - 1 \in 1..n
      OBVIOUS
    <2>2. \A i \in 1..n : f[i] = IF i = 1 THEN ss[i] ELSE f[i - 1] \o ss[i]
      BY <1>4, <1>5, <2>1
    <2>3. f \in FlattenTables(n, ss)
      BY <1>6, <2>2 DEF FlattenTables
    <2>4. FlattenSeq(ss) = f[n] /\ n \in 1..n
      BY <1>6, <1>8, <2>3, FlattenIs
    <2> QED
      BY <1>1, <1>2, <1>5, <2>4 DEF Content
  <1> QED
    BY <1>7, <1>8

\* What the first n code points of a text say.
UpTo(t, n) == Content(SubSeq(t, 1, n))

LEMMA PieceTyped ==
  ASSUME NEW t \in Text, NEW i \in 1..(Len(t) + 1), NEW j \in 0..Len(t)
  PROVE  /\ SubSeq(t, i, j) \in Text
         /\ Len(SubSeq(t, i, j)) = IF i <= j THEN j - i + 1 ELSE 0
         /\ \A k \in 1..(j - i + 1) : SubSeq(t, i, j)[k] = t[i + k - 1]
  <1>1. Len(t) \in Nat /\ \A k \in i..j : t[k] \in STRING
    BY DEF Text
  <1> QED
    BY <1>1, SubSeqProperties DEF Text

LEMMA UpToGoesOn ==
  ASSUME NEW t \in Text, NEW i \in 0..Len(t), NEW j \in i..Len(t)
  PROVE  UpTo(t, j) = UpTo(t, i) \o Content(SubSeq(t, i + 1, j))
  <1>1. Len(t) \in Nat /\ t \in Seq(STRING)
    BY DEF Text
  <1>2. SubSeq(t, 1, i) \in Text /\ SubSeq(t, i + 1, j) \in Text
    BY <1>1, PieceTyped
  <1>3. SubSeq(t, 1, i) \o SubSeq(t, i + 1, j) = SubSeq(t, 1, j)
    <2>1. 1 \in 1..(Len(t) + 1) /\ i \in (1 - 1)..Len(t)
      BY <1>1
    <2> QED
      BY <1>1, <2>1, ConcatAdjacentSubSeq
  <1> QED
    BY <1>2, <1>3, ContentConcat DEF UpTo

LEMMA UpToBlank ==
  ASSUME NEW t \in Text, NEW i \in 0..Len(t), NEW j \in i..Len(t),
         \A k \in (i + 1)..j : Space(t[k])
  PROVE  UpTo(t, j) = UpTo(t, i)
  <1>1. Len(t) \in Nat
    BY DEF Text
  <1>2. PICK b : b = SubSeq(t, i + 1, j)
    OBVIOUS
  <1>3. /\ b \in Text /\ Len(b) = j - i
        /\ \A k \in 1..(j - i) : b[k] = t[i + k]
    <2>1. /\ b \in Text /\ Len(b) = IF i + 1 <= j THEN j - (i + 1) + 1 ELSE 0
          /\ \A k \in 1..(j - (i + 1) + 1) : b[k] = t[(i + 1) + k - 1]
      <3>1. i + 1 \in 1..(Len(t) + 1) /\ j \in 0..Len(t)
        BY <1>1
      <3> QED
        BY <1>2, <3>1, PieceTyped
    <2>2. i \in Int /\ j \in Int /\ i <= j /\ j - (i + 1) + 1 = j - i
          /\ \A k \in Int : (i + 1) + k - 1 = i + k
      BY <1>1
    <2>3. Len(b) = j - i
      BY <2>1, <2>2
    <2> QED
      BY <2>1, <2>2, <2>3
  <1>4. \A k \in 1..Len(b) : Space(b[k])
    <2> TAKE k \in 1..Len(b)
    <2>1. i + k \in (i + 1)..j /\ k \in 1..(j - i)
      BY <1>1, <1>3
    <2> QED
      BY <1>3, <2>1
  <1>5. Content(b) = <<>>
    BY <1>3, <1>4, ContentOfBlank
  <1>6. UpTo(t, i) \in Seq(STRING)
    <2>1. 1 \in 1..(Len(t) + 1)
      BY <1>1
    <2>2. SubSeq(t, 1, i) \in Text
      BY <2>1, PieceTyped
    <2>3. Content(SubSeq(t, 1, i)) \in Text
      BY <2>2, ContentMapped
    <2> QED
      BY <2>3 DEF UpTo, Text
  <1>7. UpTo(t, i) \o <<>> = UpTo(t, i)
    BY <1>6, ConcatEmptySeq
  <1> QED
    BY <1>2, <1>5, <1>7, UpToGoesOn

LEMMA UpToEnds ==
  ASSUME NEW t \in Text
  PROVE  UpTo(t, 0) = <<>> /\ UpTo(t, Len(t)) = Content(t)
  <1>1. SubSeq(t, 1, 0) = <<>>
    BY SubSeqEmpty
  <1>2. SubSeq(t, 1, Len(t)) = t
    BY SubSeqFull DEF Text
  <1> QED
    BY <1>1, <1>2, WholeEmpty DEF UpTo

-----------------------------------------------------------------------------
(* The folds of the module. *)

\* A segment, and what a text is cut into.
Part == {t \in Text : Len(t) \in 1..MaxWidth}

\* How far a text has been cut, and what one cut more makes of it.
Cutting(text) == [parts : Seq(Part), at : 1..(Len(text) + 1)]

LEMMA CutNextOk ==
  ASSUME NEW text \in Text, NEW s \in Cutting(text),
         NEW r, r = CutNext(text, s, SkipSpaces(text, s.at))
  PROVE  /\ r \in Cutting(text)
         /\ Whole(s.parts) = UpTo(text, s.at - 1) => Whole(r.parts) = UpTo(text, r.at - 1)
         /\ IF SkipSpaces(text, s.at) > Len(text) THEN r = s ELSE r.at > s.at
  <1>1. PICK n \in Nat : n = Len(text)
    BY DEF Text
  <1>2. PICK at, parts : at = s.at /\ parts = s.parts
    OBVIOUS
  <1>3. at \in 1..(n + 1) /\ parts \in Seq(Part)
    BY <1>1, <1>2 DEF Cutting
  <1>4. PICK begin : begin = SkipSpaces(text, at)
    OBVIOUS
  <1>5. /\ begin \in at..(n + 1) /\ (begin > n \/ ~Space(text[begin]))
        /\ \A k \in at..(begin - 1) : Space(text[k])
    BY <1>1, <1>3, <1>4, Skips
  <1>6. CASE begin > n
    BY <1>1, <1>2, <1>4, <1>6 DEF CutNext
  <1>7. CASE ~(begin > n)
    <2>1. PICK cut : cut = CutOf(text, begin)
      OBVIOUS
    <2>2. PICK end : end = TrimTo(text, cut)
      OBVIOUS
    <2>3. begin \in 1..n /\ begin >= at /\ ~Space(text[begin])
      BY <1>3, <1>5, <1>7
    <2>4. cut \in begin..n /\ cut < begin + MaxWidth
      BY <1>1, <2>1, <2>3, Cuts
    <2>5. end \in 0..cut /\ \A k \in (end + 1)..cut : Space(text[k])
      <3>1. cut \in 0..Len(text)
        BY <1>1, <2>3, <2>4
      <3> QED
        BY <2>2, <3>1, Trims
    <2>6. end \in begin..cut
      BY <2>3, <2>4, <2>5
    <2>7. PICK piece : piece = SubSeq(text, begin, end)
      OBVIOUS
    <2>8. piece \in Part
      <3>1. begin \in 1..(Len(text) + 1) /\ end \in 0..Len(text)
        BY <1>1, <2>3, <2>4, <2>6
      <3>2. piece \in Text /\ Len(piece) = end - begin + 1
        BY <2>6, <2>7, <3>1, PieceTyped
      <3>3. end - begin + 1 \in 1..MaxWidth
        BY <1>1, <2>3, <2>4, <2>6, SegmenterAssumption
      <3> QED
        BY <3>2, <3>3 DEF Part
    <2>9. r = [parts |-> Append(parts, piece), at |-> cut + 1]
      BY <1>1, <1>2, <1>4, <1>7, <2>1, <2>2, <2>7 DEF CutNext, CutOff
    <2>10. Append(parts, piece) \in Seq(Part) /\ cut + 1 \in 1..(n + 1) /\ cut + 1 > at
      BY <1>3, <2>3, <2>4, <2>8, AppendProperties
    <2>11. r \in Cutting(text) /\ r.at > s.at
      BY <1>1, <1>2, <2>9, <2>10 DEF Cutting
    <2>12. ASSUME Whole(parts) = UpTo(text, at - 1)
           PROVE  Whole(Append(parts, piece)) = UpTo(text, cut)
      <3>1. UpTo(text, begin - 1) = UpTo(text, at - 1)
        <4>1. PICK i, j : i = at - 1 /\ j = begin - 1
          OBVIOUS
        <4>2. i \in 0..Len(text) /\ j \in i..Len(text) /\ \A k \in (i + 1)..j : Space(text[k])
          BY <1>1, <1>3, <1>5, <2>3, <4>1
        <4> QED
          BY <4>1, <4>2, UpToBlank
      <3>2. UpTo(text, end) = UpTo(text, begin - 1) \o Content(piece)
        <4>1. PICK i : i = begin - 1
          OBVIOUS
        <4>2. i \in 0..Len(text) /\ end \in i..Len(text) /\ i + 1 = begin
          BY <1>1, <2>3, <2>4, <2>6, <4>1
        <4> QED
          BY <2>7, <4>1, <4>2, UpToGoesOn
      <3>3. UpTo(text, cut) = UpTo(text, end)
        <4>1. end \in 0..Len(text) /\ cut \in end..Len(text)
          BY <1>1, <2>3, <2>4, <2>6
        <4> QED
          BY <2>5, <4>1, UpToBlank
      <3>4. Whole(Append(parts, piece)) = Whole(parts) \o Content(piece)
        <4>1. parts \in Seq(Text) /\ piece \in Text
          <5>1. Part \subseteq Text
            BY DEF Part
          <5> QED BY <1>3, <2>8, <5>1, SeqMonotonic
        <4> QED
          BY <4>1, WholeAppend
      <3> QED
        BY <2>12, <3>1, <3>2, <3>3, <3>4
    <2>13. r.parts = Append(parts, piece) /\ r.at - 1 = cut
      BY <2>4, <2>3, <2>9
    <2> QED
      BY <1>1, <1>2, <1>4, <1>7, <2>11, <2>12, <2>13
  <1> QED
    BY <1>6, <1>7

\* The segments a text is cut into are neither empty nor too wide, and say together what
\* the text says.
LEMMA SplitWhole ==
  ASSUME NEW text \in Text
  PROVE  Split(text) \in Seq(Part) /\ Whole(Split(text)) = Content(text)
  <1> DEFINE n == Len(text)
             V == Cutting(text)
             b == [parts |-> <<>>, at |-> 1]
             op(s) == CutNext(text, s, SkipSpaces(text, s.at))
             step == [i \in 1..n |-> [s \in V |-> op(s)]]
             It[s \in SUBSET (1..n)] ==
                IF s = {} THEN b ELSE op(It[s \ {Max(s)}])
  <1>1. n \in Nat /\ DOMAIN text = 1..n
    BY DEF Text
  <1>2. b \in V
    BY <1>1 DEF Cutting
  <1>3. ASSUME NEW s \in V
        PROVE  /\ op(s) \in V
               /\ Whole(s.parts) = UpTo(text, s.at - 1) =>
                     Whole(op(s).parts) = UpTo(text, op(s).at - 1)
               /\ IF SkipSpaces(text, s.at) > n THEN op(s) = s ELSE op(s).at > s.at
    <2> HIDE DEF op
    <2>1. op(s) = CutNext(text, s, SkipSpaces(text, s.at))
      BY DEF op
    <2> QED
      BY <2>1, CutNextOk
  <1>4. step \in [1..n -> [V -> V]]
    <2> HIDE DEF op, V
    <2> QED BY <1>3
  <1>5. PICK g : g \in FoldTables(n, V, b, step)
    <2> HIDE DEF step, V, b, n
    <2> QED BY <1>1, <1>2, <1>4, FoldTable
  <1>6. g \in [SUBSET (1..n) -> V]
    BY <1>5 DEF FoldTables
  <1>7. ASSUME NEW s \in SUBSET (1..n)
        PROVE  g[s] = IF s = {} THEN b ELSE op(g[s \ {Max(s)}])
    <2>1. CASE s = {}
      BY <1>5, <2>1 DEF FoldTables
    <2>2. CASE s # {}
      <3>1. Max(s) \in s
        <4>1. s \subseteq 0..n
          BY <1>1
        <4> QED BY <1>1, <4>1, <2>2, GreatestOf
      <3>2. g[s] = step[Max(s)][g[s \ {Max(s)}]]
        BY <1>5, <2>2 DEF FoldTables
      <3>3. g[s \ {Max(s)}] \in V /\ Max(s) \in 1..n
        BY <1>6, <3>1
      <3> HIDE DEF op, V, n
      <3> QED
        BY <2>2, <3>2, <3>3
    <2> QED
      BY <2>1, <2>2
  <1>8. It = [s \in SUBSET (1..n) |-> IF s = {} THEN b ELSE op(It[s \ {Max(s)}])]
    <2> DEFINE F(f) == [s \in SUBSET (1..n) |-> IF s = {} THEN b ELSE op(f[s \ {Max(s)}])]
    <2>1. g = F(g)
      <3> HIDE DEF op, b, n, V
      <3> QED BY <1>6, <1>7
    <2>2. It = CHOOSE f : f = F(f)
      BY DEF It
    <2> HIDE DEF F, It
    <2>3. It = F(It)
      BY <2>1, <2>2
    <2> QED
      BY <2>3 DEF F
  <1>9. Split(text) = It[1..n].parts
    BY <1>1 DEF Split, FoldLeftDomain, FoldLeft, MapThenFoldSet
  <1> DEFINE Reached(k) ==
               {s \in V : /\ Whole(s.parts) = UpTo(text, s.at - 1)
                          /\ s.at >= k + 1 \/ SkipSpaces(text, s.at) > n}
  <1>10. It[1..n] \in Reached(n)
    <2> DEFINE W == [k \in 0..n |-> Reached(k)]
    <2>1. It[{}] \in W[0]
      <3>1. It[{}] = b
        <4> HIDE DEF It, op, b, n
        <4> QED BY <1>8
      <3>2. b \in Reached(0)
        BY <1>2, UpToEnds, WholeEmpty
      <3>3. W[0] = Reached(0)
        BY <1>1
      <3> HIDE DEF It, V, b, n, W, Reached
      <3> QED
        BY <3>1, <3>2, <3>3
    <2>2. ASSUME NEW k \in 0..(n - 1), It[1..k] \in W[k] PROVE It[1..(k + 1)] \in W[k + 1]
      <3>1. It[1..(k + 1)] = op(It[1..k])
        <4> HIDE DEF It, op, b, n
        <4> QED BY <1>1, <1>8, FoldPlaces
      <3>2. It[1..k] \in Reached(k) /\ k + 1 \in 0..n /\ k \in Nat
        <4> HIDE DEF It, V, n, Reached
        <4> QED BY <1>1, <2>2
      <3>3. PICK s \in V : /\ s = It[1..k] /\ Whole(s.parts) = UpTo(text, s.at - 1)
                           /\ s.at >= k + 1 \/ SkipSpaces(text, s.at) > n
        <4> HIDE DEF It, V, n
        <4> QED BY <3>2
      <3>4. PICK r : r = op(s)
        OBVIOUS
      <3>5. r \in V /\ Whole(r.parts) = UpTo(text, r.at - 1)
            /\ IF SkipSpaces(text, s.at) > n THEN r = s ELSE r.at > s.at
        <4> HIDE DEF op, V, n
        <4> QED BY <1>3, <3>3, <3>4
      <3>6. r.at >= k + 2 \/ SkipSpaces(text, r.at) > n
        <4>1. r.at \in Nat /\ s.at \in Nat
          BY <3>3, <3>5, <1>1 DEF Cutting
        <4> HIDE DEF op, V, n
        <4> QED BY <3>2, <3>3, <3>5, <4>1
      <3>7. r \in Reached(k + 1)
        <4> HIDE DEF op, V, n, It
        <4>1. PICK j : j = k + 1
          OBVIOUS
        <4>2. r.at >= j + 1 \/ SkipSpaces(text, r.at) > n
          <5>1. j + 1 = k + 2
            BY ONLY <3>2, <4>1
          <5> QED BY ONLY <3>6, <5>1
        <4>3. r \in Reached(j)
          BY ONLY <3>5, <4>2, Zenon DEF Reached
        <4> HIDE DEF Reached
        <4> QED BY ONLY <4>1, <4>3
      <3>8. W[k + 1] = Reached(k + 1)
        BY <3>2
      <3> HIDE DEF It, op, V, W, Reached
      <3> QED
        BY <3>1, <3>3, <3>4, <3>7, <3>8
    <2>3. It[1..n] \in W[n]
      <3> HIDE DEF It, W, n
      <3> QED BY <1>1, <2>1, <2>2, FoldKeeps
    <2> HIDE DEF It, V, Reached
    <2> QED
      BY <1>1, <2>3
  <1>11. PICK s \in V : /\ s = It[1..n] /\ Whole(s.parts) = UpTo(text, s.at - 1)
                        /\ s.at >= n + 1 \/ SkipSpaces(text, s.at) > n
    <2> HIDE DEF It, V, n
    <2> QED BY <1>10
  <1>12. s.parts \in Seq(Part) /\ s.at \in 1..(n + 1)
    BY DEF Cutting
  <1> HIDE DEF It, V
  <1>13. UpTo(text, n) = UpTo(text, s.at - 1)
    <2>1. PICK i : i = s.at - 1
      OBVIOUS
    <2>2. i \in 0..Len(text) /\ n \in i..Len(text) /\ i + 1 = s.at
      BY <1>1, <1>12, <2>1
    <2>3. \A k \in (i + 1)..n : Space(text[k])
      <3>1. PICK begin : begin = SkipSpaces(text, s.at)
        OBVIOUS
      <3>2. /\ begin \in s.at..(n + 1)
            /\ \A k \in s.at..(begin - 1) : Space(text[k])
        BY <1>12, <3>1, Skips
      <3>3. s.at >= n + 1 \/ begin > n
        BY <1>11, <3>1
      <3> QED
        BY <1>1, <1>12, <2>2, <3>2, <3>3
    <2> QED
      BY <2>1, <2>2, <2>3, UpToBlank
  <1>14. UpTo(text, n) = Content(text)
    BY UpToEnds
  <1> HIDE DEF n
  <1> QED
    BY <1>9, <1>11, <1>12, <1>13, <1>14

LEMMA NormalizedTyped ==
  ASSUME NEW text \in Text
  PROVE  Normalized(text) \in Text
  <1> DEFINE n == Len(text)
             op(t, i) == SpaceOnce(t, text[i])
             step == [i \in 1..n |-> [t \in Text |-> op(t, i)]]
             It[s \in SUBSET (1..n)] ==
                IF s = {} THEN <<>> ELSE op(It[s \ {Max(s)}], Max(s))
  <1>1. n \in Nat /\ DOMAIN text = 1..n /\ \A i \in 1..n : text[i] \in STRING
    BY DEF Text
  <1>2. <<>> \in Text
    BY DEF Text
  <1>3. ASSUME NEW t \in Text, NEW i \in 1..n PROVE op(t, i) \in Text
    <2>1. Append(t, text[i]) \in Text
      BY <1>1 DEF Text
    <2> QED
      BY <2>1 DEF SpaceOnce
  <1>4. step \in [1..n -> [Text -> Text]]
    <2> HIDE DEF op, n
    <2> QED BY <1>3
  <1>5. PICK g : g \in FoldTables(n, Text, <<>>, step)
    <2> HIDE DEF step, n
    <2> QED BY <1>1, <1>2, <1>4, FoldTable
  <1>6. g \in [SUBSET (1..n) -> Text]
    BY <1>5 DEF FoldTables
  <1>7. ASSUME NEW s \in SUBSET (1..n)
        PROVE  g[s] = IF s = {} THEN <<>> ELSE op(g[s \ {Max(s)}], Max(s))
    <2>1. CASE s = {}
      BY <1>5, <2>1 DEF FoldTables
    <2>2. CASE s # {}
      <3>1. Max(s) \in s
        <4>1. s \subseteq 0..n
          BY <1>1
        <4> QED BY <1>1, <4>1, <2>2, GreatestOf
      <3>2. g[s] = step[Max(s)][g[s \ {Max(s)}]]
        BY <1>5, <2>2 DEF FoldTables
      <3>3. g[s \ {Max(s)}] \in Text /\ Max(s) \in 1..n
        BY <1>6, <3>1
      <3> HIDE DEF op, n
      <3> QED
        BY <2>2, <3>2, <3>3
    <2> QED
      BY <2>1, <2>2
  <1>8. It = [s \in SUBSET (1..n) |->
                 IF s = {} THEN <<>> ELSE op(It[s \ {Max(s)}], Max(s))]
    <2> DEFINE F(f) == [s \in SUBSET (1..n) |->
                           IF s = {} THEN <<>> ELSE op(f[s \ {Max(s)}], Max(s))]
    <2>1. g = F(g)
      <3> HIDE DEF op, n
      <3> QED BY <1>6, <1>7
    <2>2. It = CHOOSE f : f = F(f)
      BY DEF It
    <2> HIDE DEF F, It
    <2>3. It = F(It)
      BY <2>1, <2>2
    <2> QED
      BY <2>3 DEF F
  <1>9. Normalized(text) = SpaceTrimmed(It[1..n])
    BY <1>1 DEF Normalized, FoldLeft, MapThenFoldSet
  <1>10. It[1..n] \in Text
    <2> DEFINE W == [k \in 0..n |-> Text]
    <2>1. It[{}] \in W[0]
      <3> HIDE DEF It, op, n
      <3> QED BY <1>1, <1>2, <1>8
    <2>2. ASSUME NEW k \in 0..(n - 1), It[1..k] \in W[k] PROVE It[1..(k + 1)] \in W[k + 1]
      <3>1. It[1..(k + 1)] = op(It[1..k], k + 1)
        <4> HIDE DEF It, op, n
        <4> QED BY <1>1, <1>8, FoldPlaces
      <3>2. It[1..k] \in Text /\ k + 1 \in 0..n /\ k + 1 \in 1..n
        <4> HIDE DEF It, n
        <4> QED BY <1>1, <2>2
      <3> HIDE DEF It, op
      <3> QED
        BY <1>3, <3>1, <3>2
    <2>3. It[1..n] \in W[n]
      <3> HIDE DEF It, W, n
      <3> QED BY <1>1, <2>1, <2>2, FoldKeeps
    <2> QED
      BY <1>1, <2>3
  <1>11. ASSUME NEW t \in Text PROVE SpaceTrimmed(t) \in Text
    <2>1. CASE t # <<>>
      <3>1. Len(t) \in Nat /\ \A i \in 1..(Len(t) - 1) : t[i] \in STRING
        BY DEF Text
      <3>2. SubSeq(t, 1, Len(t) - 1) \in Seq(STRING)
        BY <3>1, SubSeqProperties
      <3> QED
        BY <3>2 DEF SpaceTrimmed, Front, Text
    <2> QED
      BY <2>1 DEF SpaceTrimmed
  <1> HIDE DEF It
  <1> QED
    BY <1>9, <1>10, <1>11

\* How far a text has been matched, and what one segment more makes of it.
Matching(text) == [count : Nat, tail : 1..(Len(text) + 1), on : BOOLEAN]

LEMMA MatchedOnOk ==
  ASSUME NEW text \in Text, NEW m \in Matching(text), NEW source \in Text,
         NEW r, r = MatchedOn(text, m, SkipSpaces(text, m.tail), source)
  PROVE  /\ r \in Matching(text)
         /\ IF r.on
            THEN /\ m.on /\ r.count = m.count + 1
                 /\ UpTo(text, r.tail - 1) = UpTo(text, m.tail - 1) \o Content(source)
            ELSE r.count = m.count /\ r.tail = m.tail
  <1>1. PICK n \in Nat : n = Len(text)
    BY DEF Text
  <1>2. PICK k \in Nat : k = Len(source)
    BY DEF Text
  <1>3. PICK begin : begin = SkipSpaces(text, m.tail)
    OBVIOUS
  <1>4. m.count \in Nat /\ m.tail \in 1..(n + 1) /\ m.on \in BOOLEAN
    BY <1>1 DEF Matching
  <1>5. begin \in m.tail..(n + 1) /\ \A h \in m.tail..(begin - 1) : Space(text[h])
    BY <1>1, <1>3, <1>4, Skips
  <1>6. CASE m.on /\ begin + k <= n + 1 /\ Goes(text, begin, source)
    <2>1. r = [count |-> m.count + 1, tail |-> begin + k, on |-> TRUE]
      BY <1>1, <1>2, <1>3, <1>6 DEF MatchedOn
    <2>2. begin + k \in 1..(n + 1)
      BY <1>4, <1>5, <1>6
    <2>3. r \in Matching(text) /\ r.on /\ r.count = m.count + 1 /\ r.tail = begin + k
      BY <1>1, <1>4, <2>1, <2>2 DEF Matching
    <2>4. UpTo(text, begin - 1) = UpTo(text, m.tail - 1)
      <3>1. PICK i, j : i = m.tail - 1 /\ j = begin - 1
        OBVIOUS
      <3>2. i \in 0..Len(text) /\ j \in i..Len(text) /\ i + 1 = m.tail
            /\ \A h \in (i + 1)..j : Space(text[h])
        BY <1>1, <1>4, <1>5, <3>1
      <3> QED
        BY <3>1, <3>2, UpToBlank
    <2>5. UpTo(text, r.tail - 1) = UpTo(text, begin - 1) \o Content(source)
      <3>1. PICK i, j : i = begin - 1 /\ j = r.tail - 1 /\ j = begin + k - 1
        BY <1>4, <1>5, <2>3
      <3>2. i \in 0..Len(text) /\ j \in i..Len(text) /\ i + 1 = begin
        BY <1>1, <1>4, <1>5, <1>6, <3>1
      <3>3. SubSeq(text, begin, j) = source
        BY <1>2, <1>6, <3>1 DEF Goes
      <3> QED
        BY <3>1, <3>2, <3>3, UpToGoesOn
    <2>6. UpTo(text, r.tail - 1) = UpTo(text, m.tail - 1) \o Content(source)
      BY <2>3, <2>4, <2>5
    <2> QED
      BY <1>6, <2>3, <2>6, Zenon
  <1>7. CASE ~(m.on /\ begin + k <= n + 1 /\ Goes(text, begin, source))
    <2>1. r = [m EXCEPT !.on = FALSE]
      BY <1>1, <1>2, <1>3, <1>7 DEF MatchedOn
    <2>2. r \in Matching(text) /\ ~r.on /\ r.count = m.count /\ r.tail = m.tail
      BY <2>1 DEF Matching
    <2> QED
      BY <2>2
  <1> QED
    BY <1>6, <1>7

\* The segments a text begins with are a number of them, they say what it says up to
\* where it goes on.
LEMMA MatchWhole ==
  ASSUME NEW text \in Text, NEW segs, NEW n \in Nat, DOMAIN segs = 1..n,
         \A i \in 1..n : segs[i].text \in Text
  PROVE  LET match == MatchPrefix(text, segs)
         IN  /\ match.count \in 0..n
             /\ match.tail \in 1..(Len(text) + 1)
             /\ Whole([i \in 1..match.count |-> segs[i].text]) = UpTo(text, match.tail - 1)
  <1> DEFINE V == Matching(text)
             b == [count |-> 0, tail |-> 1, on |-> TRUE]
             op(m, i) == MatchedOn(text, m, SkipSpaces(text, m.tail), segs[i].text)
             step == [i \in 1..n |-> [m \in V |-> op(m, i)]]
             said(k) == [i \in 1..k |-> segs[i].text]
             It[s \in SUBSET (1..n)] ==
                IF s = {} THEN b ELSE op(It[s \ {Max(s)}], Max(s))
  <1>1. Len(text) \in Nat
    BY DEF Text
  <1>2. b \in V
    BY <1>1 DEF Matching
  <1>3. ASSUME NEW m \in V, NEW i \in 1..n
        PROVE  /\ op(m, i) \in V
               /\ IF op(m, i).on
                  THEN /\ m.on /\ op(m, i).count = m.count + 1
                       /\ UpTo(text, op(m, i).tail - 1)
                            = UpTo(text, m.tail - 1) \o Content(segs[i].text)
                  ELSE op(m, i).count = m.count /\ op(m, i).tail = m.tail
    <2>1. PICK r : r = op(m, i)
      OBVIOUS
    <2>2. PICK source : source = segs[i].text
      OBVIOUS
    <2>3. source \in Text /\ r = MatchedOn(text, m, SkipSpaces(text, m.tail), source)
      BY <2>1, <2>2
    <2>4. /\ r \in V
          /\ IF r.on
             THEN /\ m.on /\ r.count = m.count + 1
                  /\ UpTo(text, r.tail - 1) = UpTo(text, m.tail - 1) \o Content(source)
             ELSE r.count = m.count /\ r.tail = m.tail
      BY <2>3, MatchedOnOk
    <2> HIDE DEF op, V
    <2> QED
      BY <2>1, <2>2, <2>4
  <1>4. step \in [1..n -> [V -> V]]
    <2> HIDE DEF op, V
    <2> QED BY <1>3
  <1>5. PICK g : g \in FoldTables(n, V, b, step)
    <2> HIDE DEF step, V, b
    <2> QED BY <1>2, <1>4, FoldTable
  <1>6. g \in [SUBSET (1..n) -> V]
    BY <1>5 DEF FoldTables
  <1>7. ASSUME NEW s \in SUBSET (1..n)
        PROVE  g[s] = IF s = {} THEN b ELSE op(g[s \ {Max(s)}], Max(s))
    <2>1. CASE s = {}
      BY <1>5, <2>1 DEF FoldTables
    <2>2. CASE s # {}
      <3>1. Max(s) \in s
        <4>1. s \subseteq 0..n
          OBVIOUS
        <4> QED BY <4>1, <2>2, GreatestOf
      <3>2. g[s] = step[Max(s)][g[s \ {Max(s)}]]
        BY <1>5, <2>2 DEF FoldTables
      <3>3. g[s \ {Max(s)}] \in V /\ Max(s) \in 1..n
        BY <1>6, <3>1
      <3> HIDE DEF op, V
      <3> QED
        BY <2>2, <3>2, <3>3
    <2> QED
      BY <2>1, <2>2
  <1>8. It = [s \in SUBSET (1..n) |->
                 IF s = {} THEN b ELSE op(It[s \ {Max(s)}], Max(s))]
    <2> DEFINE F(f) == [s \in SUBSET (1..n) |->
                           IF s = {} THEN b ELSE op(f[s \ {Max(s)}], Max(s))]
    <2>1. g = F(g)
      <3> HIDE DEF op, b, V
      <3> QED BY <1>6, <1>7
    <2>2. It = CHOOSE f : f = F(f)
      BY DEF It
    <2> HIDE DEF F, It
    <2>3. It = F(It)
      BY <2>1, <2>2
    <2> QED
      BY <2>3 DEF F
  <1>9. MatchPrefix(text, segs) = [It[1..n] EXCEPT !.tail = SkipSpaces(text, @)]
    BY DEF MatchPrefix, FoldLeft, MapThenFoldSet
  <1>10. ASSUME NEW k \in 0..(n - 1)
         PROVE  Whole(said(k + 1)) = Whole(said(k)) \o Content(segs[k + 1].text)
    <2>1. PICK head, last : head = said(k) /\ last = segs[k + 1].text
      OBVIOUS
    <2>2. head \in Seq(Text) /\ last \in Text /\ Len(head) = k
      BY <2>1
    <2>3. said(k + 1) \in Seq(Text) /\ Len(said(k + 1)) = k + 1
      OBVIOUS
    <2>4. /\ Append(head, last) \in Seq(Text) /\ Len(Append(head, last)) = k + 1
          /\ \A i \in 1..(k + 1) : Append(head, last)[i] = IF i = k + 1 THEN last ELSE head[i]
      BY <2>2, AppendProperties
    <2>5. \A i \in 1..(k + 1) : said(k + 1)[i] = IF i = k + 1 THEN last ELSE head[i]
      BY <2>1
    <2> HIDE DEF said
    <2>6. said(k + 1) = Append(head, last)
      BY <2>3, <2>4, <2>5, SeqEqual
    <2> QED
      BY <2>1, <2>2, <2>6, WholeAppend
  <1> DEFINE Reached(k) ==
               {m \in V : /\ m.count <= k /\ (m.on => m.count = k)
                          /\ Whole(said(m.count)) = UpTo(text, m.tail - 1)}
  <1>11. It[1..n] \in Reached(n)
    <2> DEFINE W == [k \in 0..n |-> Reached(k)]
    <2>1. It[{}] \in W[0]
      <3>1. It[{}] = b
        <4> HIDE DEF It, op, b
        <4> QED BY <1>8
      <3>2. b \in Reached(0)
        <4>1. said(0) = <<>>
          OBVIOUS
        <4> HIDE DEF said
        <4> QED
          BY <1>2, <4>1, UpToEnds, WholeEmpty
      <3> HIDE DEF It, b, Reached
      <3> QED
        BY <3>1, <3>2
    <2>2. ASSUME NEW k \in 0..(n - 1), It[1..k] \in W[k] PROVE It[1..(k + 1)] \in W[k + 1]
      <3>1. It[1..(k + 1)] = op(It[1..k], k + 1)
        <4> HIDE DEF It, op, b
        <4> QED BY <1>8, FoldPlaces
      <3>2. It[1..k] \in Reached(k) /\ k \in Nat /\ k + 1 \in 0..n /\ k + 1 \in 1..n
        <4> HIDE DEF It, Reached
        <4> QED BY <2>2
      <3>3. PICK m \in V : /\ m = It[1..k] /\ m.count <= k /\ (m.on => m.count = k)
                           /\ Whole(said(m.count)) = UpTo(text, m.tail - 1)
        <4> HIDE DEF It, V, said
        <4> QED BY <3>2
      <3>4. PICK r : r = op(m, k + 1)
        OBVIOUS
      <3>5. /\ r \in V
            /\ IF r.on
               THEN /\ m.on /\ r.count = m.count + 1
                    /\ UpTo(text, r.tail - 1)
                         = UpTo(text, m.tail - 1) \o Content(segs[k + 1].text)
               ELSE r.count = m.count /\ r.tail = m.tail
        <4> HIDE DEF op, V
        <4> QED BY <1>3, <3>2, <3>4
      <3>6. m.count \in Nat
        BY DEF Matching
      <3>7. Whole(said(r.count)) = UpTo(text, r.tail - 1)
        <4>1. CASE r.on
          <5>1. m.count = k /\ r.count = k + 1
            <6> HIDE DEF op, V, said
            <6> QED BY <3>3, <3>5, <4>1
          <5> HIDE DEF op, V, said
          <5> QED
            BY <1>10, <3>3, <3>5, <4>1, <5>1
        <4>2. CASE ~r.on
          <5> HIDE DEF op, V, said
          <5> QED
            BY <3>3, <3>5, <4>2
        <4> QED
          BY <4>1, <4>2
      <3>8. r.count <= k + 1 /\ (r.on => r.count = k + 1)
        <4> HIDE DEF op, V, said
        <4> QED BY <3>2, <3>3, <3>5, <3>6
      <3>9. r \in Reached(k + 1)
        <4> HIDE DEF op, V, said
        <4> QED BY <3>5, <3>7, <3>8
      <3>10. W[k + 1] = Reached(k + 1)
        BY <3>2
      <3> HIDE DEF It, op, V, W, Reached
      <3> QED
        BY <3>1, <3>3, <3>4, <3>9, <3>10
    <2>3. It[1..n] \in W[n]
      <3> HIDE DEF It, W
      <3> QED BY <2>1, <2>2, FoldKeeps
    <2> HIDE DEF It, V, Reached
    <2> QED
      BY <2>3
  <1>12. PICK m \in V : /\ m = It[1..n] /\ m.count <= n
                        /\ Whole(said(m.count)) = UpTo(text, m.tail - 1)
    <2> HIDE DEF It, V, said
    <2> QED BY <1>11
  <1>13. m.tail \in 1..(Len(text) + 1) /\ m.count \in 0..n
    BY <1>12 DEF Matching
  <1> HIDE DEF It
  <1>14. PICK match : match = MatchPrefix(text, segs)
    OBVIOUS
  <1>15. match.count = m.count /\ match.tail = SkipSpaces(text, m.tail)
    BY <1>9, <1>12, <1>14 DEF Matching
  <1>16. /\ match.tail \in m.tail..(Len(text) + 1)
         /\ \A h \in m.tail..(match.tail - 1) : Space(text[h])
    BY <1>13, <1>15, Skips
  <1>17. match.tail \in 1..(Len(text) + 1)
    BY <1>1, <1>13, <1>16
  <1>18. UpTo(text, match.tail - 1) = UpTo(text, m.tail - 1)
    <2>1. PICK i, j : i = m.tail - 1 /\ j = match.tail - 1
      OBVIOUS
    <2>2. i \in 0..Len(text) /\ j \in i..Len(text) /\ i + 1 = m.tail
          /\ \A h \in (i + 1)..j : Space(text[h])
      BY <1>1, <1>13, <1>16, <2>1
    <2> QED
      BY <2>1, <2>2, UpToBlank
  <1> QED
    BY <1>12, <1>13, <1>14, <1>15, <1>17, <1>18

\* The common prefix of texts is no longer than any of them.
LEMMA CommonPrefixOf ==
  ASSUME NEW S, S \subseteq Text, NEW t \in S
  PROVE  /\ LongestCommonPrefix(S) \in Text
         /\ Len(LongestCommonPrefix(S)) \in 0..Len(t)
         /\ \A i \in 1..Len(LongestCommonPrefix(S)) : LongestCommonPrefix(S)[i] = t[i]
  <1> DEFINE C == CommonPrefixes(S)
             L == {Len(p) : p \in C}
  <1>1. ASSUME NEW p \in C PROVE p \in Text /\ Len(p) \in 0..Len(t)
    <2>1. PICK s \in S : p \in Prefixes(s)
      BY DEF CommonPrefixes
    <2>2. PICK l \in 0..Len(s) : p = SubSeq(s, 1, l)
      BY <2>1 DEF Prefixes
    <2>3. s \in Seq(STRING) /\ Len(s) \in Nat /\ \A i \in 1..l : s[i] \in STRING
      BY DEF Text
    <2>4. p \in Seq(STRING)
      BY <2>2, <2>3, SubSeqProperties
    <2>5. Len(p) <= Len(t) /\ Len(t) \in Nat
      BY DEF CommonPrefixes, IsPrefix, Text
    <2> QED
      BY <2>4, <2>5 DEF Text
  <1>2. <<>> \in C
    <2>1. \A s \in S : Len(s) \in Nat /\ SubSeq(s, 1, 0) = <<>>
      BY SubSeqEmpty DEF Text
    <2>2. <<>> \in Prefixes(t)
      BY <2>1 DEF Prefixes
    <2>3. \A s \in S : IsPrefix(<<>>, s)
      <3>1. Len(<<>>) = 0 /\ SubSeq(<<>>, 1, 0) = <<>>
        BY SubSeqEmpty
      <3> QED
        BY <2>1, <3>1 DEF IsPrefix
    <2> QED
      BY <2>2, <2>3 DEF CommonPrefixes
  <1>3. L \subseteq 0..Len(t) /\ L # {} /\ Len(t) \in Nat
    <2> HIDE DEF C
    <2> QED BY <1>1, <1>2 DEF Text
  <1>4. Max(L) \in L /\ \A k \in L : Max(L) >= k
    <2> HIDE DEF L
    <2> QED BY <1>3, GreatestOf
  <1>5. PICK p \in C : Len(p) = Max(L)
    <2> HIDE DEF C
    <2> QED BY <1>4
  <1>6. \A o \in C : Len(o) <= Len(p)
    <2> HIDE DEF C
    <2>1. \A o \in C : Len(o) \in L /\ Len(o) \in Nat
      BY <1>1
    <2>2. Len(p) \in Nat
      BY <1>1
    <2> HIDE DEF L
    <2> QED BY <1>4, <1>5, <2>1, <2>2
  <1>7. LongestCommonPrefix(S) \in C
    <2> HIDE DEF C
    <2>1. LongestCommonPrefix(S) = CHOOSE p1 \in C : \A o \in C : Len(o) <= Len(p1)
      BY DEF LongestCommonPrefix, C
    <2> QED
      BY <1>5, <1>6, <2>1
  <1>8. ASSUME NEW q \in C, NEW i \in 1..Len(q)
        PROVE  q[i] = t[i]
    <2>1. q \in Text /\ Len(q) \in 0..Len(t)
      BY <1>1
    <2>2. SubSeq(q, 1, Len(q)) = SubSeq(t, 1, Len(q))
      BY DEF CommonPrefixes, IsPrefix
    <2>3. 1 \in 1..(Len(q) + 1) /\ Len(q) \in 0..Len(q) /\ 1 \in 1..(Len(t) + 1)
          /\ i \in 1..(Len(q) - 1 + 1) /\ 1 + i - 1 = i
      BY <2>1 DEF Text
    <2>4. SubSeq(q, 1, Len(q))[i] = q[i]
      BY <2>1, <2>3, PieceTyped
    <2>5. SubSeq(t, 1, Len(q))[i] = t[i]
      BY <2>1, <2>3, PieceTyped
    <2> QED
      BY <2>2, <2>4, <2>5
  <1> HIDE DEF C
  <1> QED
    BY <1>1, <1>7, <1>8

-----------------------------------------------------------------------------
(* The state. *)

Segment == [id : Nat, rev : Nat, text : Part, final : BOOLEAN, order : Nat,
            replaces : SUBSET Nat]

Utterance == [open : BOOLEAN, closed : BOOLEAN, stopped : BOOLEAN, tombstones : Nat,
              snapshots : Seq(Text), ages : Seq(Nat), segments : Seq(Segment),
              gone : SUBSET Nat]

\* How a text lies on the segments of an utterance.
Lies(u, al) ==
    /\ al.parts \in Seq(Part)
    /\ al.prefix \in Nat /\ al.suffix \in Nat
    /\ al.prefix + al.suffix <= Len(u.segments)
    /\ al.prefix + al.suffix <= Len(al.parts)
    /\ \A i \in 1..al.prefix : al.parts[i] = u.segments[i].text
    /\ \A j \in 0..(al.suffix - 1) :
          u.segments[Len(u.segments) - j].text = al.parts[Len(al.parts) - j]

LEMMA CommonSuffixOf ==
  ASSUME NEW a, NEW b, NEW room \in Nat
  PROVE  /\ CommonSuffix(a, b, room) \in 0..room
         /\ \A j \in 0..(CommonSuffix(a, b, room) - 1) : a[Len(a) - j].text = b[Len(b) - j]
  <1> DEFINE S == {k \in 0..room : \A j \in 0..(k - 1) : a[Len(a) - j].text = b[Len(b) - j]}
  <1>1. S \subseteq 0..room /\ 0 \in S
    OBVIOUS
  <1>2. Max(S) \in S
    <2> HIDE DEF S
    <2> QED BY <1>1, GreatestOf
  <1>3. CommonSuffix(a, b, room) = Max(S)
    BY DEF CommonSuffix
  <1>4. ASSUME NEW k \in S
        PROVE  k \in 0..room /\ \A j \in 0..(k - 1) : a[Len(a) - j].text = b[Len(b) - j]
    OBVIOUS
  <1> HIDE DEF S
  <1> QED
    BY <1>2, <1>3, <1>4

LEMMA RoomBehind ==
  ASSUME NEW n \in Nat, NEW k \in Nat, NEW c \in Nat, c <= n, c <= k
  PROVE  /\ Min({n, k}) - c \in Nat
         /\ Min({n, k}) <= n /\ Min({n, k}) <= k /\ Min({n, k}) \in Nat
  <1>1. CASE n <= k
    <2>1. Min({n, k}) = n
      BY <1>1 DEF Min
    <2> QED BY <1>1, <2>1
  <1>2. CASE n > k
    <2>1. Min({n, k}) = k
      BY <1>2 DEF Min
    <2> QED BY <1>2, <2>1
  <1> QED
    BY <1>1, <1>2

LEMMA PartsLie ==
  ASSUME NEW u \in Utterance, NEW parts \in Seq(Part), NEW count \in Nat,
         count <= Len(u.segments), count <= Len(parts),
         \A i \in 1..count : parts[i] = u.segments[i].text
  PROVE  Lies(u, AlignedOn(u, count, parts))
  <1>1. PICK n : n = Len(u.segments)
    OBVIOUS
  <1>2. PICK k : k = Len(parts)
    OBVIOUS
  <1>3. PICK room : room = Min({n, k}) - count
    OBVIOUS
  <1>4. n \in Nat /\ k \in Nat /\ count <= n /\ count <= k
    BY <1>1, <1>2 DEF Utterance
  <1>5. room \in Nat /\ count + room <= n /\ count + room <= k
    <2>1. /\ Min({n, k}) - count \in Nat
          /\ Min({n, k}) <= n /\ Min({n, k}) <= k /\ Min({n, k}) \in Nat
      BY <1>4, RoomBehind
    <2> QED
      BY <1>3, <1>4, <2>1
  <1>6. PICK suffix : suffix = CommonSuffix(u.segments, parts, room)
    OBVIOUS
  <1>7. suffix \in 0..room /\ \A j \in 0..(suffix - 1) : u.segments[n - j].text = parts[k - j]
    BY <1>1, <1>2, <1>5, <1>6, CommonSuffixOf
  <1>8. suffix \in Nat /\ count + suffix <= n /\ count + suffix <= k
    BY <1>4, <1>5, <1>7
  <1>9. AlignedOn(u, count, parts) = [parts |-> parts, prefix |-> count, suffix |-> suffix]
    BY <1>1, <1>2, <1>3, <1>6 DEF AlignedOn
  <1> QED
    BY <1>1, <1>2, <1>4, <1>7, <1>8, <1>9 DEF Lies

LEMMA TextLies ==
  ASSUME NEW u \in Utterance, NEW text \in Text
  PROVE  /\ Lies(u, Alignment(u, text))
         /\ Whole(Alignment(u, text).parts) = Content(text)
  <1>1. PICK m : m = MatchPrefix(text, u.segments)
    OBVIOUS
  <1>2. PICK n : n = Len(u.segments)
    OBVIOUS
  <1>3. /\ u.segments \in Seq(Segment) /\ n \in Nat /\ DOMAIN u.segments = 1..n
        /\ \A i \in 1..n : u.segments[i] \in Segment
    BY <1>2 DEF Utterance
  <1>4. \A i \in 1..n : u.segments[i].text \in Part /\ Len(u.segments[i].text) \in Nat
    BY <1>3 DEF Segment, Part, Text
  <1>5. /\ m.count \in 0..n /\ m.tail \in 1..(Len(text) + 1)
        /\ Whole([i \in 1..m.count |-> u.segments[i].text]) = UpTo(text, m.tail - 1)
    <2>1. \A i \in 1..n : u.segments[i].text \in Text
      BY <1>4 DEF Part
    <2> QED
      BY <1>1, <1>3, <2>1, MatchWhole
  <1>6. PICK tail : tail = Split(Rest(text, m.tail))
    OBVIOUS
  <1>7. /\ tail \in Seq(Part) /\ Len(tail) \in Nat
        /\ Whole(tail) = Content(Rest(text, m.tail))
    <2>1. Len(text) \in Nat /\ \A i \in m.tail..Len(text) : text[i] \in STRING
      BY <1>5 DEF Text
    <2>2. Rest(text, m.tail) \in Text
      BY <1>5, <2>1, SubSeqProperties DEF Rest, Text
    <2>3. tail \in Seq(Part) /\ Whole(tail) = Content(Rest(text, m.tail))
      BY <1>6, <2>2, SplitWhole
    <2> QED
      BY <2>3
  <1>8. PICK head : head = [i \in 1..m.count |-> u.segments[i].text]
    OBVIOUS
  <1>9. head \in Seq(Part) /\ Len(head) = m.count /\ m.count \in Nat /\ m.count <= n
        /\ \A i \in 1..m.count : head[i] = u.segments[i].text
    <2>1. m.count \in Nat /\ m.count <= n /\ \A i \in 1..m.count : i \in 1..n
      BY <1>3, <1>5
    <2> QED
      BY <1>4, <1>8, <2>1
  <1>10. /\ head \o tail \in Seq(Part)
         /\ Len(head \o tail) = m.count + Len(tail)
         /\ \A i \in 1..(m.count + Len(tail)) :
               (head \o tail)[i] = IF i <= m.count THEN head[i] ELSE tail[i - m.count]
    <2>1. /\ head \o tail \in Seq(Part)
          /\ Len(head \o tail) = Len(head) + Len(tail)
          /\ \A i \in 1..(Len(head) + Len(tail)) :
                (head \o tail)[i] = IF i <= Len(head) THEN head[i] ELSE tail[i - Len(head)]
      BY <1>7, <1>9, ConcatProperties
    <2> QED
      BY <1>9, <2>1
  <1>11. /\ m.count <= Len(head \o tail)
         /\ \A i \in 1..m.count : (head \o tail)[i] = u.segments[i].text
    BY <1>7, <1>9, <1>10
  <1>12. Alignment(u, text) = AlignedOn(u, m.count, head \o tail)
    BY <1>1, <1>6, <1>8 DEF Alignment, AlignedBehind
  <1>13. Whole(head \o tail) = Content(text)
    <2>1. Part \subseteq Text
      BY DEF Part
    <2>2. head \in Seq(Text) /\ tail \in Seq(Text)
      BY <1>7, <1>9, <2>1, SeqMonotonic
    <2>3. Whole(head \o tail) = Whole(head) \o Whole(tail)
      BY <2>2, WholeConcat
    <2>4. Content(text) = UpTo(text, m.tail - 1) \o Content(Rest(text, m.tail))
      <3>1. PICK i : i = m.tail - 1
        OBVIOUS
      <3>2. i \in 0..Len(text) /\ Len(text) \in i..Len(text) /\ i + 1 = m.tail
        BY <1>5, <3>1 DEF Text
      <3>3. UpTo(text, Len(text)) = UpTo(text, i) \o Content(SubSeq(text, i + 1, Len(text)))
        BY <3>2, UpToGoesOn
      <3> QED
        BY <3>1, <3>2, <3>3, UpToEnds DEF Rest
    <2> QED
      BY <1>5, <1>7, <1>8, <2>3, <2>4
  <1>14. AlignedOn(u, m.count, head \o tail).parts = head \o tail
    BY DEF AlignedOn
  <1> QED
    BY <1>2, <1>9, <1>10, <1>11, <1>12, <1>13, <1>14, PartsLie

-----------------------------------------------------------------------------
(* The invariant, and what the result of a call is to the utterance before it. *)

\* An utterance whose ids are among the first next ones.
UttOk(u, next) ==
    /\ u \in Utterance
    /\ Managed(u) <= MaxSegments
    /\ \A i \in 1..Len(u.segments) : u.segments[i].order = i /\ u.segments[i].id \in 1..next
    /\ \A i, j \in 1..Len(u.segments) : u.segments[i].id = u.segments[j].id => i = j
    /\ u.gone \subseteq IdsOf(u.segments)

HearsOk(u) ==
    /\ Len(u.snapshots) <= MaxSnapshots
    /\ Len(u.ages) = IF u.snapshots = <<>> THEN 0 ELSE Len(Last(u.snapshots))

NoneFinal(u) == \A i \in 1..Len(u.segments) : ~u.segments[i].final

\* What the caller has of the utterance u.
Agrees(u, had) ==
    /\ DOMAIN had = IdsOf(u.segments) \ u.gone
    /\ \A i \in 1..Len(u.segments) :
          u.segments[i].id \in DOMAIN had => had[u.segments[i].id] = u.segments[i]

SegInv ==
    /\ texts \in Vocabularies /\ incremental \in BOOLEAN /\ nextId \in 0..MaxId
    /\ UttOk(utt, nextId) /\ HearsOk(utt)
    /\ ~utt.closed => NoneFinal(utt)
    /\ ~utt.open => utt = NoUtterance
    /\ Agrees(utt, taken)

\* A segment of the result is new, and the caller is told of it, or it goes on from one
\* of u, and the caller is told unless nothing about it changed.
IsNew(u, r, s) ==
    /\ s.id > nextId /\ s \in r.upserts /\ s.rev = 1 /\ s.id \notin r.utt.gone
    /\ s.replaces = {} \/ (s.replaces = r.retired /\ r.retired \cap u.gone = {})
GoesOn(u, r, s) ==
    \E k \in 1..Len(u.segments) :
        /\ s.id = u.segments[k].id /\ Feed!Later(u.segments[k], s)
        /\ s = u.segments[k] \/ s \in r.upserts
        /\ s.id \in r.utt.gone <=> s.id \in u.gone \cup r.retired

Continues(u, r) ==
    /\ r.nextId \in Nat /\ r.nextId >= nextId
    /\ r.retired \subseteq IdsOf(u.segments)
    /\ \A s \in r.upserts : \E i \in 1..Len(r.utt.segments) : s = r.utt.segments[i]
    /\ \A i \in 1..Len(r.utt.segments) :
          IsNew(u, r, r.utt.segments[i]) \/ GoesOn(u, r, r.utt.segments[i])
    /\ \A k \in 1..Len(u.segments) :
          u.segments[k].id \notin u.gone \cup r.retired =>
             u.segments[k].id \in IdsOf(r.utt.segments)

\* What was said and is over is kept as it is.
KeepsSaid(u, r) ==
    \A k \in 1..Len(u.segments) :
        u.segments[k].id \in u.gone =>
            \E i \in 1..Len(r.utt.segments) :
                /\ r.utt.segments[i].id = u.segments[k].id
                /\ r.utt.segments[i].text = u.segments[k].text

\* The result of a call made on the utterance u.
ResultOk(u, r) ==
    UttOk(r.utt, r.nextId) /\ HearsOk(r.utt) /\ Continues(u, r) /\ KeepsSaid(u, r)

\* One call, as a caption feed sees it.
Offers(before, after, next) ==
    LET going == DOMAIN before \ DOMAIN after
        fresh == DOMAIN after \ DOMAIN before
    IN  /\ next \in Nat /\ next >= nextId
        /\ \A id \in fresh :
              nextId < id /\ id <= next /\ after[id].rev = 1 /\ after[id].replaces \in {{}, going}
        /\ \A id \in DOMAIN after \ fresh : Feed!Later(before[id], after[id])
        /\ \A id, other \in DOMAIN after : id # other => after[id].order # after[other].order

LEMMA IdsOfSegments ==
  ASSUME NEW u \in Utterance
  PROVE  /\ DOMAIN u.segments = 1..Len(u.segments) /\ Len(u.segments) \in Nat
         /\ \A i \in 1..Len(u.segments) : u.segments[i] \in Segment /\ u.segments[i].id \in Nat
         /\ IdsOf(u.segments) = {u.segments[i].id : i \in 1..Len(u.segments)}
  <1>1. /\ DOMAIN u.segments = 1..Len(u.segments) /\ Len(u.segments) \in Nat
        /\ \A i \in 1..Len(u.segments) : u.segments[i] \in Segment
    BY DEF Utterance
  <1> QED
    BY <1>1 DEF IdsOf, Segment

\* The caller who takes over what the call returns has the segments as they are, and has
\* been given a caption feed.
LEMMA TakesOver ==
  ASSUME NEW u, NEW r, NEW base, nextId \in Nat, UttOk(u, nextId),
         UttOk(r.utt, r.nextId), Continues(u, r), Agrees(u, base)
  PROVE  /\ Agrees(r.utt, Takes(base, r))
         /\ Offers(base, Takes(base, r), r.nextId)
  <1> DEFINE old == u.segments
             new == r.utt.segments
             staying == DOMAIN base \ r.retired
             news == {s \in r.upserts : s.id \in staying \/ s.id > nextId}
             T == Takes(base, r)
  <1>1. /\ u \in Utterance /\ r.utt \in Utterance
        /\ IdsOf(old) = {old[i].id : i \in 1..Len(old)}
        /\ IdsOf(new) = {new[i].id : i \in 1..Len(new)}
        /\ \A i \in 1..Len(new) : new[i].id \in Nat /\ new[i].id <= r.nextId /\ new[i].order = i
        /\ \A i \in 1..Len(old) : old[i].id \in Nat /\ ~(old[i].id > nextId)
        /\ \A i, j \in 1..Len(new) : new[i].id = new[j].id => i = j
        /\ \A i, j \in 1..Len(old) : old[i].id = old[j].id => i = j
    <2>1. /\ u \in Utterance /\ r.utt \in Utterance
          /\ \A i \in 1..Len(old) : old[i].id \in 1..nextId
          /\ \A i \in 1..Len(new) : new[i].id \in 1..r.nextId /\ new[i].order = i
          /\ \A i, j \in 1..Len(new) : new[i].id = new[j].id => i = j
          /\ \A i, j \in 1..Len(old) : old[i].id = old[j].id => i = j
      BY DEF UttOk
    <2>2. r.nextId \in Nat
      BY DEF Continues
    <2>3. \A x \in 1..nextId : x \in Nat /\ ~(x > nextId)
      OBVIOUS
    <2>4. \A x \in 1..r.nextId : x \in Nat /\ x <= r.nextId
      BY <2>2
    <2>5. IdsOf(old) = {old[i].id : i \in 1..Len(old)}
      BY <2>1, IdsOfSegments
    <2>6. IdsOf(new) = {new[i].id : i \in 1..Len(new)}
      BY <2>1, IdsOfSegments
    <2> QED
      BY <2>1, <2>3, <2>4, <2>5, <2>6
  <1>2. /\ DOMAIN base = IdsOf(old) \ u.gone
        /\ \A i \in 1..Len(old) : old[i].id \in DOMAIN base => base[old[i].id] = old[i]
    BY DEF Agrees
  <1>3. /\ r.nextId \in Nat /\ r.nextId >= nextId /\ r.retired \subseteq IdsOf(old)
        /\ \A s \in r.upserts : \E i \in 1..Len(new) : s = new[i]
        /\ \A i \in 1..Len(new) : IsNew(u, r, new[i]) \/ GoesOn(u, r, new[i])
        /\ \A k \in 1..Len(old) : old[k].id \notin u.gone \cup r.retired => old[k].id \in IdsOf(new)
    BY DEF Continues
  <1>4. ASSUME NEW i \in 1..Len(new), GoesOn(u, r, new[i])
        PROVE  \E k \in 1..Len(old) :
                  /\ new[i].id = old[k].id /\ Feed!Later(old[k], new[i])
                  /\ new[i] = old[k] \/ new[i] \in r.upserts
                  /\ new[i].id \in r.utt.gone <=> new[i].id \in u.gone \cup r.retired
                  /\ ~(new[i].id > nextId)
    <2>1. PICK k \in 1..Len(old) :
                  /\ new[i].id = old[k].id /\ Feed!Later(old[k], new[i])
                  /\ new[i] = old[k] \/ new[i] \in r.upserts
                  /\ new[i].id \in r.utt.gone <=> new[i].id \in u.gone \cup r.retired
      BY <1>4 DEF GoesOn
    <2>2. ~(new[i].id > nextId)
      BY <1>1, <2>1
    <2> QED
      BY <2>1, <2>2
  <1>5. \A i \in 1..Len(new) : IsNew(u, r, new[i]) =>
           /\ new[i].id > nextId /\ new[i] \in r.upserts /\ new[i].rev = 1
           /\ new[i].id \notin r.utt.gone
           /\ new[i].replaces = {} \/ (new[i].replaces = r.retired /\ r.retired \cap u.gone = {})
    BY DEF IsNew
  <1>6. /\ DOMAIN T = staying \cup {s.id : s \in news}
        /\ \A id \in DOMAIN T :
              T[id] = IF \E s \in news : s.id = id THEN CHOOSE s \in news : s.id = id ELSE base[id]
    BY DEF Takes
  <1> HIDE DEF T, news, staying
  <1>7. DOMAIN T = IdsOf(new) \ r.utt.gone
    <2>1. ASSUME NEW id \in staying PROVE id \in IdsOf(new) /\ id \notin r.utt.gone
      <3>1. id \in IdsOf(old) /\ id \notin u.gone /\ id \notin r.retired
        BY <1>2 DEF staying
      <3>2. PICK k \in 1..Len(old) : id = old[k].id
        BY <1>1, <3>1
      <3>3. id \in IdsOf(new)
        BY <1>3, <3>1, <3>2
      <3>4. PICK i \in 1..Len(new) : id = new[i].id
        BY <1>1, <3>3
      <3>5. ~IsNew(u, r, new[i])
        BY <1>1, <1>5, <3>2, <3>4
      <3> QED
        BY <1>3, <1>4, <3>1, <3>3, <3>4, <3>5
    <2>2. ASSUME NEW s \in news PROVE s.id \in IdsOf(new) /\ s.id \notin r.utt.gone
      <3>1. s \in r.upserts /\ (s.id \in staying \/ s.id > nextId)
        BY DEF news
      <3>2. PICK i \in 1..Len(new) : s = new[i]
        BY <1>3, <3>1
      <3>3. CASE s.id \in staying
        BY <2>1, <3>3
      <3>4. CASE s.id > nextId
        <4>1. ~GoesOn(u, r, new[i])
          BY <1>1, <1>4, <3>2, <3>4
        <4> QED
          BY <1>1, <1>3, <1>5, <3>2, <4>1
      <3> QED
        BY <3>1, <3>3, <3>4
    <2>3. ASSUME NEW i \in 1..Len(new), new[i].id \notin r.utt.gone
          PROVE  new[i].id \in DOMAIN T
      <3>1. CASE IsNew(u, r, new[i])
        <4>1. new[i] \in news
          BY <1>5, <3>1 DEF news
        <4> QED
          BY <1>6, <4>1
      <3>2. CASE GoesOn(u, r, new[i])
        <4>1. new[i].id \in IdsOf(old) /\ new[i].id \notin u.gone \cup r.retired
          BY <1>1, <1>4, <2>3, <3>2
        <4> QED
          BY <1>2, <1>6, <4>1 DEF staying
      <3> QED
        BY <1>3, <3>1, <3>2
    <2>4. DOMAIN T \subseteq IdsOf(new) \ r.utt.gone
      BY <1>6, <2>1, <2>2
    <2>5. IdsOf(new) \ r.utt.gone \subseteq DOMAIN T
      BY <1>1, <2>3
    <2> QED
      BY <2>4, <2>5
  <1>8. ASSUME NEW i \in 1..Len(new), new[i].id \in DOMAIN T PROVE T[new[i].id] = new[i]
    <2>1. \A s \in news : s.id = new[i].id => s = new[i]
      BY <1>1, <1>3 DEF news
    <2>2. CASE \E s \in news : s.id = new[i].id
      BY <1>6, <1>8, <2>1, <2>2
    <2>3. CASE ~\E s \in news : s.id = new[i].id
      <3>1. new[i].id \in staying /\ T[new[i].id] = base[new[i].id]
        BY <1>6, <1>8, <2>3
      <3>2. new[i] \notin r.upserts
        BY <2>3, <3>1 DEF news
      <3>3. GoesOn(u, r, new[i])
        BY <1>3, <1>5, <3>2
      <3>4. PICK k \in 1..Len(old) : new[i].id = old[k].id /\ new[i] = old[k]
        BY <1>4, <3>2, <3>3
      <3> QED
        BY <1>2, <3>1, <3>4 DEF staying
    <2> QED
      BY <2>2, <2>3
  <1>9. Agrees(r.utt, T)
    BY <1>7, <1>8 DEF Agrees
  <1>10. ASSUME NEW id \in DOMAIN T
         PROVE  \E i \in 1..Len(new) : id = new[i].id /\ T[id] = new[i] /\ id \notin r.utt.gone
    BY <1>1, <1>7, <1>8
  <1>11. r.retired \cap u.gone = {} => DOMAIN base \ DOMAIN T = r.retired
    <2>1. ASSUME NEW id \in r.retired, r.retired \cap u.gone = {}
          PROVE  id \in DOMAIN base /\ id \notin DOMAIN T
      <3>1. id \in DOMAIN base
        BY <1>2, <1>3, <2>1
      <3>2. PICK k \in 1..Len(old) : id = old[k].id
        BY <1>1, <1>3, <2>1
      <3>3. SUFFICES ASSUME id \in DOMAIN T PROVE FALSE
        BY <3>1
      <3>4. PICK i \in 1..Len(new) : id = new[i].id /\ id \notin r.utt.gone
        BY <1>10, <3>3
      <3>5. ~IsNew(u, r, new[i])
        BY <1>1, <1>5, <3>2, <3>4
      <3> QED
        BY <1>3, <1>4, <2>1, <3>4, <3>5
    <2>2. \A id \in DOMAIN base \ r.retired : id \in DOMAIN T
      BY <1>6 DEF staying
    <2> QED
      BY <2>1, <2>2
  <1>12. ASSUME NEW id \in DOMAIN T, id \notin DOMAIN base
         PROVE  /\ nextId < id /\ id <= r.nextId /\ T[id].rev = 1
                /\ T[id].replaces \in {{}, DOMAIN base \ DOMAIN T}
    <2>1. PICK i \in 1..Len(new) : id = new[i].id /\ T[id] = new[i] /\ id \notin r.utt.gone
      BY <1>10
    <2>2. ASSUME GoesOn(u, r, new[i]) PROVE FALSE
      <3>1. PICK k \in 1..Len(old) :
               id = old[k].id /\ (id \in r.utt.gone <=> id \in u.gone \cup r.retired)
        BY <1>4, <2>1, <2>2
      <3>2. id \in IdsOf(old) /\ id \notin u.gone
        BY <1>1, <2>1, <3>1
      <3> QED
        BY <1>2, <1>12, <3>2
    <2>3. IsNew(u, r, new[i])
      BY <1>3, <2>2
    <2>4. nextId < id /\ id <= r.nextId
      BY <1>1, <1>5, <2>1, <2>3
    <2>5. T[id].rev = 1 /\ T[id].replaces \in {{}, DOMAIN base \ DOMAIN T}
      BY <1>5, <1>11, <2>1, <2>3
    <2> QED
      BY <2>4, <2>5
  <1>13. ASSUME NEW id \in DOMAIN T, id \in DOMAIN base
         PROVE  Feed!Later(base[id], T[id])
    <2>1. PICK i \in 1..Len(new) : id = new[i].id /\ T[id] = new[i]
      BY <1>10
    <2>2. PICK k \in 1..Len(old) : id = old[k].id
      BY <1>1, <1>2, <1>13
    <2>3. ~IsNew(u, r, new[i])
      BY <1>1, <1>5, <2>1, <2>2
    <2>4. PICK j \in 1..Len(old) : new[i].id = old[j].id /\ Feed!Later(old[j], new[i])
      BY <1>3, <1>4, <2>3
    <2> QED
      BY <1>2, <1>13, <2>1, <2>4
  <1>14. ASSUME NEW id \in DOMAIN T, NEW other \in DOMAIN T, id # other
         PROVE  T[id].order # T[other].order
    BY <1>1, <1>10, <1>14
  <1>15. Offers(base, T, r.nextId)
    BY <1>3, <1>12, <1>13, <1>14 DEF Offers
  <1> QED
    BY <1>9, <1>15 DEF T

\* The result of a call, and what a reconciliation leaves of the rest of the utterance.
Outcome(u, final, r) ==
    /\ ResultOk(u, r)
    /\ r.utt.open = u.open /\ r.utt.closed = u.closed
    /\ ~final /\ NoneFinal(u) => NoneFinal(r.utt)

\* The segments of the result are these parts of a text.  Before the final text the rest
\* of the utterance is as it was.
Retold(u, r, parts, text, final) ==
    /\ r.text = text /\ Len(r.utt.segments) = Len(parts)
    /\ \A i \in 1..Len(parts) :
          r.utt.segments[i].text = parts[i] /\ r.utt.segments[i].final = final
    /\ ~final => r.utt.stopped = u.stopped /\ r.utt.snapshots = u.snapshots
                 /\ r.utt.ages = u.ages

\* The segments stay and stand for what they stood for, or they are cut from the text:
\* from all of it, or from its end when there would be too many.
Stays(u, r) ==
    /\ r.utt.segments = u.segments /\ r.utt.tombstones = u.tombstones
    /\ r.text = IF u.segments = <<>> THEN <<>> ELSE transcript
Says(u, r, text, final) ==
    \/ Stays(u, r) /\ r.utt.stopped
    \/ \E parts \in Seq(Part) :
          /\ Retold(u, r, parts, text, final)
          /\ IsSuffix(Whole(parts), Content(text))
          /\ ~final \/ Managed(r.utt) < MaxSegments => Whole(parts) = Content(text)

\* A call that leaves the segments alone; some of them may go with it.
LEMMA SameSegments ==
  ASSUME NEW u, NEW r, NEW final \in BOOLEAN, nextId \in Nat, UttOk(u, nextId),
         r.utt \in Utterance, HearsOk(r.utt), r.utt.open = u.open, r.utt.closed = u.closed,
         r.utt.segments = u.segments, r.utt.tombstones = u.tombstones,
         r.utt.gone = u.gone \cup r.retired, r.retired \subseteq IdsOf(u.segments),
         r.upserts = {}, r.nextId = nextId
  PROVE  Outcome(u, final, r)
  <1>1. UttOk(r.utt, r.nextId)
    BY DEF UttOk, Managed
  <1>2. /\ Len(u.segments) \in Nat
        /\ IdsOf(u.segments) = {u.segments[i].id : i \in 1..Len(u.segments)}
    <2>1. u \in Utterance
      BY DEF UttOk
    <2> QED
      BY <2>1, IdsOfSegments
  <1>3. \A i \in 1..Len(u.segments) : GoesOn(u, r, u.segments[i])
    BY DEF GoesOn, Feed!Later
  <1>4. Continues(u, r)
    BY <1>2, <1>3 DEF Continues
  <1>5. KeepsSaid(u, r)
    BY DEF KeepsSaid
  <1>6. NoneFinal(u) => NoneFinal(r.utt)
    BY DEF NoneFinal
  <1> QED
    BY <1>1, <1>4, <1>5, <1>6 DEF Outcome, ResultOk

LEMMA UnchangedOk ==
  ASSUME NEW u, NEW v, NEW final \in BOOLEAN, nextId \in Nat, UttOk(u, nextId),
         v \in Utterance, HearsOk(v), v.open = u.open, v.closed = u.closed,
         v.segments = u.segments, v.tombstones = u.tombstones, v.gone = u.gone
  PROVE  Outcome(u, final, Unchanged(v))
  <1> DEFINE r == Unchanged(v)
  <1>1. r.utt = v /\ r.nextId = nextId /\ r.upserts = {} /\ r.retired = {}
    BY DEF Unchanged, Told
  <1> HIDE DEF r
  <1> QED
    BY <1>1, SameSegments DEF r

LEMMA StoppedUtterance ==
  ASSUME NEW u \in Utterance
  PROVE  LET v == [u EXCEPT !.stopped = TRUE]
         IN  /\ v \in Utterance
             /\ v.open = u.open /\ v.closed = u.closed /\ v.segments = u.segments
             /\ v.tombstones = u.tombstones /\ v.gone = u.gone
             /\ v.snapshots = u.snapshots /\ v.ages = u.ages /\ v.stopped
  BY DEF Utterance

LEMMA AmbiguousOk ==
  ASSUME NEW u, NEW final \in BOOLEAN, NEW affected, nextId \in Nat, UttOk(u, nextId),
         HearsOk(u), affected \subseteq IdsOf(u.segments)
  PROVE  Outcome(u, final, Ambiguous(u, affected))
  <1> DEFINE r == Ambiguous(u, affected)
             v == [u EXCEPT !.stopped = TRUE, !.gone = @ \cup affected]
  <1>1. u \in Utterance
    BY DEF UttOk
  <1>2. affected \subseteq Nat
    BY <1>1, IdsOfSegments
  <1>3. /\ v \in Utterance /\ v.open = u.open /\ v.closed = u.closed
        /\ v.segments = u.segments /\ v.tombstones = u.tombstones
        /\ v.gone = u.gone \cup affected
        /\ v.snapshots = u.snapshots /\ v.ages = u.ages
    BY <1>1, <1>2 DEF Utterance
  <1>4. r.utt = v /\ r.nextId = nextId /\ r.upserts = {} /\ r.retired = affected
    BY DEF Ambiguous, Told
  <1> HIDE DEF r, v
  <1>5. HearsOk(v)
    BY <1>3 DEF HearsOk
  <1> QED
    BY <1>3, <1>4, <1>5, SameSegments DEF r

LEMMA AnewOk ==
  ASSUME NEW u, NEW text, NEW parts \in Seq(Part), nextId \in Nat, UttOk(u, nextId),
         HearsOk(u), u.gone = {}, Len(parts) <= MaxSegments
  PROVE  LET r == Anew(u, text, Fresh(parts))
         IN  /\ Outcome(u, TRUE, r) /\ Retold(u, r, parts, text, TRUE)
             /\ Managed(r.utt) = Len(parts)
  <1> DEFINE r == Anew(u, text, Fresh(parts))
             v == [u EXCEPT !.stopped = TRUE, !.segments = Fresh(parts), !.tombstones = 0]
  <1>1. PICK k : k = Len(parts)
    OBVIOUS
  <1>2. k \in Nat /\ DOMAIN parts = 1..k /\ \A i \in 1..k : parts[i] \in Part
    BY <1>1
  <1>3. PICK fresh : fresh = Fresh(parts)
    OBVIOUS
  <1>4. /\ fresh \in Seq(Segment) /\ Len(fresh) = k /\ DOMAIN fresh = 1..k
        /\ \A i \in 1..k : /\ fresh[i].id = nextId + i /\ fresh[i].rev = 1
                           /\ fresh[i].order = i /\ fresh[i].replaces = {}
                           /\ fresh[i].text = parts[i] /\ fresh[i].final = TRUE
    <2>1. fresh = [i \in 1..k |-> NewSegment(nextId + i, parts[i], TRUE, i, {})]
      BY <1>2, <1>3 DEF Fresh
    <2>2. \A i \in 1..k : NewSegment(nextId + i, parts[i], TRUE, i, {}) \in Segment
      BY <1>2 DEF NewSegment, Segment
    <2> QED
      BY <1>2, <2>1, <2>2 DEF NewSegment
  <1>5. u \in Utterance
    BY DEF UttOk
  <1>6. /\ v \in Utterance /\ v.open = u.open /\ v.closed = u.closed
        /\ v.segments = fresh /\ v.tombstones = 0 /\ v.gone = u.gone
        /\ v.snapshots = u.snapshots /\ v.ages = u.ages
    BY <1>3, <1>4, <1>5 DEF Utterance
  <1>7. /\ r.utt = v /\ r.nextId = nextId + k /\ r.retired = IdsOf(u.segments)
        /\ r.upserts = Range(fresh) /\ r.text = text
    BY <1>3, <1>4 DEF Anew, Told
  <1> HIDE DEF r, v
  <1>8. UttOk(v, r.nextId)
    <2>1. Managed(v) <= MaxSegments
      BY <1>1, <1>2, <1>4, <1>6 DEF Managed
    <2>2. \A i \in 1..k : fresh[i].id \in 1..(nextId + k)
      BY <1>2, <1>4
    <2>3. \A i, j \in 1..k : fresh[i].id = fresh[j].id => i = j
      BY <1>2, <1>4
    <2> QED
      BY <1>4, <1>6, <1>7, <2>1, <2>2, <2>3 DEF UttOk
  <1>9. HearsOk(v)
    BY <1>6 DEF HearsOk
  <1>10. Continues(u, r)
    <2>1. r.nextId \in Nat /\ r.nextId >= nextId
      BY <1>2, <1>7
    <2>2. \A i \in 1..k : fresh[i].id > nextId /\ fresh[i] \in r.upserts
      <3>1. \A i \in 1..k : nextId + i > nextId
        BY <1>2
      <3> QED
        BY <1>4, <1>7, <3>1 DEF Range
    <2>3. \A i \in 1..k : IsNew(u, r, fresh[i])
      BY <1>4, <1>6, <1>7, <2>2 DEF IsNew
    <2>4. \A s \in r.upserts : \E i \in 1..k : s = fresh[i]
      BY <1>4, <1>7 DEF Range
    <2>5. \A i \in 1..Len(u.segments) : u.segments[i].id \in r.retired
      BY <1>5, <1>7, IdsOfSegments
    <2> QED
      BY <1>4, <1>6, <1>7, <2>1, <2>3, <2>4, <2>5 DEF Continues
  <1>11. KeepsSaid(u, r)
    BY DEF KeepsSaid
  <1> QED
    <2>1. Outcome(u, TRUE, r)
      BY <1>6, <1>7, <1>8, <1>9, <1>10, <1>11 DEF Outcome, ResultOk
    <2>2. Retold(u, r, parts, text, TRUE)
      BY <1>1, <1>4, <1>6, <1>7 DEF Retold
    <2>3. Managed(r.utt) = k
      BY <1>2, <1>4, <1>6, <1>7 DEF Managed
    <2> QED
      BY <1>1, <2>1, <2>2, <2>3 DEF r

LEMMA TailOfTyped ==
  ASSUME NEW parts \in Seq(Part)
  PROVE  /\ TailOf(parts) \in Seq(Part) /\ Len(TailOf(parts)) <= MaxSegments
         /\ IsSuffix(Whole(TailOf(parts)), Whole(parts))
         /\ Len(TailOf(parts)) < MaxSegments => TailOf(parts) = parts
  <1>1. PICK k : k = Len(parts)
    OBVIOUS
  <1>2. k \in Nat /\ MaxSegments \in Nat \ {0} /\ \A i \in 1..k : parts[i] \in Part
    BY <1>1, SegmenterAssumption
  <1>3. PICK m : m = Max({1, k - MaxSegments + 1})
    OBVIOUS
  <1>4. /\ m \in 1..(k + 1) /\ k - m + 1 <= MaxSegments
        /\ m = 1 \/ k - m + 1 = MaxSegments
    <2>1. CASE k >= MaxSegments
      <3>1. m = k - MaxSegments + 1
        BY <1>2, <1>3, <2>1 DEF Max
      <3> QED BY <1>2, <2>1, <3>1
    <2>2. CASE k < MaxSegments
      <3>1. m = 1
        BY <1>2, <1>3, <2>2 DEF Max
      <3> QED BY <1>2, <2>2, <3>1
    <2> QED
      BY <1>2, <2>1, <2>2
  <1>5. \A i \in m..k : parts[i] \in Part
    BY <1>2, <1>4
  <1>6. SubSeq(parts, m, k) \in Seq(Part)
        /\ Len(SubSeq(parts, m, k)) = IF m <= k THEN k - m + 1 ELSE 0
    BY <1>2, <1>4, <1>5, SubSeqProperties
  <1>7. TailOf(parts) = SubSeq(parts, m, k)
    BY <1>1, <1>3 DEF TailOf
  <1>8. parts \in Seq(Text) /\ TailOf(parts) \in Seq(Text)
    <2>1. Part \subseteq Text
      BY DEF Part
    <2> QED
      BY <1>6, <1>7, <2>1, SeqMonotonic
  <1>9. IsSuffix(Whole(TailOf(parts)), Whole(parts))
    <2>1. PICK j : j = m - 1
      OBVIOUS
    <2>2. PICK head : head = SubSeq(parts, 1, j)
      OBVIOUS
    <2>3. j \in (1 - 1)..Len(parts) /\ k \in j..Len(parts) /\ j + 1 = m /\ 1 \in 1..(Len(parts) + 1)
      BY <1>1, <1>2, <1>4, <2>1
    <2>4. head \o SubSeq(parts, j + 1, k) = SubSeq(parts, 1, k)
      BY <2>2, <2>3, ConcatAdjacentSubSeq
    <2>5. SubSeq(parts, 1, k) = parts
      BY <1>1, SubSeqFull
    <2>6. head \in Seq(Text)
      <3>1. \A i \in 1..j : parts[i] \in Text
        BY <1>1, <1>8, <2>3
      <3>2. j \in Int
        BY <2>3
      <3> QED
        BY <2>2, <3>1, <3>2, SubSeqProperties
    <2>7. head \o TailOf(parts) = parts
      BY <1>7, <2>3, <2>4, <2>5
    <2>8. Whole(head \o TailOf(parts)) = Whole(head) \o Whole(TailOf(parts))
      BY <1>8, <2>6, WholeConcat
    <2>9. Whole(head) \in Text /\ Whole(TailOf(parts)) \in Text
      BY <1>8, <2>6, WholeMapped
    <2> QED
      BY <2>7, <2>8, <2>9, SuffixOf
  <1>10. ASSUME Len(TailOf(parts)) < MaxSegments PROVE TailOf(parts) = parts
    <2>1. m = 1
      BY <1>2, <1>4, <1>6, <1>7, <1>10
    <2> QED
      BY <1>1, <1>7, <2>1, SubSeqFull
  <1> QED
    BY <1>2, <1>4, <1>6, <1>7, <1>9, <1>10

LEMMA LimitedOk ==
  ASSUME NEW u, NEW text \in Text, NEW final \in BOOLEAN, nextId \in Nat,
         UttOk(u, nextId), HearsOk(u)
  PROVE  LET r == Limited(u, text, final)
         IN  Outcome(u, final, r) /\ Says(u, r, text, final)
  <1>1. u \in Utterance
    BY DEF UttOk
  <1>2. CASE ~final \/ u.gone # {}
    <2> DEFINE v == [u EXCEPT !.stopped = TRUE]
    <2>1. /\ v \in Utterance
          /\ v.open = u.open /\ v.closed = u.closed /\ v.segments = u.segments
          /\ v.tombstones = u.tombstones /\ v.gone = u.gone
          /\ v.snapshots = u.snapshots /\ v.ages = u.ages /\ v.stopped
      BY <1>1, StoppedUtterance
    <2>2. Limited(u, text, final) = Unchanged(v)
      BY <1>2 DEF Limited
    <2> HIDE DEF v
    <2>3. HearsOk(v)
      BY <2>1 DEF HearsOk
    <2>4. Outcome(u, final, Unchanged(v))
      BY <2>1, <2>3, UnchangedOk
    <2>5. Stays(u, Unchanged(v)) /\ Unchanged(v).utt.stopped
      BY <2>1 DEF Stays, Unchanged, Told
    <2> QED
      BY <2>2, <2>4, <2>5 DEF Says
  <1>3. CASE final /\ u.gone = {}
    <2>1. Limited(u, text, final) = Anew(u, text, Fresh(TailOf(Split(text))))
      BY <1>3 DEF Limited
    <2>2. PICK parts : parts = TailOf(Split(text))
      OBVIOUS
    <2>3. /\ parts \in Seq(Part) /\ Len(parts) <= MaxSegments
          /\ IsSuffix(Whole(parts), Content(text))
          /\ Len(parts) < MaxSegments => Whole(parts) = Content(text)
      BY <2>2, SplitWhole, TailOfTyped
    <2>4. final = TRUE
      BY <1>3
    <2>5. PICK r : r = Limited(u, text, final)
      OBVIOUS
    <2>6. r = Anew(u, text, Fresh(parts))
      BY <2>1, <2>2, <2>5
    <2>7. Outcome(u, TRUE, r) /\ Retold(u, r, parts, text, TRUE) /\ Managed(r.utt) = Len(parts)
      BY <1>3, <2>3, <2>6, AnewOk
    <2>8. Says(u, r, text, TRUE)
      BY <2>3, <2>7 DEF Says
    <2> QED
      BY <2>4, <2>5, <2>7, <2>8
  <1> QED
    BY <1>2, <1>3

\* Where the places of the new text come from: p are the same at the beginning, q at the
\* end, of n segments and k parts.
Source(n, k, q, i) == IF i > k - q THEN n - k + i ELSE i

\* Every kept place has a source of its own, no source of a kept place is in the changed
\* part, and the segments outside the changed part are all sources.
Sourced(n, k, p, q, one) ==
    /\ \A i \in 1..k : i <= p \/ i > k - q \/ one = 1 =>
          Source(n, k, q, i) \in 1..n
    /\ \A i \in 1..k : i <= p => Source(n, k, q, i) = i
    /\ \A i \in 1..k : i > k - q =>
          k - i \in 0..(q - 1) /\ Source(n, k, q, i) = n - (k - i) /\ k - (k - i) = i
    /\ \A i, j \in 1..k :
          /\ i <= p \/ i > k - q \/ one = 1
          /\ j <= p \/ j > k - q \/ one = 1
          /\ Source(n, k, q, i) = Source(n, k, q, j)
          => i = j
    /\ \A i \in 1..k : one = 0 /\ (i <= p \/ i > k - q) =>
          \A j \in 1..(n - p - q) : Source(n, k, q, i) # p + j
    /\ \A h \in 1..n :
          \/ \E i \in 1..k : (i <= p \/ i > k - q \/ one = 1) /\ Source(n, k, q, i) = h
          \/ \E j \in 1..(n - p - q) : one = 0 /\ h = p + j

LEMMA Sources ==
  ASSUME NEW n \in Nat, NEW k \in Nat, NEW p \in Nat, NEW q \in Nat, p + q <= n, p + q <= k,
         NEW one \in {0, 1}, one = 1 => n = p + q + 1 /\ k = p + q + 1
  PROVE  Sourced(n, k, p, q, one)
  <1>1. ASSUME NEW h \in 1..n
        PROVE  \/ \E i \in 1..k : (i <= p \/ i > k - q \/ one = 1) /\ Source(n, k, q, i) = h
               \/ \E j \in 1..(n - p - q) : one = 0 /\ h = p + j
    <2>1. CASE h <= p
      <3>1. h \in 1..k /\ Source(n, k, q, h) = h
        BY <2>1 DEF Source
      <3> QED BY <2>1, <3>1
    <2>2. CASE h > n - q
      <3> DEFINE i == k - n + h
      <3>1. i \in 1..k /\ i > k - q /\ Source(n, k, q, i) = h
        BY <2>2 DEF Source
      <3> QED BY <3>1
    <2>3. CASE h > p /\ h <= n - q /\ one = 1
      <3>1. h \in 1..k /\ Source(n, k, q, h) = h
        BY <2>3 DEF Source
      <3> QED BY <2>3, <3>1
    <2>4. CASE h > p /\ h <= n - q /\ one = 0
      <3> DEFINE j == h - p
      <3>1. j \in 1..(n - p - q) /\ h = p + j
        BY <2>4
      <3> QED BY <2>4, <3>1
    <2> QED
      BY <2>1, <2>2, <2>3, <2>4
  <1>2. \A i \in 1..k : i <= p \/ i > k - q \/ one = 1 => Source(n, k, q, i) \in 1..n
    BY DEF Source
  <1>3. \A i \in 1..k : i <= p => Source(n, k, q, i) = i
    BY DEF Source
  <1>4. \A i \in 1..k : i > k - q =>
           k - i \in 0..(q - 1) /\ Source(n, k, q, i) = n - (k - i) /\ k - (k - i) = i
    BY DEF Source
  <1>5. \A i, j \in 1..k :
               /\ i <= p \/ i > k - q \/ one = 1
               /\ j <= p \/ j > k - q \/ one = 1
               /\ Source(n, k, q, i) = Source(n, k, q, j)
               => i = j
    BY DEF Source
  <1>6. \A i \in 1..k : one = 0 /\ (i <= p \/ i > k - q) =>
               \A j \in 1..(n - p - q) : Source(n, k, q, i) # p + j
    BY DEF Source
  <1> QED
    BY <1>1, <1>2, <1>3, <1>4, <1>5, <1>6 DEF Sourced

LEMMA RevisedAs ==
  ASSUME NEW s \in Segment, ~s.final, NEW text \in Part, NEW final \in BOOLEAN,
         NEW order \in Nat
  PROVE  LET t == Revised(s, text, final, order)
         IN  /\ t \in Segment /\ t.id = s.id /\ t.text = text
             /\ t.final = final /\ t.order = order
             /\ Feed!Later(s, t)
  <1> DEFINE t == Revised(s, text, final, order)
  <1>1. CASE s.text = text
    <2>1. t = [s EXCEPT !.text = text, !.final = final, !.order = order]
      BY <1>1 DEF Revised, Segment
    <2> HIDE DEF t
    <2> QED
      BY <1>1, <2>1 DEF Segment, Feed!Later, t
  <1>2. CASE s.text # text
    <2>1. t = [s EXCEPT !.text = text, !.rev = @ + 1, !.final = final, !.order = order]
      BY <1>2 DEF Revised, Segment
    <2>2. s.rev \in Nat /\ s.rev + 1 \in Nat
      BY DEF Segment
    <2>3. /\ t \in Segment /\ t.id = s.id /\ t.text = text
          /\ t.final = final /\ t.order = order /\ t.rev = s.rev + 1
      <3> HIDE DEF t
      <3> QED BY <2>1, <2>2 DEF Segment
    <2>4. Feed!Later(s, t)
      <3> HIDE DEF t
      <3> QED BY <1>2, <2>3 DEF Feed!Later
    <2> QED
      BY <2>3, <2>4
  <1> QED
    BY <1>1, <1>2

LEMMA AffectedCount ==
  ASSUME NEW u \in Utterance, NEW al, OldCount(u, al) \in Nat
  PROVE  /\ Cardinality(Affected(u, al)) \in Nat
         /\ Cardinality(Affected(u, al)) <= OldCount(u, al)
  <1> DEFINE c == OldCount(u, al)
             f == [i \in 1..c |-> u.segments[al.prefix + i].id]
  <1>1. IsFiniteSet(1..c) /\ Cardinality(1..c) = c
    <2>1. 1 \in Int /\ c \in Int
      OBVIOUS
    <2>2. /\ IsFiniteSet(1..c)
          /\ Cardinality(1..c) = IF 1 > c THEN 0 ELSE c - 1 + 1
      BY <2>1, FS_Interval
    <2> HIDE DEF c
    <2>3. c \in Nat
      BY DEF c
    <2> QED
      BY <2>2, <2>3
  <1>2. f \in Surjection(1..c, Affected(u, al))
    BY DEF Surjection, Affected
  <1>3. IsFiniteSet(Affected(u, al)) /\ Cardinality(Affected(u, al)) <= Cardinality(1..c)
    <2> HIDE DEF f, c
    <2> QED BY <1>1, <1>2, FS_Surjection
  <1> QED
    BY <1>1, <1>3, FS_CardinalityType

LEMMA AlignedOk ==
  ASSUME NEW u, NEW text, NEW final \in BOOLEAN, NEW al, NEW revision \in BOOLEAN,
         nextId \in Nat, UttOk(u, nextId), HearsOk(u), NoneFinal(u), Lies(u, al),
         Affected(u, al) \cap u.gone = {},
         revision => OldCount(u, al) = 1 /\ NewCount(al) = 1,
         Managed(u) + (IF revision THEN 0 ELSE NewCount(al)) <= MaxSegments
  PROVE  LET r == Aligned(u, text, final, al, revision,
                          IF revision THEN {} ELSE Affected(u, al))
         IN  Outcome(u, final, r) /\ Retold(u, r, al.parts, text, final)
  <1>1. PICK n, k, p, q : n = Len(u.segments) /\ k = Len(al.parts)
                          /\ p = al.prefix /\ q = al.suffix
    OBVIOUS
  <1>2. PICK replaced : replaced = IF revision THEN {} ELSE Affected(u, al)
    OBVIOUS
  <1>3. PICK next : next = [i \in DOMAIN al.parts |->
                              Becomes(u, final, al, revision, replaced, i)]
    OBVIOUS
  <1>4. PICK r : r = Aligned(u, text, final, al, revision, replaced)
    OBVIOUS
  <1> DEFINE old == u.segments
             kept(i) == i <= p \/ i > k - q \/ revision
             from(i) == Source(n, k, q, i)
  <1>5. /\ u \in Utterance /\ old \in Seq(Segment) /\ u.tombstones \in Nat
        /\ n \in Nat /\ DOMAIN old = 1..n
        /\ \A h \in 1..n : old[h] \in Segment /\ old[h].id \in Nat /\ ~old[h].final
        /\ \A h \in 1..n : old[h].id \in 1..nextId
        /\ \A g, h \in 1..n : old[g].id = old[h].id => g = h
        /\ IdsOf(old) = {old[h].id : h \in 1..n}
        /\ u.gone \subseteq IdsOf(old)
    <2>1. u \in Utterance
      BY DEF UttOk
    <2> QED
      BY <1>1, <2>1, IdsOfSegments DEF UttOk, Utterance, NoneFinal
  <1>6. /\ k \in Nat /\ p \in Nat /\ q \in Nat /\ p + q <= n /\ p + q <= k
        /\ DOMAIN al.parts = 1..k /\ \A i \in 1..k : al.parts[i] \in Part
        /\ \A i \in 1..p : al.parts[i] = old[i].text
        /\ \A j \in 0..(q - 1) : old[n - j].text = al.parts[k - j]
    BY <1>1 DEF Lies
  <1>7. OldCount(u, al) = n - p - q /\ NewCount(al) = k - p - q
    BY <1>1 DEF OldCount, NewCount
  <1>8. revision => n = p + q + 1 /\ k = p + q + 1
    BY <1>5, <1>6, <1>7
  <1>9. /\ \A i \in 1..k : kept(i) => from(i) \in 1..n
        /\ \A i \in 1..k : i <= p => from(i) = i
        /\ \A i \in 1..k : i > k - q =>
              k - i \in 0..(q - 1) /\ from(i) = n - (k - i) /\ k - (k - i) = i
        /\ \A i, j \in 1..k : kept(i) /\ kept(j) /\ from(i) = from(j) => i = j
        /\ \A i \in 1..k : ~revision /\ kept(i) => \A j \in 1..(n - p - q) : from(i) # p + j
        /\ \A h \in 1..n :
              \/ \E i \in 1..k : kept(i) /\ from(i) = h
              \/ \E j \in 1..(n - p - q) : ~revision /\ h = p + j
    <2>1. PICK one \in {0, 1} : one = IF revision THEN 1 ELSE 0
      OBVIOUS
    <2>2. /\ n \in Nat /\ k \in Nat /\ p \in Nat /\ q \in Nat /\ p + q <= n /\ p + q <= k
          /\ one = 1 => n = p + q + 1 /\ k = p + q + 1
          /\ one = 1 <=> revision
          /\ one = 0 <=> ~revision
      BY <1>5, <1>6, <1>8, <2>1
    <2>3. Sourced(n, k, p, q, one)
      BY <2>2, Sources
    <2>4. \A i : kept(i) <=> (i <= p \/ i > k - q \/ one = 1)
      BY <2>2
    <2> QED
      BY <2>2, <2>3, <2>4 DEF Sourced
  <1>10. Affected(u, al) = {old[p + j].id : j \in 1..(n - p - q)}
         /\ \A j \in 1..(n - p - q) : p + j \in 1..n
    <2>1. n \in Nat /\ p \in Nat /\ q \in Nat /\ p + q <= n
      BY <1>5, <1>6
    <2>2. \A j \in 1..(n - p - q) : p + j \in 1..n
      BY <2>1
    <2>3. Affected(u, al) = {old[p + j].id : j \in 1..(n - p - q)}
      BY <1>1, <1>7 DEF Affected
    <2> QED
      BY <2>2, <2>3
  <1>11. replaced \subseteq IdsOf(old) /\ replaced \subseteq Nat /\ replaced \cap u.gone = {}
    BY <1>2, <1>5, <1>10
  <1>12. ASSUME NEW i \in 1..k, kept(i)
         PROVE  /\ next[i] \in Segment /\ next[i].id = old[from(i)].id
                /\ next[i].text = al.parts[i] /\ next[i].final = final
                /\ next[i].order = i /\ Feed!Later(old[from(i)], next[i])
    <2>1. Keeps(al, revision, i)
      BY <1>1, <1>12 DEF Keeps
    <2>2. OldAt(u, al, i) = old[from(i)]
      BY <1>1 DEF OldAt, Source
    <2>3. next[i] = Revised(old[from(i)], al.parts[i], final, i)
      BY <1>3, <1>6, <2>1, <2>2 DEF Becomes
    <2>4. old[from(i)] \in Segment /\ ~old[from(i)].final /\ al.parts[i] \in Part /\ i \in Nat
      BY <1>5, <1>6, <1>9, <1>12
    <2> HIDE DEF from
    <2> QED
      BY <2>3, <2>4, RevisedAs
  <1>13. ASSUME NEW i \in 1..k, ~kept(i)
         PROVE  /\ next[i] \in Segment /\ next[i].id = nextId + (i - p) /\ next[i].rev = 1
                /\ next[i].final = final /\ next[i].order = i
                /\ next[i].text = al.parts[i] /\ next[i].replaces = replaced
                /\ ~revision /\ next[i].id > nextId /\ next[i].id <= nextId + (k - p - q)
    <2>1. ~Keeps(al, revision, i)
      BY <1>1, <1>13 DEF Keeps
    <2>2. next[i] = NewSegment(nextId + i - p, al.parts[i], final, i, replaced)
      BY <1>1, <1>3, <1>6, <2>1 DEF Becomes
    <2>3. /\ nextId + i - p = nextId + (i - p) /\ nextId + i - p \in Nat
          /\ nextId + (i - p) > nextId /\ nextId + (i - p) <= nextId + (k - p - q)
      BY <1>6, <1>13
    <2>4. next[i] \in Segment
      BY <1>6, <1>11, <2>2, <2>3 DEF NewSegment, Segment
    <2> QED
      BY <1>13, <2>2, <2>3, <2>4 DEF NewSegment
  <1>14. next \in Seq(Segment) /\ Len(next) = k /\ DOMAIN next = 1..k
    BY <1>3, <1>6, <1>12, <1>13
  <1>15. /\ r.utt = [u EXCEPT !.segments = next,
                              !.tombstones = IF final THEN 0 ELSE @ + Cardinality(replaced)]
         /\ r.nextId = IF revision THEN nextId ELSE nextId + (k - p - q)
         /\ r.upserts = {next[i] : i \in Changed(u, al, revision, next)}
         /\ r.retired = replaced /\ r.text = text
    BY <1>3, <1>4, <1>7 DEF Aligned, AlignedAs, Told
  <1>16. /\ Cardinality(replaced) \in Nat
         /\ Cardinality(replaced) <= IF revision THEN 0 ELSE n - p - q
    <2>1. CASE revision
      BY <1>2, <2>1, FS_EmptySet
    <2>2. CASE ~revision
      <3>1. u \in Utterance /\ n - p - q \in Nat /\ OldCount(u, al) = n - p - q
        BY <1>5, <1>6, <1>7
      <3>2. /\ Cardinality(Affected(u, al)) \in Nat
            /\ Cardinality(Affected(u, al)) <= n - p - q
        BY <3>1, AffectedCount
      <3> QED
        BY <1>2, <2>2, <3>2
    <2> QED
      BY <2>1, <2>2
  <1>17. /\ r.utt \in Utterance /\ r.utt.open = u.open /\ r.utt.closed = u.closed
         /\ r.utt.segments = next /\ r.utt.gone = u.gone
         /\ r.utt.tombstones = (IF final THEN 0 ELSE u.tombstones + Cardinality(replaced))
         /\ r.utt.snapshots = u.snapshots /\ r.utt.ages = u.ages
         /\ r.utt.stopped = u.stopped
    <2>1. PICK t : t = IF final THEN 0 ELSE u.tombstones + Cardinality(replaced)
      OBVIOUS
    <2>2. t \in Nat
      BY <1>5, <1>16, <2>1
    <2>3. r.utt = [u EXCEPT !.segments = next, !.tombstones = t]
      BY <1>15, <2>1
    <2> QED
      BY <1>5, <1>14, <2>1, <2>2, <2>3 DEF Utterance
  <1> HIDE DEF kept, from
  <1>18. HearsOk(r.utt)
    BY <1>17 DEF HearsOk
  <1>19. r.nextId \in Nat /\ r.nextId >= nextId
    BY <1>6, <1>15
  <1>20. Managed(r.utt) <= MaxSegments
    <2>1. Managed(u) = n + u.tombstones
      BY <1>1 DEF Managed
    <2>2. Managed(r.utt) = k + r.utt.tombstones
      BY <1>14, <1>17 DEF Managed
    <2>3. r.utt.tombstones <= u.tombstones + Cardinality(replaced) /\ r.utt.tombstones \in Nat
      BY <1>5, <1>16, <1>17
    <2>4. n + u.tombstones + (IF revision THEN 0 ELSE k - p - q) <= MaxSegments
      BY <1>7, <2>1
    <2>5. MaxSegments \in Nat
      BY SegmenterAssumption
    <2>6. PICK c, t, after : c = Cardinality(replaced) /\ t = u.tombstones
                             /\ after = r.utt.tombstones
      OBVIOUS
    <2>7. /\ n \in Nat /\ k \in Nat /\ p \in Nat /\ q \in Nat /\ c \in Nat /\ t \in Nat
          /\ after \in Nat /\ after <= t + c
      BY <1>5, <1>6, <1>16, <2>3, <2>6
    <2>8. CASE revision
      <3>1. k = n /\ c <= 0 /\ n + t + 0 <= MaxSegments
        BY <1>8, <1>16, <2>4, <2>6, <2>8
      <3> QED
        BY <2>2, <2>5, <2>6, <2>7, <3>1
    <2>9. CASE ~revision
      <3>1. c <= n - p - q /\ n + t + (k - p - q) <= MaxSegments
        BY <1>16, <2>4, <2>6, <2>9
      <3>2. k + after <= MaxSegments
        BY ONLY <2>5, <2>7, <3>1
      <3> QED
        BY <2>2, <2>6, <3>2
    <2> QED
      BY <2>8, <2>9
  <1>21. \A i \in 1..k : next[i].order = i /\ next[i].id \in 1..r.nextId
    <2>1. ASSUME NEW i \in 1..k, kept(i) PROVE next[i].id \in 1..nextId
      <3>1. PICK h : h = from(i)
        OBVIOUS
      <3>2. h \in 1..n
        BY <1>9, <2>1, <3>1
      <3>3. next[i].id = old[h].id
        BY <1>12, <2>1, <3>1
      <3>4. old[h].id \in 1..nextId
        BY <1>5, <3>2
      <3> QED
        BY <3>3, <3>4
    <2>2. ASSUME NEW i \in 1..k, ~kept(i) PROVE next[i].id \in 1..(nextId + (k - p - q))
      BY <1>6, <1>13, <2>2
    <2>3. 1..nextId \subseteq 1..r.nextId
      BY <1>19
    <2>4. ASSUME NEW i \in 1..k PROVE next[i].id \in 1..r.nextId
      BY <1>13, <1>15, <2>1, <2>2, <2>3
    <2> QED
      BY <1>12, <1>13, <2>4
  <1>22. \A i, j \in 1..k : next[i].id = next[j].id => i = j
    <2> SUFFICES ASSUME NEW i \in 1..k, NEW j \in 1..k, next[i].id = next[j].id
                 PROVE  i = j
      OBVIOUS
    <2>1. \A h \in 1..n : ~(old[h].id > nextId)
      BY <1>5
    <2>2. CASE kept(i) /\ kept(j)
      BY <1>5, <1>9, <1>12, <2>2
    <2>3. CASE kept(i) /\ ~kept(j)
      BY <1>9, <1>12, <1>13, <2>1, <2>3
    <2>4. CASE ~kept(i) /\ kept(j)
      BY <1>9, <1>12, <1>13, <2>1, <2>4
    <2>5. CASE ~kept(i) /\ ~kept(j)
      <3>1. nextId + (i - p) = nextId + (j - p)
        BY <1>13, <2>5
      <3> QED
        BY <1>6, <3>1
    <2> QED
      BY <2>2, <2>3, <2>4, <2>5
  \* What is over is not among what changes.
  <1>23. ASSUME NEW h \in 1..n, old[h].id \notin replaced
         PROVE  \E i \in 1..k : kept(i) /\ from(i) = h
    <2>1. ASSUME NEW j \in 1..(n - p - q), ~revision, h = p + j PROVE FALSE
      BY <1>2, <1>10, <1>23, <2>1
    <2> QED
      BY <1>9, <2>1
  <1>24. ASSUME NEW h \in 1..n, old[h].id \in u.gone
         PROVE  \E i \in 1..k : kept(i) /\ from(i) = h /\ next[i].text = old[h].text
    <2>1. old[h].id \notin replaced
      BY <1>11, <1>24
    <2>2. PICK i \in 1..k : kept(i) /\ from(i) = h
      BY <1>23, <2>1
    <2>3. CASE i <= p
      <3>1. i \in 1..p
        BY <1>6, <2>3
      <3> QED
        BY <1>6, <1>9, <1>12, <2>2, <2>3, <3>1
    <2>4. CASE i > k - q
      BY <1>6, <1>9, <1>12, <2>2, <2>4
    <2>5. CASE i > p /\ ~(i > k - q)
      <3>1. h = i /\ i - p \in 1..(n - p - q) /\ p + (i - p) = i
        <4>1. revision
          BY <1>6, <2>2, <2>5 DEF kept
        <4> QED
          BY <1>6, <1>8, <2>2, <2>5, <4>1 DEF from, Source
      <3>2. old[h].id \in Affected(u, al)
        BY <1>10, <3>1
      <3> QED
        BY <1>24, <3>2
    <2>6. i <= p \/ i > k - q \/ (i > p /\ ~(i > k - q))
      BY <1>6
    <2> QED
      BY <2>2, <2>3, <2>4, <2>5, <2>6
  <1>25. IdsOf(next) = {next[i].id : i \in 1..k}
    BY <1>14 DEF IdsOf
  <1>26. u.gone \subseteq IdsOf(next)
    <2> SUFFICES ASSUME NEW id \in u.gone PROVE id \in IdsOf(next)
      OBVIOUS
    <2>1. PICK h \in 1..n : id = old[h].id
      BY <1>5
    <2>2. PICK i \in 1..k : kept(i) /\ from(i) = h
      BY <1>24, <2>1
    <2> QED
      BY <1>12, <1>25, <2>1, <2>2
  <1>27. UttOk(r.utt, r.nextId)
    BY <1>14, <1>17, <1>20, <1>21, <1>22, <1>26 DEF UttOk
  <1>28. KeepsSaid(u, r)
    <2>1. ASSUME NEW h \in 1..n, old[h].id \in u.gone
          PROVE  \E i \in 1..k : next[i].id = old[h].id /\ next[i].text = old[h].text
      BY <1>12, <1>24, <2>1
    <2> QED
      BY <1>1, <1>14, <1>17, <2>1 DEF KeepsSaid
  <1>29. ASSUME NEW i \in 1..k PROVE IsNew(u, r, next[i]) \/ GoesOn(u, r, next[i])
    <2>1. CASE ~kept(i)
      <3>1. next[i] \in r.upserts
        <4>1. ~Keeps(al, revision, i)
          BY <1>1, <2>1 DEF Keeps, kept
        <4> QED
          BY <1>14, <1>15, <4>1 DEF Changed
      <3>2. next[i].id \notin r.utt.gone
        <4>1. \A h \in 1..n : ~(old[h].id > nextId)
          BY <1>5
        <4>2. next[i].id > nextId
          BY <1>13, <2>1
        <4>3. next[i].id \notin IdsOf(old)
          BY <1>5, <4>1, <4>2
        <4> QED
          BY <1>5, <1>17, <4>3
      <3> QED
        BY <1>11, <1>13, <1>15, <2>1, <3>1, <3>2 DEF IsNew
    <2>2. CASE kept(i)
      <3>1. from(i) \in 1..n
        BY <1>9, <2>2
      <3>2. next[i].id = old[from(i)].id /\ Feed!Later(old[from(i)], next[i])
        BY <1>12, <2>2
      <3>3. next[i] = old[from(i)] \/ next[i] \in r.upserts
        <4>1. OldAt(u, al, i) = old[from(i)]
          BY <1>1 DEF OldAt, Source, from
        <4> QED
          BY <1>14, <1>15, <4>1 DEF Changed
      <3>4. next[i].id \notin replaced
        <4>1. CASE revision
          BY <1>2, <4>1
        <4>2. CASE ~revision
          <5>1. SUFFICES ASSUME NEW j \in 1..(n - p - q), old[from(i)].id = old[p + j].id
                         PROVE  FALSE
            BY <1>2, <1>10, <3>2, <4>2
          <5>2. from(i) = p + j
            BY <1>5, <1>10, <3>1, <5>1
          <5> QED
            BY <1>9, <2>2, <4>2, <5>2
        <4> QED
          BY <4>1, <4>2
      <3> QED
        BY <1>1, <1>15, <1>17, <3>1, <3>2, <3>3, <3>4 DEF GoesOn
    <2> QED
      BY <2>1, <2>2
  <1>30. Continues(u, r)
    <2>1. \A s \in r.upserts : \E i \in 1..k : s = next[i]
      BY <1>14, <1>15 DEF Changed
    <2>2. ASSUME NEW h \in 1..n, old[h].id \notin u.gone \cup r.retired
          PROVE  old[h].id \in IdsOf(next)
      <3>1. PICK i \in 1..k : kept(i) /\ from(i) = h
        BY <1>15, <1>23, <2>2
      <3> QED
        BY <1>12, <1>25, <3>1
    <2> QED
      BY <1>1, <1>11, <1>14, <1>15, <1>17, <1>19, <1>29, <2>1, <2>2 DEF Continues
  <1>31. ~final => NoneFinal(r.utt)
    BY <1>12, <1>13, <1>14, <1>17 DEF NoneFinal
  <1>32. Outcome(u, final, r)
    BY <1>17, <1>18, <1>27, <1>28, <1>30, <1>31 DEF Outcome, ResultOk
  <1>33. Retold(u, r, al.parts, text, final)
    BY <1>1, <1>12, <1>13, <1>14, <1>15, <1>17 DEF Retold
  <1> QED
    BY <1>2, <1>4, <1>32, <1>33

LEMMA ReconciledOk ==
  ASSUME NEW u, NEW text \in Text, NEW final \in BOOLEAN, nextId \in Nat, UttOk(u, nextId),
         HearsOk(u), NoneFinal(u)
  PROVE  LET r == Reconciled(u, text, final)
         IN  Outcome(u, final, r) /\ Says(u, r, text, final)
  <1>1. PICK al : al = Alignment(u, text)
    OBVIOUS
  <1>2. PICK affected : affected = Affected(u, al)
    OBVIOUS
  <1>3. PICK revision \in BOOLEAN : revision = Revises(u, al)
    BY DEF Revises
  <1>4. Reconciled(u, text, final) = ReconciledAs(u, text, final, al, revision, affected)
    BY <1>1, <1>2, <1>3 DEF Reconciled, ReconciledOn
  <1>5. u \in Utterance
    BY DEF UttOk
  <1>6. Lies(u, al) /\ Whole(al.parts) = Content(text)
    BY <1>1, <1>5, TextLies
  <1>7. affected \subseteq IdsOf(u.segments)
    <2>1. PICK n, p, q : n = Len(u.segments) /\ p = al.prefix /\ q = al.suffix
      OBVIOUS
    <2>2. /\ n \in Nat /\ p \in Nat /\ q \in Nat /\ p + q <= n
          /\ IdsOf(u.segments) = {u.segments[i].id : i \in 1..n}
      BY <1>5, <1>6, <2>1, IdsOfSegments DEF Lies
    <2>3. \A i \in 1..(n - p - q) : p + i \in 1..n
      BY <2>2
    <2> QED
      BY <1>2, <2>1, <2>2, <2>3 DEF Affected, OldCount
  <1>8. CASE affected \cap u.gone # {}
    <2>1. Reconciled(u, text, final) = Ambiguous(u, affected)
      BY <1>4, <1>8 DEF ReconciledAs
    <2>2. Outcome(u, final, Ambiguous(u, affected))
      BY <1>7, AmbiguousOk
    <2>3. Stays(u, Ambiguous(u, affected)) /\ Ambiguous(u, affected).utt.stopped
      <3>1. PICK v : v = [u EXCEPT !.stopped = TRUE, !.gone = @ \cup affected]
        OBVIOUS
      <3>2. v.segments = u.segments /\ v.tombstones = u.tombstones /\ v.stopped
        BY <1>5, <3>1 DEF Utterance
      <3>3. u.segments # <<>>
        <4>1. IdsOf(<<>>) = {}
          BY DEF IdsOf
        <4> QED
          BY <1>7, <1>8, <4>1
      <3>4. Ambiguous(u, affected).utt = v /\ Ambiguous(u, affected).text = transcript
        BY <3>1 DEF Ambiguous, Told
      <3> QED
        BY <3>2, <3>3, <3>4 DEF Stays
    <2> QED
      BY <2>1, <2>2, <2>3 DEF Says
  <1>9. CASE affected \cap u.gone = {}
             /\ Managed(u) + (IF revision THEN 0 ELSE NewCount(al)) > MaxSegments
    BY <1>4, <1>9, LimitedOk DEF ReconciledAs
  <1>10. CASE affected \cap u.gone = {}
              /\ ~(Managed(u) + (IF revision THEN 0 ELSE NewCount(al)) > MaxSegments)
    <2>1. Reconciled(u, text, final)
            = Aligned(u, text, final, al, revision, IF revision THEN {} ELSE Affected(u, al))
      BY <1>2, <1>4, <1>10 DEF ReconciledAs
    <2>2. Managed(u) + (IF revision THEN 0 ELSE NewCount(al)) <= MaxSegments
      <3>1. Managed(u) \in Nat
        BY <1>5 DEF Managed, Utterance
      <3>2. NewCount(al) \in Int
        BY <1>6 DEF NewCount, Lies
      <3> QED
        BY <1>10, <3>1, <3>2, SegmenterAssumption
    <2>3. revision => OldCount(u, al) = 1 /\ NewCount(al) = 1
      BY <1>3 DEF Revises
    <2>4. PICK r : r = Reconciled(u, text, final)
      OBVIOUS
    <2>5. Outcome(u, final, r) /\ Retold(u, r, al.parts, text, final)
      BY <1>2, <1>6, <1>10, <2>1, <2>2, <2>3, <2>4, AlignedOk
    <2>6. Says(u, r, text, final)
      <3>1. al.parts \in Seq(Part)
        BY <1>6 DEF Lies
      <3>2. IsSuffix(Content(text), Content(text))
        BY ContentMapped, SuffixOf
      <3> QED
        BY <1>6, <2>5, <3>1, <3>2 DEF Says
    <2> QED
      BY <2>4, <2>5, <2>6
  <1> QED
    BY <1>8, <1>9, <1>10

\* What may be cut of a text is a beginning of it.
LEMMA StableEndTyped ==
  ASSUME NEW u \in Utterance, u.snapshots # <<>>
  PROVE  LET text == Last(u.snapshots)
             end == StableEnd(u, text)
         IN  /\ text \in Text /\ end \in 0..Len(text) /\ end <= CommonEnd(u)
             /\ \A i \in 1..end : u.ages[i] >= StableAge
  <1>1. PICK text : text = Last(u.snapshots)
    OBVIOUS
  <1>2. /\ text \in Text /\ text \in Range(u.snapshots) /\ Range(u.snapshots) \subseteq Text
        /\ Len(text) \in Nat
    BY <1>1 DEF Utterance, Last, Range, Text
  <1>3. PICK common : common = CommonEnd(u)
    OBVIOUS
  <1>4. common \in Nat /\ common <= Len(text)
    BY <1>2, <1>3, CommonPrefixOf DEF CommonEnd
  <1>5. PICK aged : aged = Aged(u, common)
    OBVIOUS
  <1>6. aged \in 0..common /\ \A i \in 1..aged : u.ages[i] >= StableAge
    <2> DEFINE S == {n \in 0..common : \A i \in 1..n : u.ages[i] >= StableAge}
    <2>1. S \subseteq 0..common /\ 0 \in S
      BY <1>4
    <2>2. Max(S) \in S
      <3> HIDE DEF S
      <3> QED BY <1>4, <2>1, GreatestOf
    <2>3. aged = Max(S)
      BY <1>5 DEF Aged
    <2>4. ASSUME NEW n \in S PROVE \A i \in 1..n : u.ages[i] >= StableAge
      OBVIOUS
    <2> HIDE DEF S
    <2> QED
      BY <2>1, <2>2, <2>3, <2>4
  <1>7. PICK end : end = TrimTo(text, aged)
    OBVIOUS
  <1>8. end \in 0..Len(text) /\ end <= aged
    <2>1. aged \in 0..Len(text)
      BY <1>2, <1>4, <1>6
    <2>2. end \in 0..aged
      BY <1>2, <1>7, <2>1, Trims
    <2> QED
      BY <1>2, <2>1, <2>2
  <1>9. WholeWords(text, end) \in 0..Len(text) /\ WholeWords(text, end) <= end
    <2>1. CASE end = 0 \/ Sentence(text, end)
      BY <1>8, <2>1 DEF WholeWords
    <2>2. CASE ~(end = 0 \/ Sentence(text, end))
      <3> DEFINE W == {0} \cup {i \in 1..end : Space(text[i])}
      <3>1. PICK word : word = Max(W)
        OBVIOUS
      <3>2. word \in 0..end
        <4>1. W \subseteq 0..end /\ W # {} /\ end \in Nat
          BY <1>8
        <4> HIDE DEF W
        <4> QED BY <3>1, <4>1, GreatestOf
      <3>3. PICK back : back = HeldBack(end, word)
        OBVIOUS
      <3>4. back \in 0..end
        <4>1. CASE word > 0
          BY <3>2, <3>3, <4>1 DEF HeldBack
        <4>2. CASE ~(word > 0)
          <5>1. {0, end - HoldBack} \subseteq Int /\ end \in Nat /\ HoldBack \in Nat
            BY <1>8, SegmenterAssumption
          <5>2. CASE end >= HoldBack
            <6>1. Max({0, end - HoldBack}) = end - HoldBack
              BY <5>1, <5>2 DEF Max
            <6> QED BY <3>3, <4>2, <5>1, <5>2, <6>1 DEF HeldBack
          <5>3. CASE end < HoldBack
            <6>1. Max({0, end - HoldBack}) = 0
              BY <5>1, <5>3 DEF Max
            <6> QED BY <3>3, <4>2, <5>1, <5>3, <6>1 DEF HeldBack
          <5> QED
            BY <5>1, <5>2, <5>3
        <4> QED
          BY <4>1, <4>2
      <3>5. back \in 0..Len(text)
        BY <1>2, <1>8, <3>4
      <3>6. TrimTo(text, back) \in 0..back
        BY <1>2, <3>5, Trims
      <3>7. TrimTo(text, back) \in 0..Len(text) /\ TrimTo(text, back) <= end
        BY <1>2, <1>8, <3>4, <3>5, <3>6
      <3>8. WholeWords(text, end) = TrimTo(text, back)
        BY <2>2, <3>1, <3>3 DEF WholeWords
      <3> QED
        BY <3>7, <3>8
    <2> QED
      BY <2>1, <2>2
  <1>10. StableEnd(u, text) = WholeWords(text, end)
    BY <1>3, <1>5, <1>7 DEF StableEnd
  <1>11. PICK n : n = WholeWords(text, end)
    OBVIOUS
  <1>12. n \in 0..Len(text) /\ n <= common /\ \A i \in 1..n : i \in 1..aged
    <2>1. n \in 0..Len(text) /\ n <= end /\ end <= aged /\ aged <= common
          /\ end \in Nat /\ aged \in Nat
      BY <1>2, <1>4, <1>6, <1>8, <1>9, <1>11
    <2> QED
      BY <1>2, <1>4, <2>1
  <1> QED
    BY <1>1, <1>2, <1>3, <1>6, <1>10, <1>11, <1>12

LEMMA EvaluatedOk ==
  ASSUME NEW u, nextId \in Nat, UttOk(u, nextId), HearsOk(u), ~u.closed => NoneFinal(u)
  PROVE  Outcome(u, FALSE, Evaluated(u))
  <1>1. u \in Utterance
    BY DEF UttOk
  <1>2. Outcome(u, FALSE, Unchanged(u))
    BY <1>1, UnchangedOk
  <1>3. CASE incremental /\ ~u.stopped /\ ~u.closed /\ Len(u.snapshots) >= MaxSnapshots
    <2>1. PICK text : text = Last(u.snapshots)
      OBVIOUS
    <2>2. PICK end : end = StableEnd(u, text)
      OBVIOUS
    <2>3. u.snapshots # <<>>
      <3>1. MaxSnapshots \in Nat \ {0} /\ Len(u.snapshots) \in Nat
        BY <1>1, SegmenterAssumption DEF Utterance
      <3>2. Len(u.snapshots) # 0
        BY <1>3, <3>1
      <3> QED
        BY <3>2
    <2>4. text \in Text /\ end \in 0..Len(text)
      BY <1>1, <2>1, <2>2, <2>3, StableEndTyped
    <2>5. SubSeq(text, 1, end) \in Text
      <3>1. \A i \in 1..end : text[i] \in STRING
        BY <2>4 DEF Text
      <3> QED
        BY <2>4, <3>1, SubSeqProperties DEF Text
    <2>6. Outcome(u, FALSE, Reconciled(u, SubSeq(text, 1, end), FALSE))
      BY <1>3, <2>5, ReconciledOk
    <2>7. Evaluated(u) = CutUpTo(u, text, end)
      BY <1>3, <2>1, <2>2 DEF Evaluated, EvaluatedAt
    <2> QED
      BY <1>2, <2>6, <2>7 DEF CutUpTo
  <1>4. CASE ~(incremental /\ ~u.stopped /\ ~u.closed /\ Len(u.snapshots) >= MaxSnapshots)
    BY <1>2, <1>4 DEF Evaluated
  <1> QED
    BY <1>3, <1>4

\* The final text closes the utterance.
LEMMA ClosedOk ==
  ASSUME NEW u, NEW r, r = Told(r.utt, r.nextId, r.upserts, r.retired, r.text),
         Outcome(u, TRUE, r)
  PROVE  /\ ResultOk(u, Closed(r))
         /\ Closed(r).utt.open = u.open /\ Closed(r).utt.closed
  <1>1. PICK v : v = [r.utt EXCEPT !.closed = TRUE, !.snapshots = <<>>, !.ages = <<>>]
    OBVIOUS
  <1>2. r.utt \in Utterance
    BY DEF Outcome, ResultOk, UttOk
  <1>3. /\ v \in Utterance /\ v.open = r.utt.open /\ v.closed
        /\ v.segments = r.utt.segments /\ v.tombstones = r.utt.tombstones
        /\ v.gone = r.utt.gone /\ v.snapshots = <<>> /\ v.ages = <<>>
    <2>1. PICK w : w = r.utt
      OBVIOUS
    <2>2. PICK empty : empty = <<>>
      OBVIOUS
    <2>3. empty \in Seq(Text) /\ empty \in Seq(Nat)
      BY <2>2
    <2>4. v = [w EXCEPT !.closed = TRUE, !.snapshots = empty, !.ages = empty]
      BY <1>1, <2>1, <2>2
    <2>5. /\ v \in Utterance /\ v.open = w.open /\ v.closed = TRUE
          /\ v.segments = w.segments /\ v.tombstones = w.tombstones
          /\ v.gone = w.gone /\ v.snapshots = empty /\ v.ages = empty
      BY <1>2, <2>1, <2>3, <2>4 DEF Utterance
    <2> QED
      BY <2>1, <2>2, <2>5
  <1>4. PICK c : c = Closed(r)
    OBVIOUS
  <1>5. /\ c.utt = v /\ c.nextId = r.nextId /\ c.upserts = r.upserts
        /\ c.retired = r.retired
    BY <1>1, <1>4 DEF Closed, Told
  <1>6. HearsOk(v)
    BY <1>3, SegmenterAssumption DEF HearsOk
  <1>7. UttOk(r.utt, r.nextId) /\ Continues(u, r) /\ KeepsSaid(u, r)
    BY DEF Outcome, ResultOk
  <1>8. UttOk(v, r.nextId)
    BY <1>3, <1>7 DEF UttOk, Managed
  <1>9. Continues(u, c)
    <2>1. \A s : IsNew(u, r, s) => IsNew(u, c, s)
      BY <1>3, <1>5 DEF IsNew
    <2>2. \A s : GoesOn(u, r, s) => GoesOn(u, c, s)
      BY <1>3, <1>5 DEF GoesOn
    <2> QED
      BY <1>3, <1>5, <1>7, <2>1, <2>2 DEF Continues
  <1>10. KeepsSaid(u, c)
    BY <1>3, <1>5, <1>7 DEF KeepsSaid
  <1> QED
    BY <1>3, <1>4, <1>5, <1>6, <1>8, <1>9, <1>10 DEF Outcome, ResultOk

-----------------------------------------------------------------------------
(* The calls. *)

LEMMA ReconciledTold ==
  ASSUME NEW u, NEW text, NEW final
  PROVE  LET r == Reconciled(u, text, final)
         IN  r = Told(r.utt, r.nextId, r.upserts, r.retired, r.text)
  <1>1. PICK al : al = Alignment(u, text)
    OBVIOUS
  <1>2. PICK revision : revision = Revises(u, al)
    OBVIOUS
  <1>3. PICK affected : affected = Affected(u, al)
    OBVIOUS
  <1>4. PICK r : r = Reconciled(u, text, final)
    OBVIOUS
  <1>5. r = ReconciledAs(u, text, final, al, revision, affected)
    BY <1>1, <1>2, <1>3, <1>4 DEF Reconciled, ReconciledOn
  <1>6. \E v, next, upserts, retired, now : r = Told(v, next, upserts, retired, now)
    <2>1. CASE r = Ambiguous(u, affected)
      BY <2>1 DEF Ambiguous
    <2>2. CASE r = Limited(u, text, final)
      <3>1. \/ r = Unchanged([u EXCEPT !.stopped = TRUE])
            \/ r = Anew(u, text, Fresh(TailOf(Split(text))))
        BY <2>2 DEF Limited
      <3>2. CASE r = Unchanged([u EXCEPT !.stopped = TRUE])
        BY <3>2 DEF Unchanged
      <3>3. CASE r = Anew(u, text, Fresh(TailOf(Split(text))))
        BY <3>3 DEF Anew
      <3> QED
        BY <3>1, <3>2, <3>3
    <2>3. CASE r = Aligned(u, text, final, al, revision, IF revision THEN {} ELSE affected)
      BY <2>3 DEF Aligned, AlignedAs
    <2> QED
      BY <1>5, <2>1, <2>2, <2>3 DEF ReconciledAs
  <1> QED
    BY <1>4, <1>6 DEF Told

LEMMA NoUtteranceTyped ==
  /\ NoUtterance \in Utterance /\ NoUtterance.segments = <<>> /\ NoUtterance.gone = {}
  /\ NoUtterance.tombstones = 0 /\ NoUtterance.snapshots = <<>> /\ NoUtterance.ages = <<>>
  /\ NoUtterance.open = FALSE /\ NoUtterance.closed = FALSE
  <1>1. PICK empty : empty = <<>>
    OBVIOUS
  <1>2. empty \in Seq(Text) /\ empty \in Seq(Nat) /\ empty \in Seq(Segment)
    BY <1>1
  <1>3. NoUtterance = [open |-> FALSE, closed |-> FALSE, stopped |-> FALSE, tombstones |-> 0,
                       snapshots |-> empty, ages |-> empty, segments |-> empty, gone |-> {}]
    BY <1>1 DEF NoUtterance
  <1> QED
    BY <1>1, <1>2, <1>3 DEF Utterance

LEMMA EmptyOk ==
  ASSUME NEW u \in Utterance, NEW next, u.segments = <<>>, u.gone = {}, u.tombstones = 0,
         u.snapshots = <<>>, u.ages = <<>>
  PROVE  UttOk(u, next) /\ HearsOk(u) /\ NoneFinal(u) /\ Agrees(u, <<>>)
  <1>1. IdsOf(u.segments) = {} /\ Len(u.segments) = 0
    BY DEF IdsOf
  <1>2. UttOk(u, next)
    BY <1>1, SegmenterAssumption DEF UttOk, Managed
  <1>3. HearsOk(u)
    BY SegmenterAssumption DEF HearsOk
  <1> QED
    BY <1>1, <1>2, <1>3 DEF NoneFinal, Agrees

LEMMA OpenedOk ==
  ASSUME SegInv
  PROVE  /\ Opened \in Utterance /\ Opened.open = TRUE /\ Opened.closed = FALSE
         /\ UttOk(Opened, nextId) /\ HearsOk(Opened) /\ NoneFinal(Opened)
         /\ Agrees(Opened, OfUtterance)
  <1>1. CASE utt.open /\ ~utt.closed
    <2>1. Opened = utt /\ OfUtterance = taken
      BY <1>1 DEF Opened, OfUtterance
    <2>2. utt \in Utterance
      BY DEF SegInv, UttOk
    <2>3. utt.open = TRUE /\ utt.closed = FALSE
      BY <1>1, <2>2 DEF Utterance
    <2> QED
      BY <1>1, <2>1, <2>2, <2>3 DEF SegInv
  <1>2. CASE ~(utt.open /\ ~utt.closed)
    <2>1. PICK u : u = Begun
      OBVIOUS
    <2>2. /\ u \in Utterance /\ u.segments = <<>> /\ u.gone = {} /\ u.tombstones = 0
          /\ u.snapshots = <<>> /\ u.ages = <<>> /\ u.open = TRUE /\ u.closed = FALSE
      BY <2>1, NoUtteranceTyped DEF Begun, Utterance
    <2>3. Opened = u /\ OfUtterance = <<>>
      BY <1>2, <2>1 DEF Opened, OfUtterance
    <2> QED
      BY <2>2, <2>3, EmptyOk
  <1> QED
    BY <1>1, <1>2

LEMMA HearsTyped ==
  ASSUME NEW u \in Utterance, HearsOk(u), NEW now \in Text
  PROVE  LET v == Hears(u, now)
         IN  /\ v \in Utterance /\ HearsOk(v)
             /\ v.open = u.open /\ v.closed = u.closed
             /\ v.segments = u.segments /\ v.tombstones = u.tombstones /\ v.gone = u.gone
             /\ v.stopped = u.stopped /\ v.snapshots # <<>> /\ Last(v.snapshots) = now
             /\ v.ages = Aging(u, now, CommonWithLast(u, now))
  <1>1. PICK same : same = CommonWithLast(u, now)
    OBVIOUS
  <1>2. same \in Nat /\ same <= Len(u.ages)
    <2>1. CASE u.snapshots = <<>>
      BY <1>1, <2>1 DEF CommonWithLast, HearsOk
    <2>2. CASE u.snapshots # <<>>
      <3>1. PICK last : last = Last(u.snapshots)
        OBVIOUS
      <3>2. last \in Text /\ Len(last) \in Nat
        BY <2>2, <3>1 DEF Utterance, Last, Text
      <3>3. {last, now} \subseteq Text /\ last \in {last, now}
        BY <3>2
      <3>4. Len(LongestCommonPrefix({last, now})) \in 0..Len(last)
        BY <3>3, CommonPrefixOf
      <3>5. same = Len(LongestCommonPrefix({last, now}))
        BY <1>1, <2>2, <3>1 DEF CommonWithLast, CommonPoints
      <3>6. Len(u.ages) = Len(last)
        BY <2>2, <3>1 DEF HearsOk
      <3> QED
        BY <3>2, <3>4, <3>5, <3>6
    <2> QED
      BY <2>1, <2>2
  <1>3. PICK ages : ages = Aging(u, now, same)
    OBVIOUS
  <1>4. ages \in Seq(Nat) /\ Len(ages) = Len(now)
    <2>1. Len(now) \in Nat /\ DOMAIN now = 1..Len(now)
      BY DEF Text
    <2>2. u.ages \in Seq(Nat) /\ Len(u.ages) \in Nat
      BY DEF Utterance
    <2>3. ages = [i \in 1..Len(now) |-> IF i <= same THEN u.ages[i] ELSE 0]
      BY <1>3, <2>1 DEF Aging
    <2>4. \A i \in 1..Len(now) : i <= same => u.ages[i] \in Nat
      BY <1>2, <2>1, <2>2
    <2>5. \A i \in 1..Len(now) : (IF i <= same THEN u.ages[i] ELSE 0) \in Nat
      BY <2>4
    <2> QED
      BY <2>1, <2>3, <2>5
  <1>5. PICK long : long = Append(u.snapshots, now)
    OBVIOUS
  <1>6. PICK shots : shots = LastShots(long)
    OBVIOUS
  <1>7. /\ shots \in Seq(Text) /\ Len(shots) <= MaxSnapshots
        /\ shots # <<>> /\ Last(shots) = now
    <2>1. PICK m : m = Len(u.snapshots)
      OBVIOUS
    <2>2. m \in Nat /\ m <= MaxSnapshots /\ MaxSnapshots \in Nat \ {0}
          /\ u.snapshots \in Seq(Text)
      BY <2>1, SegmenterAssumption DEF HearsOk, Utterance
    <2>3. long \in Seq(Text) /\ Len(long) = m + 1 /\ long[m + 1] = now /\ long # <<>>
      BY <1>5, <2>1, <2>2
    <2>4. CASE m + 1 > MaxSnapshots
      <3>1. shots = Tail(long)
        BY <1>6, <2>3, <2>4 DEF LastShots
      <3>2. shots \in Seq(Text) /\ Len(shots) = m /\ m # 0
        BY <2>2, <2>3, <2>4, <3>1
      <3>3. shots[m] = long[m + 1]
        BY <2>2, <2>3, <3>1, <3>2
      <3> QED
        BY <2>2, <2>3, <3>2, <3>3 DEF Last
    <2>5. CASE ~(m + 1 > MaxSnapshots)
      <3>1. shots = long
        BY <1>6, <2>3, <2>5 DEF LastShots
      <3> QED
        BY <2>2, <2>3, <2>5, <3>1 DEF Last
    <2> QED
      BY <2>4, <2>5
  <1>8. PICK v : v = Hears(u, now)
    OBVIOUS
  <1>9. v = [u EXCEPT !.snapshots = shots, !.ages = ages]
    BY <1>1, <1>3, <1>5, <1>6, <1>8 DEF Hears, Utterance
  <1>10. /\ v \in Utterance
         /\ v.open = u.open /\ v.closed = u.closed
         /\ v.segments = u.segments /\ v.tombstones = u.tombstones /\ v.gone = u.gone
         /\ v.snapshots = shots /\ v.ages = ages /\ v.stopped = u.stopped
    BY <1>4, <1>7, <1>9 DEF Utterance
  <1>11. HearsOk(v)
    BY <1>4, <1>7, <1>10 DEF HearsOk
  <1> QED
    BY <1>1, <1>3, <1>7, <1>8, <1>10, <1>11

\* What is over stays as it is until the utterance is.
SaidStays ==
    \A s \in Range(utt.segments) :
        s.id \in utt.gone =>
            \/ utt'.segments = <<>> \/ utt.closed
            \/ \E t \in Range(utt'.segments) : t.id = s.id /\ t.text = s.text

\* A step keeps the invariant, is one call of a caption feed and says nothing twice.
StepOk ==
    /\ SegInv'
    /\ Offers(taken, taken', nextId') \/ Offers(<<>>, taken', nextId')
    /\ SaidStays

LEMMA ReturnsOk ==
  ASSUME SegInv, NEW u, NEW base, NEW r, UttOk(u, nextId), Agrees(u, base), ResultOk(u, r),
         ~r.utt.closed => NoneFinal(r.utt), ~r.utt.open => r.utt = NoUtterance,
         Returns(base, r)
  PROVE  SegInv' /\ Offers(base, taken', nextId')
  <1>1. /\ r.nextId <= MaxId /\ utt' = r.utt /\ nextId' = r.nextId /\ taken' = Takes(base, r)
        /\ texts' = texts /\ incremental' = incremental
    BY DEF Returns
  <1>2. nextId \in Nat /\ MaxId \in Nat
    BY SegmenterAssumption DEF SegInv
  <1>3. UttOk(r.utt, r.nextId) /\ HearsOk(r.utt) /\ Continues(u, r)
    BY DEF ResultOk
  <1>4. Agrees(r.utt, Takes(base, r)) /\ Offers(base, Takes(base, r), r.nextId)
    BY <1>2, <1>3, TakesOver
  <1>5. r.nextId \in 0..MaxId
    BY <1>1, <1>2, <1>3 DEF Continues
  <1>6. SegInv'
    BY <1>1, <1>3, <1>4, <1>5 DEF SegInv
  <1> QED
    BY <1>1, <1>4, <1>6

LEMMA SaidByCall ==
  ASSUME SegInv, NEW u, NEW r, u.segments = Opened.segments, u.gone = Opened.gone,
         KeepsSaid(u, r), utt' = r.utt, r.utt \in Utterance
  PROVE  SaidStays
  <1>1. utt \in Utterance /\ utt.segments \in Seq(Segment)
    BY DEF SegInv, UttOk, Utterance
  <1>2. CASE utt.closed
    BY <1>2 DEF SaidStays
  <1>3. CASE ~utt.open
    <2>1. Range(utt.segments) = {}
      BY <1>3, NoUtteranceTyped DEF SegInv, Range
    <2> QED
      BY <2>1 DEF SaidStays
  <1>4. CASE utt.open /\ ~utt.closed
    <2>1. u.segments = utt.segments /\ u.gone = utt.gone
      BY <1>4 DEF Opened
    <2> SUFFICES ASSUME NEW s \in Range(utt.segments), s.id \in utt.gone
                 PROVE  \E t \in Range(utt'.segments) : t.id = s.id /\ t.text = s.text
      BY DEF SaidStays
    <2>2. PICK k \in 1..Len(utt.segments) : s = utt.segments[k]
      BY <1>1 DEF Range
    <2>3. PICK i \in 1..Len(r.utt.segments) :
             r.utt.segments[i].id = s.id /\ r.utt.segments[i].text = s.text
      BY <2>1, <2>2 DEF KeepsSaid
    <2>4. r.utt.segments[i] \in Range(r.utt.segments)
      <3>1. DOMAIN r.utt.segments = 1..Len(r.utt.segments)
        BY IdsOfSegments
      <3> QED
        BY <3>1 DEF Range
    <2> QED
      BY <2>3, <2>4
  <1> QED
    BY <1>2, <1>3, <1>4

\* A step on the segments as they are.
LEMMA SaidBySame ==
  ASSUME utt'.segments = utt.segments
  PROVE  SaidStays
  BY DEF SaidStays

\* A call of interim or final.
LEMMA CallOk ==
  ASSUME SegInv, NEW u, NEW r, UttOk(u, nextId), ResultOk(u, r),
         u.segments = Opened.segments, u.gone = Opened.gone,
         ~r.utt.closed => NoneFinal(r.utt), r.utt.open,
         Returns(OfUtterance, r)
  PROVE  StepOk
  <1>1. Agrees(u, OfUtterance)
    BY OpenedOk DEF Agrees
  <1>2. SegInv' /\ Offers(OfUtterance, taken', nextId')
    BY <1>1, ReturnsOk
  <1>3. OfUtterance = taken \/ OfUtterance = <<>>
    BY DEF OfUtterance
  <1>4. SaidStays
    BY SaidByCall DEF ResultOk, UttOk, Returns
  <1> QED
    BY <1>2, <1>3, <1>4 DEF StepOk

\* The caller keeps what it has, or less.
LEMMA Fewer ==
  ASSUME NEW u, NEW before, NEW after, nextId \in Nat, UttOk(u, nextId), Agrees(u, after),
         DOMAIN after \subseteq DOMAIN before, \A id \in DOMAIN after : after[id] = before[id]
  PROVE  Offers(before, after, nextId)
  <1>1. u \in Utterance
    BY DEF UttOk
  <1>2. \A id \in DOMAIN after : \E i \in 1..Len(u.segments) :
           u.segments[i].id = id /\ after[id] = u.segments[i]
    BY <1>1, IdsOfSegments DEF Agrees
  <1>3. \A i \in 1..Len(u.segments) : u.segments[i].order = i
    BY DEF UttOk
  <1>4. \A id, other \in DOMAIN after : id # other => after[id].order # after[other].order
    BY <1>2, <1>3
  <1>5. DOMAIN after \ DOMAIN before = {}
    OBVIOUS
  <1>6. \A id \in DOMAIN after : Feed!Later(before[id], after[id])
    BY DEF Feed!Later
  <1> QED
    BY <1>4, <1>5, <1>6 DEF Offers

LEMMA TextTyped ==
  ASSUME SegInv, NEW text \in texts
  PROVE  text \in Text
  BY SegmenterAssumption DEF SegInv, Text

LEMMA FinalTextTyped ==
  ASSUME NEW text \in Text
  PROVE  FinalText(text) \in Text
  <1>1. CASE Len(text) > MaxSource
    <2>1. PICK from : from = Len(text) - MaxSource + 1
      OBVIOUS
    <2>2. from \in 1..(Len(text) + 1) /\ Len(text) \in 0..Len(text)
      BY <1>1, <2>1, SegmenterAssumption DEF Text
    <2>3. SubSeq(text, from, Len(text)) \in Text
      BY <2>2, PieceTyped
    <2> QED
      BY <1>1, <2>1, <2>3, NormalizedTyped DEF FinalText, BoundedTail
  <1>2. CASE ~(Len(text) > MaxSource)
    BY <1>2, NormalizedTyped DEF FinalText
  <1> QED
    BY <1>1, <1>2

LEMMA InterimTooLongStep ==
  ASSUME SegInv, NEW text, InterimTooLong(text)
  PROVE  StepOk
  <1>1. PICK o : o = Opened
    OBVIOUS
  <1>2. PICK v : v = [o EXCEPT !.stopped = TRUE, !.snapshots = <<>>, !.ages = <<>>]
    OBVIOUS
  <1>3. /\ o \in Utterance /\ o.open = TRUE /\ o.closed = FALSE
        /\ UttOk(o, nextId) /\ NoneFinal(o)
    BY <1>1, OpenedOk
  <1>4. /\ v \in Utterance /\ v.open = o.open /\ v.closed = o.closed
        /\ v.segments = o.segments /\ v.tombstones = o.tombstones /\ v.gone = o.gone
        /\ v.snapshots = <<>> /\ v.ages = <<>>
    <2>1. PICK empty : empty = <<>>
      OBVIOUS
    <2>2. empty \in Seq(Text) /\ empty \in Seq(Nat)
      BY <2>1
    <2>3. v = [o EXCEPT !.stopped = TRUE, !.snapshots = empty, !.ages = empty]
      BY <1>2, <2>1
    <2>4. /\ v \in Utterance /\ v.open = o.open /\ v.closed = o.closed
          /\ v.segments = o.segments /\ v.tombstones = o.tombstones /\ v.gone = o.gone
          /\ v.snapshots = empty /\ v.ages = empty
      BY <1>3, <2>2, <2>3 DEF Utterance
    <2> QED
      BY <2>1, <2>4
  <1>5. HearsOk(v)
    BY <1>4, SegmenterAssumption DEF HearsOk
  <1>6. PICK r : r = Unchanged(v)
    OBVIOUS
  <1>7. nextId \in Nat
    BY DEF SegInv
  <1>8. Outcome(o, FALSE, r)
    BY <1>3, <1>4, <1>5, <1>6, <1>7, UnchangedOk
  <1>9. Returns(OfUtterance, r)
    BY <1>1, <1>2, <1>6 DEF InterimTooLong
  <1> QED
    BY <1>1, <1>3, <1>8, <1>9, CallOk DEF Outcome

LEMMA InterimIgnoredStep ==
  ASSUME SegInv, NEW text, InterimIgnored(text)
  PROVE  StepOk
  <1>1. PICK o : o = Opened
    OBVIOUS
  <1>2. /\ o \in Utterance /\ o.open = TRUE /\ o.closed = FALSE
        /\ UttOk(o, nextId) /\ HearsOk(o) /\ NoneFinal(o)
    BY <1>1, OpenedOk
  <1>3. nextId \in Nat
    BY DEF SegInv
  <1>4. PICK r : r = Unchanged(o)
    OBVIOUS
  <1>5. Outcome(o, FALSE, r)
    BY <1>2, <1>3, <1>4, UnchangedOk
  <1>6. Returns(OfUtterance, r)
    BY <1>1, <1>4 DEF InterimIgnored
  <1> QED
    BY <1>1, <1>2, <1>5, <1>6, CallOk DEF Outcome

LEMMA InterimStep ==
  ASSUME SegInv, NEW text, Interim(text)
  PROVE  StepOk
  <1>1. PICK now \in {Normalized(text)} :
          /\ text \in texts
          /\ Returns(OfUtterance, Evaluated(Hears(Opened, now)))
    BY DEF Interim
  <1>2. now \in Text
    BY <1>1, TextTyped, NormalizedTyped
  <1>3. PICK o : o = Opened
    OBVIOUS
  <1>4. /\ o \in Utterance /\ o.open = TRUE /\ o.closed = FALSE
        /\ UttOk(o, nextId) /\ HearsOk(o) /\ NoneFinal(o)
    BY <1>3, OpenedOk
  <1>5. PICK u : u = Hears(o, now)
    OBVIOUS
  <1>6. /\ u \in Utterance /\ HearsOk(u)
        /\ u.open = o.open /\ u.closed = o.closed
        /\ u.segments = o.segments /\ u.tombstones = o.tombstones /\ u.gone = o.gone
    BY <1>2, <1>4, <1>5, HearsTyped
  <1>7. UttOk(u, nextId) /\ NoneFinal(u)
    BY <1>4, <1>6 DEF UttOk, Managed, NoneFinal
  <1>8. PICK r : r = Evaluated(u)
    OBVIOUS
  <1>9. nextId \in Nat
    BY DEF SegInv
  <1>10. Outcome(u, FALSE, r)
    BY <1>6, <1>7, <1>8, <1>9, EvaluatedOk
  <1>11. Returns(OfUtterance, r)
    BY <1>1, <1>3, <1>5, <1>8
  <1> QED
    BY <1>3, <1>4, <1>6, <1>7, <1>10, <1>11, CallOk DEF Outcome

LEMMA FinalStep ==
  ASSUME SegInv, NEW text, Final(text)
  PROVE  StepOk
  <1>1. text \in Text
    BY TextTyped DEF Final
  <1>2. FinalText(text) \in Text
    BY <1>1, FinalTextTyped
  <1>3. PICK o : o = Opened
    OBVIOUS
  <1>4. /\ o \in Utterance /\ o.open = TRUE /\ o.closed = FALSE
        /\ UttOk(o, nextId) /\ HearsOk(o) /\ NoneFinal(o)
    BY <1>3, OpenedOk
  <1>5. PICK r : r = Reconciled(o, FinalText(text), TRUE)
    OBVIOUS
  <1>6. nextId \in Nat
    BY DEF SegInv
  <1>7. Outcome(o, TRUE, r)
    BY <1>2, <1>4, <1>5, <1>6, ReconciledOk
  <1>8. r = Told(r.utt, r.nextId, r.upserts, r.retired, r.text)
    BY <1>5, ReconciledTold
  <1>9. ResultOk(o, Closed(r)) /\ Closed(r).utt.open = o.open /\ Closed(r).utt.closed
    BY <1>7, <1>8, ClosedOk
  <1>10. Returns(OfUtterance, Closed(r))
    BY <1>3, <1>5 DEF Final
  <1> QED
    BY <1>3, <1>4, <1>9, <1>10, CallOk

LEMMA TickStep ==
  ASSUME SegInv, Tick
  PROVE  StepOk
  <1>1. PICK r : r = Evaluated(utt)
    OBVIOUS
  <1>2. Returns(taken, r)
    BY <1>1 DEF Tick
  <1>3. /\ nextId \in Nat /\ UttOk(utt, nextId) /\ HearsOk(utt) /\ Agrees(utt, taken)
        /\ ~utt.closed => NoneFinal(utt)
        /\ ~utt.open => utt = NoUtterance
    BY DEF SegInv
  <1>4. Outcome(utt, FALSE, r)
    BY <1>1, <1>3, EvaluatedOk
  <1>5. utt' = r.utt
    BY <1>2 DEF Returns
  <1>6. ~r.utt.open => r.utt = NoUtterance
    <2>1. SUFFICES ASSUME utt = NoUtterance PROVE r.utt = NoUtterance
      BY <1>3, <1>4 DEF Outcome
    <2>2. ~(Len(utt.snapshots) >= MaxSnapshots)
      BY <2>1, NoUtteranceTyped, SegmenterAssumption
    <2> QED
      BY <1>1, <2>1, <2>2 DEF Evaluated, Unchanged, Told
  <1>7. SegInv' /\ Offers(taken, taken', nextId')
    BY <1>2, <1>3, <1>4, <1>6, ReturnsOk DEF Outcome
  <1>8. SaidStays
    <2>1. CASE utt.open /\ ~utt.closed
      <3>1. Opened = utt
        BY <2>1 DEF Opened
      <3> QED
        BY <1>4, <1>5, <3>1, SaidByCall DEF Outcome, ResultOk, UttOk
    <2>2. CASE utt.closed
      BY <2>2 DEF SaidStays
    <2>3. CASE ~utt.open
      <3>1. Range(utt.segments) = {}
        BY <1>3, <2>3, NoUtteranceTyped DEF Range
      <3> QED
        BY <3>1 DEF SaidStays
    <2> QED
      BY <2>1, <2>2, <2>3
  <1> QED
    BY <1>7, <1>8 DEF StepOk

LEMMA RetireStep ==
  ASSUME SegInv, NEW id, Retire(id)
  PROVE  StepOk
  <1>1. /\ id \in IdsOf(utt.segments) /\ id \notin utt.gone
        /\ utt' = [utt EXCEPT !.gone = @ \cup {id}]
        /\ taken' = [other \in DOMAIN taken \ {id} |-> taken[other]]
        /\ texts' = texts /\ incremental' = incremental /\ nextId' = nextId
    BY DEF Retire
  <1>2. /\ nextId \in Nat /\ UttOk(utt, nextId) /\ HearsOk(utt) /\ Agrees(utt, taken)
        /\ ~utt.closed => NoneFinal(utt)
        /\ ~utt.open => utt = NoUtterance
        /\ utt \in Utterance
    BY DEF SegInv, UttOk
  <1>3. id \in Nat
    BY <1>1, <1>2, IdsOfSegments
  <1>4. /\ utt' \in Utterance /\ utt'.open = utt.open /\ utt'.closed = utt.closed
        /\ utt'.segments = utt.segments /\ utt'.tombstones = utt.tombstones
        /\ utt'.gone = utt.gone \cup {id}
        /\ utt'.snapshots = utt.snapshots /\ utt'.ages = utt.ages
    BY <1>1, <1>2, <1>3 DEF Utterance
  <1>5. UttOk(utt', nextId)
    BY <1>1, <1>2, <1>4 DEF UttOk, Managed
  <1>6. HearsOk(utt') /\ (NoneFinal(utt) => NoneFinal(utt'))
    BY <1>2, <1>4 DEF HearsOk, NoneFinal
  <1>7. Agrees(utt', taken')
    BY <1>1, <1>2, <1>4 DEF Agrees
  <1>8. utt.open
    <2>1. IdsOf(<<>>) = {}
      BY DEF IdsOf
    <2> QED
      BY <1>1, <1>2, <2>1, NoUtteranceTyped
  <1>9. SegInv'
    BY <1>1, <1>2, <1>4, <1>5, <1>6, <1>7, <1>8 DEF SegInv
  <1>10. Offers(taken, taken', nextId)
    BY <1>1, <1>2, <1>5, <1>7, Fewer
  <1> QED
    BY <1>1, <1>4, <1>9, <1>10, SaidBySame DEF StepOk

LEMMA SetIncrementalStep ==
  ASSUME SegInv, NEW enabled \in BOOLEAN, SetIncremental(enabled)
  PROVE  StepOk
  <1>1. /\ incremental' = enabled /\ texts' = texts /\ utt' = utt /\ nextId' = nextId
        /\ taken' = taken
    BY DEF SetIncremental
  <1>2. SegInv'
    BY <1>1 DEF SegInv
  <1>3. Offers(taken, taken', nextId')
    BY <1>1, Fewer DEF SegInv
  <1> QED
    BY <1>1, <1>2, <1>3, SaidBySame DEF StepOk

LEMMA ResetStep ==
  ASSUME SegInv, Reset
  PROVE  StepOk
  <1>1. /\ incremental' = incremental /\ texts' = texts /\ utt' = NoUtterance
        /\ nextId' = nextId /\ taken' = <<>>
    BY DEF Reset
  <1>2. /\ UttOk(utt', nextId') /\ HearsOk(utt') /\ NoneFinal(utt') /\ Agrees(utt', taken')
    BY <1>1, NoUtteranceTyped, EmptyOk
  <1>3. SegInv'
    BY <1>1, <1>2 DEF SegInv
  <1>4. Offers(taken, taken', nextId')
    <2>1. DOMAIN taken' = {}
      BY <1>1
    <2> QED
      BY <1>1, <2>1 DEF Offers, SegInv
  <1>5. SaidStays
    BY <1>1, NoUtteranceTyped DEF SaidStays
  <1> QED
    BY <1>3, <1>4, <1>5 DEF StepOk

LEMMA PassStep ==
  ASSUME SegInv, Pass
  PROVE  StepOk
  <1>1. PICK ages : ages = [i \in DOMAIN utt.ages |-> Min({utt.ages[i] + 1, OpenAge})]
    OBVIOUS
  <1>2. /\ incremental' = incremental /\ texts' = texts
        /\ nextId' = nextId /\ taken' = taken /\ DOMAIN utt.ages # {}
    BY DEF Pass
  <1>3. /\ UttOk(utt, nextId) /\ HearsOk(utt) /\ Agrees(utt, taken)
        /\ ~utt.closed => NoneFinal(utt)
        /\ ~utt.open => utt = NoUtterance
        /\ utt \in Utterance
    BY DEF SegInv, UttOk
  <1>4. ages \in Seq(Nat) /\ Len(ages) = Len(utt.ages)
    <2>1. utt.ages \in Seq(Nat) /\ OpenAge \in Nat
      BY <1>3, SegmenterAssumption DEF Utterance
    <2>2. \A a \in Nat : Min({a + 1, OpenAge}) \in Nat
      <3> TAKE a \in Nat
      <3>1. CASE a + 1 <= OpenAge
        <4>1. Min({a + 1, OpenAge}) = a + 1
          BY <2>1, <3>1 DEF Min
        <4> QED BY <4>1
      <3>2. CASE a + 1 > OpenAge
        <4>1. Min({a + 1, OpenAge}) = OpenAge
          BY <2>1, <3>2 DEF Min
        <4> QED BY <2>1, <4>1
      <3> QED
        BY <2>1, <3>1, <3>2
    <2>3. PICK n \in Nat : n = Len(utt.ages) /\ DOMAIN utt.ages = 1..n
      BY <2>1
    <2>4. \A i \in 1..n : Min({utt.ages[i] + 1, OpenAge}) \in Nat
      <3>1. \A i \in 1..n : utt.ages[i] \in Nat
        BY <2>1, <2>3
      <3> QED
        BY <2>2, <3>1, Zenon
    <2> QED
      BY <1>1, <2>3, <2>4
  <1>5. utt' = [utt EXCEPT !.ages = ages]
    BY <1>1, <1>3 DEF Pass, Utterance
  <1>6. /\ utt' \in Utterance /\ utt'.open = utt.open /\ utt'.closed = utt.closed
        /\ utt'.segments = utt.segments /\ utt'.tombstones = utt.tombstones
        /\ utt'.gone = utt.gone
        /\ utt'.snapshots = utt.snapshots /\ utt'.ages = ages
    BY <1>3, <1>4, <1>5 DEF Utterance
  <1>7. UttOk(utt', nextId)
    BY <1>3, <1>6 DEF UttOk, Managed
  <1>8. HearsOk(utt') /\ (NoneFinal(utt) => NoneFinal(utt'))
    BY <1>3, <1>4, <1>6 DEF HearsOk, NoneFinal
  <1>9. Agrees(utt', taken')
    BY <1>2, <1>3, <1>6 DEF Agrees
  <1>10. utt.open
    <2>1. DOMAIN <<>> = {}
      OBVIOUS
    <2> QED
      BY <1>2, <1>3, <2>1, NoUtteranceTyped
  <1>11. SegInv'
    BY <1>2, <1>3, <1>6, <1>7, <1>8, <1>9, <1>10 DEF SegInv
  <1>12. Offers(taken, taken', nextId')
    BY <1>2, Fewer DEF SegInv
  <1> QED
    BY <1>6, <1>11, <1>12, SaidBySame DEF StepOk

-----------------------------------------------------------------------------
(* What the segments say together. *)

\* The segments of an utterance stand for a text.
Stands(u, text) ==
    /\ IsSuffix(Joined(u.segments), Content(text))
    /\ Managed(u) < MaxSegments => Joined(u.segments) = Content(text)

Kept == transcript \in Text /\ Stands(utt, transcript)

\* What a call finds: no segments, or those of the transcript.
Finds(u) == u.segments = <<>> \/ Stands(u, transcript)

\* The utterance is stopped, or goes on with what was heard of it.
Rests(u, r) ==
    \/ r.utt.stopped
    \/ /\ r.utt.stopped = u.stopped /\ r.utt.snapshots = u.snapshots
       /\ r.utt.ages = u.ages

\* What evaluate may cut.
Settled(u) == SubSeq(Last(u.snapshots), 1, StableEnd(u, Last(u.snapshots)))

LEMMA JoinedIs ==
  ASSUME NEW segs \in Seq(Segment), NEW parts \in Seq(Text), Len(segs) = Len(parts),
         \A i \in 1..Len(parts) : segs[i].text = parts[i]
  PROVE  Joined(segs) = Whole(parts)
  <1>1. DOMAIN segs = DOMAIN parts /\ DOMAIN parts = 1..Len(parts)
    OBVIOUS
  <1>2. [i \in DOMAIN segs |-> Content(segs[i].text)]
          = [i \in DOMAIN parts |-> Content(parts[i])]
    BY <1>1
  <1> QED
    BY <1>2 DEF Joined, Whole

LEMMA NothingStands ==
  ASSUME NEW u, u.segments = <<>>
  PROVE  <<>> \in Text /\ Stands(u, <<>>)
  <1>1. <<>> \in Text
    BY EmptySeq DEF Text
  <1>2. [i \in DOMAIN <<>> |-> Content(<<>>[i].text)] = <<>>
    OBVIOUS
  <1>3. Joined(u.segments) = <<>>
    BY <1>2, FlattenEmpty DEF Joined
  <1>4. IsSuffix(<<>>, <<>>)
    BY <1>1, SuffixOf
  <1> QED
    BY <1>1, <1>3, <1>4, WholeEmpty DEF Stands

\* A call that stays with the segments, or says a text with them.
LEMMA StaysStands ==
  ASSUME NEW u, NEW r, transcript \in Text, Finds(u), Stays(u, r)
  PROVE  r.text \in Text /\ Stands(r.utt, r.text)
  <1>1. CASE u.segments = <<>>
    BY <1>1, NothingStands DEF Stays
  <1>2. CASE u.segments # <<>>
    BY <1>2 DEF Stays, Finds, Stands, Managed
  <1> QED
    BY <1>1, <1>2

LEMMA SaysStands ==
  ASSUME NEW u, NEW r, NEW text \in Text, NEW final, transcript \in Text, Finds(u),
         r.utt \in Utterance, Says(u, r, text, final)
  PROVE  r.text \in Text /\ Stands(r.utt, r.text)
  <1>1. CASE Stays(u, r) /\ r.utt.stopped
    BY <1>1, StaysStands
  <1>2. CASE ~(Stays(u, r) /\ r.utt.stopped)
    <2>1. PICK parts \in Seq(Part) :
            /\ Retold(u, r, parts, text, final)
            /\ IsSuffix(Whole(parts), Content(text))
            /\ Managed(r.utt) < MaxSegments => Whole(parts) = Content(text)
      BY <1>2 DEF Says
    <2>2. parts \in Seq(Text)
      <3>1. Part \subseteq Text
        BY DEF Part
      <3> QED
        BY <3>1, SeqMonotonic
    <2>3. r.utt.segments \in Seq(Segment)
      BY DEF Utterance
    <2>4. Joined(r.utt.segments) = Whole(parts)
      BY <2>1, <2>2, <2>3, JoinedIs DEF Retold
    <2> QED
      BY <2>1, <2>4 DEF Stands, Retold
  <1> QED
    BY <1>1, <1>2

LEMMA UnchangedStays ==
  ASSUME NEW u, NEW v, v.segments = u.segments, v.tombstones = u.tombstones
  PROVE  Stays(u, Unchanged(v))
  <1>1. PICK r : r = Unchanged(v)
    OBVIOUS
  <1>2. r.utt = v /\ r.text = IF v.segments = <<>> THEN <<>> ELSE transcript
    BY <1>1 DEF Unchanged, Told
  <1> QED
    BY <1>1, <1>2 DEF Stays

LEMMA EvaluatedSays ==
  ASSUME NEW u, nextId \in Nat, UttOk(u, nextId), HearsOk(u), ~u.closed => NoneFinal(u)
  PROVE  \/ Stays(u, Evaluated(u)) /\ Rests(u, Evaluated(u))
         \/ /\ ~u.stopped /\ u.snapshots # <<>> /\ Settled(u) \in Text
            /\ Says(u, Evaluated(u), Settled(u), FALSE)
  <1>1. u \in Utterance
    BY DEF UttOk
  <1>2. Stays(u, Unchanged(u)) /\ Rests(u, Unchanged(u))
    BY UnchangedStays DEF Unchanged, Told, Rests
  <1>3. CASE incremental /\ ~u.stopped /\ ~u.closed /\ Len(u.snapshots) >= MaxSnapshots
    <2>1. PICK text : text = Last(u.snapshots)
      OBVIOUS
    <2>2. PICK end : end = StableEnd(u, text)
      OBVIOUS
    <2>3. u.snapshots # <<>>
      <3>1. MaxSnapshots \in Nat \ {0} /\ Len(u.snapshots) \in Nat
        BY <1>1, SegmenterAssumption DEF Utterance
      <3>2. Len(u.snapshots) # 0
        BY <1>3, <3>1
      <3> QED
        BY <3>2
    <2>4. text \in Text /\ end \in 0..Len(text)
      BY <1>1, <2>1, <2>2, <2>3, StableEndTyped
    <2>5. Settled(u) = SubSeq(text, 1, end)
      BY <2>1, <2>2 DEF Settled
    <2>6. Settled(u) \in Text
      <3>1. 1 \in 1..(Len(text) + 1)
        BY <2>4 DEF Text
      <3> QED
        BY <2>4, <2>5, <3>1, PieceTyped
    <2>7. Says(u, Reconciled(u, Settled(u), FALSE), Settled(u), FALSE)
      BY <1>3, <2>6, ReconciledOk
    <2>8. Evaluated(u) = CutUpTo(u, text, end)
      BY <1>3, <2>1, <2>2 DEF Evaluated, EvaluatedAt
    <2>9. Evaluated(u) = Reconciled(u, Settled(u), FALSE) \/ Evaluated(u) = Unchanged(u)
      BY <2>5, <2>8 DEF CutUpTo
    <2> QED
      BY <1>2, <1>3, <2>3, <2>6, <2>7, <2>9
  <1>4. CASE ~(incremental /\ ~u.stopped /\ ~u.closed /\ Len(u.snapshots) >= MaxSnapshots)
    BY <1>2, <1>4 DEF Evaluated
  <1> QED
    BY <1>3, <1>4

LEMMA OpenedFinds ==
  ASSUME Kept
  PROVE  Finds(Opened)
  <1>1. CASE utt.open /\ ~utt.closed
    BY <1>1 DEF Opened, Kept, Finds
  <1>2. CASE ~(utt.open /\ ~utt.closed)
    <2>1. Begun.segments = <<>>
      BY NoUtteranceTyped DEF Begun, Utterance
    <2> QED
      BY <1>2, <2>1 DEF Opened, Finds
  <1> QED
    BY <1>1, <1>2

\* The call returns what stands for the text it tells.
LEMMA KeptByCall ==
  ASSUME NEW base, NEW r, Returns(base, r), r.text \in Text, Stands(r.utt, r.text)
  PROVE  Kept'
  <1>1. utt' = r.utt /\ transcript' = r.text
    BY DEF Returns
  <1> QED
    BY <1>1 DEF Kept, Stands

\* A step that neither changes the segments nor the text they stand for.
LEMMA KeptBySame ==
  ASSUME Kept, utt'.segments = utt.segments, utt'.tombstones = utt.tombstones,
         transcript' = transcript
  PROVE  Kept'
  BY DEF Kept, Stands, Managed

LEMMA KeptByInterimTooLong ==
  ASSUME SegInv, Kept, NEW text, InterimTooLong(text)
  PROVE  Kept'
  <1>1. PICK o : o = Opened
    OBVIOUS
  <1>2. PICK v : v = [o EXCEPT !.stopped = TRUE, !.snapshots = <<>>, !.ages = <<>>]
    OBVIOUS
  <1>3. o \in Utterance
    BY <1>1, OpenedOk
  <1>4. v.segments = o.segments /\ v.tombstones = o.tombstones
    BY <1>2, <1>3 DEF Utterance
  <1>5. PICK r : r = Unchanged(v)
    OBVIOUS
  <1>6. Finds(o) /\ Stays(o, r)
    BY <1>1, <1>4, <1>5, OpenedFinds, UnchangedStays
  <1>7. r.text \in Text /\ Stands(r.utt, r.text)
    BY <1>6, StaysStands DEF Kept
  <1>8. Returns(OfUtterance, r)
    BY <1>1, <1>2, <1>5 DEF InterimTooLong
  <1> QED
    BY <1>7, <1>8, KeptByCall

LEMMA KeptByInterimIgnored ==
  ASSUME SegInv, Kept, NEW text, InterimIgnored(text)
  PROVE  Kept'
  <1>1. PICK o : o = Opened
    OBVIOUS
  <1>2. PICK r : r = Unchanged(o)
    OBVIOUS
  <1>3. Finds(o) /\ Stays(o, r)
    BY <1>1, <1>2, OpenedFinds, UnchangedStays
  <1>4. r.text \in Text /\ Stands(r.utt, r.text)
    BY <1>3, StaysStands DEF Kept
  <1>5. Returns(OfUtterance, r)
    BY <1>1, <1>2 DEF InterimIgnored
  <1> QED
    BY <1>4, <1>5, KeptByCall

LEMMA KeptByEvaluated ==
  ASSUME SegInv, Kept, NEW u, UttOk(u, nextId), HearsOk(u), ~u.closed => NoneFinal(u),
         Finds(u), NEW base, Returns(base, Evaluated(u))
  PROVE  Kept'
  <1>1. PICK r : r = Evaluated(u)
    OBVIOUS
  <1>2. nextId \in Nat
    BY DEF SegInv
  <1>3. r.utt \in Utterance
    BY <1>1, <1>2, EvaluatedOk DEF Outcome, ResultOk, UttOk
  <1>4. r.text \in Text /\ Stands(r.utt, r.text)
    <2>1. CASE Stays(u, r)
      BY <2>1, StaysStands DEF Kept
    <2>2. CASE Settled(u) \in Text /\ Says(u, r, Settled(u), FALSE)
      BY <1>3, <2>2, SaysStands DEF Kept
    <2> QED
      BY <1>1, <1>2, <2>1, <2>2, EvaluatedSays
  <1> QED
    BY <1>1, <1>4, KeptByCall

LEMMA KeptByInterim ==
  ASSUME SegInv, Kept, NEW text, Interim(text)
  PROVE  Kept'
  <1>1. PICK now \in {Normalized(text)} :
          text \in texts /\ Returns(OfUtterance, Evaluated(Hears(Opened, now)))
    BY DEF Interim
  <1>2. now \in Text
    BY <1>1, TextTyped, NormalizedTyped
  <1>3. PICK o : o = Opened
    OBVIOUS
  <1>4. /\ o \in Utterance /\ o.closed = FALSE
        /\ UttOk(o, nextId) /\ HearsOk(o) /\ NoneFinal(o) /\ Finds(o)
    BY <1>3, OpenedOk, OpenedFinds
  <1>5. PICK u : u = Hears(o, now)
    OBVIOUS
  <1>6. /\ u \in Utterance /\ HearsOk(u)
        /\ u.segments = o.segments /\ u.tombstones = o.tombstones /\ u.gone = o.gone
    BY <1>2, <1>4, <1>5, HearsTyped
  <1>7. UttOk(u, nextId) /\ NoneFinal(u) /\ Finds(u)
    BY <1>4, <1>6 DEF UttOk, Managed, NoneFinal, Finds, Stands
  <1>8. Returns(OfUtterance, Evaluated(u))
    BY <1>1, <1>3, <1>5
  <1> QED
    BY <1>6, <1>7, <1>8, KeptByEvaluated

LEMMA KeptByTick ==
  ASSUME SegInv, Kept, Tick
  PROVE  Kept'
  <1>1. UttOk(utt, nextId) /\ HearsOk(utt) /\ (~utt.closed => NoneFinal(utt)) /\ Finds(utt)
    BY DEF SegInv, Kept, Finds
  <1>2. Returns(taken, Evaluated(utt))
    BY DEF Tick
  <1> QED
    BY <1>1, <1>2, KeptByEvaluated

LEMMA KeptByFinal ==
  ASSUME SegInv, Kept, NEW text, Final(text)
  PROVE  Kept'
  <1>1. PICK now : now = FinalText(text)
    OBVIOUS
  <1>2. now \in Text
    BY <1>1, TextTyped, FinalTextTyped DEF Final
  <1>3. PICK o : o = Opened
    OBVIOUS
  <1>4. UttOk(o, nextId) /\ HearsOk(o) /\ NoneFinal(o) /\ Finds(o)
    BY <1>3, OpenedOk, OpenedFinds
  <1>10. nextId \in Nat
    BY DEF SegInv
  <1>5. PICK r : r = Reconciled(o, now, TRUE)
    OBVIOUS
  <1>6. Says(o, r, now, TRUE) /\ r.utt \in Utterance
    BY <1>2, <1>4, <1>5, <1>10, ReconciledOk DEF Outcome, ResultOk, UttOk
  <1>7. r.text \in Text /\ Stands(r.utt, r.text)
    BY <1>2, <1>4, <1>6, SaysStands DEF Kept
  <1>8. Closed(r).text = r.text /\ Stands(Closed(r).utt, r.text)
    <2>1. PICK v : v = [r.utt EXCEPT !.closed = TRUE, !.snapshots = <<>>, !.ages = <<>>]
      OBVIOUS
    <2>2. v.segments = r.utt.segments /\ v.tombstones = r.utt.tombstones
      BY <1>6, <2>1 DEF Utterance
    <2>3. r = Told(r.utt, r.nextId, r.upserts, r.retired, r.text)
      BY <1>5, ReconciledTold
    <2>4. Closed(r).utt = v /\ Closed(r).text = r.text
      BY <2>1, <2>3 DEF Closed, Told
    <2> QED
      BY <1>7, <2>2, <2>4 DEF Stands, Managed
  <1>9. Returns(OfUtterance, Closed(r))
    BY <1>1, <1>3, <1>5 DEF Final
  <1> QED
    BY <1>7, <1>8, <1>9, KeptByCall

LEMMA KeptByOthers ==
  ASSUME SegInv, Kept,
         \/ \E id \in 1..MaxId : Retire(id)
         \/ \E enabled \in BOOLEAN : SetIncremental(enabled)
         \/ Reset \/ Pass \/ UNCHANGED vars
  PROVE  Kept'
  <1>1. utt \in Utterance
    BY DEF SegInv, UttOk
  <1>2. ASSUME NEW id, Retire(id) PROVE Kept'
    <2>1. /\ transcript' = transcript /\ utt'.segments = utt.segments
          /\ utt'.tombstones = utt.tombstones
      BY <1>1, <1>2 DEF Retire, Utterance
    <2> QED
      BY <2>1, KeptBySame
  <1>3. CASE Reset
    <2>1. utt'.segments = <<>> /\ transcript' = <<>>
      BY <1>3, NoUtteranceTyped DEF Reset
    <2> QED
      BY <2>1, NothingStands DEF Kept
  <1>4. CASE Pass
    <2>1. /\ transcript' = transcript /\ utt'.segments = utt.segments
          /\ utt'.tombstones = utt.tombstones
      BY <1>1, <1>4 DEF Pass, Utterance
    <2> QED
      BY <2>1, KeptBySame
  <1>5. CASE utt' = utt /\ transcript' = transcript
    BY <1>5, KeptBySame
  <1> QED
    BY <1>2, <1>3, <1>4, <1>5 DEF SetIncremental, vars

LEMMA KeptSteps ==
  ASSUME SegInv, Kept, [Next]_vars
  PROVE  Kept'
  <1>1. ASSUME NEW text,
               InterimTooLong(text) \/ InterimIgnored(text) \/ Interim(text) \/ Final(text)
        PROVE  Kept'
    BY <1>1, KeptByInterimTooLong, KeptByInterimIgnored, KeptByInterim, KeptByFinal
  <1> QED
    BY <1>1, KeptByTick, KeptByOthers DEF Next

-----------------------------------------------------------------------------
(* What is cut before the final text. *)

\* Two texts are the same up to a code point.
SameUpTo(a, b, i) == i <= Len(a) /\ i <= Len(b) /\ \A k \in 1..i : a[k] = b[k]

\* A code point that is one tick old stands where it does in every text that was current
\* since then, and so does what is before it.
HeardOk(u, heard) ==
    /\ heard \subseteq Text
    /\ ~u.stopped =>
          \A x \in heard : \A i \in 1..Len(u.ages) :
              u.ages[i] >= 1 => SameUpTo(x, Last(u.snapshots), i)

\* What is new and not final begins each of the texts heard.
OnlyCut(before, after, heard) ==
    \A t \in Range(after.segments) :
        ~t.final /\ t \notin Range(before.segments) =>
            \A text \in heard \cup Range(after.snapshots) :
                IsPrefix(Joined(SubSeq(after.segments, 1, t.order)), Content(text))

CutAndHeard == HeardOk(utt', recent') /\ OnlyCut(utt, utt', recent')

\* The settled text begins every text heard of late, and every snapshot.
LEMMA SettledBegins ==
  ASSUME NEW u \in Utterance, HearsOk(u), u.snapshots # <<>>, ~u.stopped,
         NEW heard, HeardOk(u, heard), NEW x \in heard \cup Range(u.snapshots)
  PROVE  /\ x \in Text /\ Settled(u) \in Text
         /\ \E rest \in Text : Content(x) = Content(Settled(u)) \o rest
  <1>1. PICK last : last = Last(u.snapshots)
    OBVIOUS
  <1>2. PICK n : n = StableEnd(u, last)
    OBVIOUS
  <1>3. /\ last \in Text /\ n \in 0..Len(last) /\ n <= CommonEnd(u)
        /\ \A i \in 1..n : u.ages[i] >= StableAge
    BY <1>1, <1>2, StableEndTyped
  <1>4. /\ Range(u.snapshots) \subseteq Text /\ last \in Range(u.snapshots)
        /\ Len(u.ages) = Len(last) /\ u.ages \in Seq(Nat)
    BY <1>1 DEF Utterance, Last, Range, HearsOk
  <1>5. x \in Text /\ Len(x) \in Nat /\ Len(last) \in Nat
    BY <1>3, <1>4 DEF HeardOk, Text
  <1>6. SameUpTo(x, last, n)
    <2>1. CASE x \in Range(u.snapshots)
      <3>1. PICK common : common = LongestCommonPrefix(Range(u.snapshots))
        OBVIOUS
      <3>2. /\ Len(common) \in 0..Len(x) /\ \A i \in 1..Len(common) : common[i] = x[i]
            /\ Len(common) \in 0..Len(last) /\ \A i \in 1..Len(common) : common[i] = last[i]
        BY <1>4, <2>1, <3>1, CommonPrefixOf
      <3>3. n <= Len(common)
        BY <1>3, <3>1 DEF CommonEnd
      <3> QED
        BY <1>3, <1>5, <3>2, <3>3 DEF SameUpTo
    <2>2. CASE x \in heard /\ n # 0
      <3>1. n \in 1..Len(u.ages) /\ n \in 1..n
        BY <1>3, <1>4, <1>5, <2>2
      <3>2. u.ages[n] >= 1
        <4>1. u.ages[n] \in Nat /\ u.ages[n] >= StableAge
          BY <1>3, <1>4, <3>1
        <4> QED
          BY <4>1, SegmenterAssumption
      <3> QED
        BY <1>1, <2>2, <3>1, <3>2 DEF HeardOk
    <2>3. CASE n = 0
      BY <1>5, <2>3 DEF SameUpTo
    <2> QED
      BY <2>1, <2>2, <2>3
  <1>7. n \in 0..Len(x) /\ Len(x) \in n..Len(x) /\ 1 \in 1..(Len(x) + 1)
        /\ 1 \in 1..(Len(last) + 1) /\ n + 1 \in 1..(Len(x) + 1) /\ Len(x) \in 0..Len(x)
    BY <1>3, <1>5, <1>6 DEF SameUpTo
  <1>8. Settled(u) = SubSeq(last, 1, n)
    BY <1>1, <1>2 DEF Settled
  <1>9. SubSeq(x, 1, n) = SubSeq(last, 1, n)
    <2>1. /\ SubSeq(x, 1, n) \in Seq(STRING) /\ SubSeq(last, 1, n) \in Seq(STRING)
          /\ Len(SubSeq(x, 1, n)) = n /\ Len(SubSeq(last, 1, n)) = n
          /\ \A k \in 1..n : SubSeq(x, 1, n)[k] = x[k]
          /\ \A k \in 1..n : SubSeq(last, 1, n)[k] = last[k]
      <3>1. n - 1 + 1 = n /\ (IF 1 <= n THEN n ELSE 0) = n /\ \A k \in 1..n : 1 + k - 1 = k
        BY <1>3
      <3>2. /\ SubSeq(x, 1, n) \in Text
            /\ Len(SubSeq(x, 1, n)) = IF 1 <= n THEN n - 1 + 1 ELSE 0
            /\ \A k \in 1..(n - 1 + 1) : SubSeq(x, 1, n)[k] = x[1 + k - 1]
        BY <1>5, <1>7, PieceTyped
      <3>3. /\ SubSeq(last, 1, n) \in Text
            /\ Len(SubSeq(last, 1, n)) = IF 1 <= n THEN n - 1 + 1 ELSE 0
            /\ \A k \in 1..(n - 1 + 1) : SubSeq(last, 1, n)[k] = last[1 + k - 1]
        BY <1>3, <1>7, PieceTyped
      <3> QED
        BY <3>1, <3>2, <3>3 DEF Text
    <2>2. \A k \in 1..n : x[k] = last[k]
      BY <1>6 DEF SameUpTo
    <2> QED
      BY <2>1, <2>2, SeqEqual
  <1>10. Settled(u) \in Text
    BY <1>3, <1>7, <1>8, PieceTyped
  <1>11. UpTo(x, Len(x)) = UpTo(x, n) \o Content(SubSeq(x, n + 1, Len(x)))
    BY <1>5, <1>7, UpToGoesOn
  <1>12. UpTo(x, Len(x)) = Content(x)
    BY <1>5, UpToEnds
  <1>13. SubSeq(x, n + 1, Len(x)) \in Text
    BY <1>5, <1>7, PieceTyped
  <1>14. Content(SubSeq(x, n + 1, Len(x))) \in Text
    BY <1>13, ContentMapped
  <1> QED
    BY <1>5, <1>8, <1>9, <1>10, <1>11, <1>12, <1>14 DEF UpTo

\* The first of some parts are what they begin with.
LEMMA FirstParts ==
  ASSUME NEW parts \in Seq(Text), NEW i \in 0..Len(parts)
  PROVE  /\ SubSeq(parts, 1, i) \in Seq(Text) /\ Len(SubSeq(parts, 1, i)) = i
         /\ \A k \in 1..i : SubSeq(parts, 1, i)[k] = parts[k]
         /\ \E rest \in Text : Whole(parts) = Whole(SubSeq(parts, 1, i)) \o rest
  <1>1. PICK n \in Nat : n = Len(parts)
    OBVIOUS
  <1>2. i \in Nat /\ i <= n /\ \A k \in 1..n : parts[k] \in Text
    BY <1>1
  <1>3. /\ SubSeq(parts, 1, i) \in Seq(Text) /\ Len(SubSeq(parts, 1, i)) = i
        /\ \A k \in 1..i : SubSeq(parts, 1, i)[k] = parts[k]
    <2>1. \A k \in 1..i : parts[k] \in Text
      BY <1>2
    <2>2. /\ i - 1 + 1 = i /\ (IF 1 <= i THEN i ELSE 0) = i /\ \A k \in 1..i : 1 + k - 1 = k
      BY <1>2
    <2>3. /\ SubSeq(parts, 1, i) \in Seq(Text)
          /\ Len(SubSeq(parts, 1, i)) = IF 1 <= i THEN i - 1 + 1 ELSE 0
          /\ \A k \in 1..(i - 1 + 1) : SubSeq(parts, 1, i)[k] = parts[1 + k - 1]
      BY <1>2, <2>1, SubSeqProperties
    <2> QED
      BY <2>2, <2>3
  <1>4. SubSeq(parts, i + 1, n) \in Seq(Text)
    <2>1. i + 1 \in Int /\ n \in Int /\ \A k \in (i + 1)..n : k \in 1..n
      BY <1>2
    <2>2. \A k \in (i + 1)..n : parts[k] \in Text
      BY <1>2, <2>1
    <2> QED
      BY <2>1, <2>2, SubSeqProperties
  <1>5. parts = SubSeq(parts, 1, i) \o SubSeq(parts, i + 1, n)
    <2>1. /\ 1 \in 1..(n + 1) /\ i \in (1 - 1)..n /\ n \in i..n
      BY <1>2
    <2>2. SubSeq(parts, 1, i) \o SubSeq(parts, i + 1, n) = SubSeq(parts, 1, n)
      BY <1>1, <2>1, ConcatAdjacentSubSeq
    <2>3. SubSeq(parts, 1, n) = parts
      BY <1>1, SubSeqFull
    <2> QED
      BY <2>2, <2>3
  <1>6. Whole(parts) = Whole(SubSeq(parts, 1, i)) \o Whole(SubSeq(parts, i + 1, n))
    BY <1>3, <1>4, <1>5, WholeConcat
  <1> QED
    BY <1>3, <1>4, <1>6, WholeMapped

LEMMA SameSegmentsCut ==
  ASSUME NEW before, NEW after, NEW heard, after.segments = before.segments
  PROVE  OnlyCut(before, after, heard)
  BY DEF OnlyCut

LEMMA RestsHeard ==
  ASSUME NEW u, NEW r, NEW heard, HeardOk(u, heard), Rests(u, r)
  PROVE  HeardOk(r.utt, heard)
  BY DEF HeardOk, Rests

\* The segments a text was cut into begin what the text begins.
LEMMA SegmentsBegin ==
  ASSUME NEW segs \in Seq(Segment), NEW parts \in Seq(Text), Len(segs) = Len(parts),
         \A i \in 1..Len(parts) : segs[i].text = parts[i],
         NEW x \in Text, NEW rest \in Text, Content(x) = Whole(parts) \o rest,
         NEW i \in 1..Len(segs)
  PROVE  IsPrefix(Joined(SubSeq(segs, 1, i)), Content(x))
  <1>1. i \in 0..Len(parts) /\ i \in Nat /\ i <= Len(segs)
    OBVIOUS
  <1>2. PICK first : first = SubSeq(parts, 1, i)
    OBVIOUS
  <1>3. /\ first \in Seq(Text) /\ Len(first) = i /\ \A k \in 1..i : first[k] = parts[k]
        /\ \E behind \in Text : Whole(parts) = Whole(first) \o behind
    BY <1>1, <1>2, FirstParts
  <1>4. PICK behind \in Text : Whole(parts) = Whole(first) \o behind
    BY <1>3
  <1>5. /\ SubSeq(segs, 1, i) \in Seq(Segment) /\ Len(SubSeq(segs, 1, i)) = i
        /\ \A k \in 1..i : SubSeq(segs, 1, i)[k] = segs[k]
    <2>1. \A k \in 1..i : segs[k] \in Segment
      BY <1>1
    <2>2. i - 1 + 1 = i /\ (IF 1 <= i THEN i ELSE 0) = i /\ \A k \in 1..i : 1 + k - 1 = k
      BY <1>1
    <2>3. /\ SubSeq(segs, 1, i) \in Seq(Segment)
          /\ Len(SubSeq(segs, 1, i)) = IF 1 <= i THEN i - 1 + 1 ELSE 0
          /\ \A k \in 1..(i - 1 + 1) : SubSeq(segs, 1, i)[k] = segs[1 + k - 1]
      BY <1>1, <2>1, SubSeqProperties
    <2> QED
      BY <2>2, <2>3
  <1>6. \A k \in 1..i : k \in 1..Len(parts)
    BY <1>1
  <1>7. Joined(SubSeq(segs, 1, i)) = Whole(first)
    <2>1. PICK some : some = SubSeq(segs, 1, i)
      OBVIOUS
    <2>2. some \in Seq(Segment) /\ first \in Seq(Text) /\ Len(some) = Len(first)
      BY <1>3, <1>5, <2>1
    <2>3. \A k \in 1..Len(first) : some[k].text = first[k]
      BY <1>3, <1>5, <1>6, <2>1
    <2>4. Joined(some) = Whole(first)
      BY ONLY <2>2, <2>3, JoinedIs
    <2> QED
      BY <2>1, <2>4
  <1>8. Whole(first) \in Text
    BY <1>3, WholeMapped
  <1>9. (Whole(first) \o behind) \o rest = Whole(first) \o (behind \o rest)
    <2>1. PICK a, b, c : a = Whole(first) /\ b = behind /\ c = rest
      OBVIOUS
    <2>2. a \in Seq(STRING) /\ b \in Seq(STRING) /\ c \in Seq(STRING)
      BY <1>8, <2>1 DEF Text
    <2>3. (a \o b) \o c = a \o (b \o c)
      BY ONLY <2>2, ConcatAssociative
    <2> QED
      BY <2>1, <2>3
  <1>10. behind \o rest \in Text
    BY ConcatProperties DEF Text
  <1>11. IsPrefix(Whole(first), Whole(first) \o (behind \o rest))
    BY <1>8, <1>10, PrefixOf
  <1> QED
    BY <1>4, <1>7, <1>9, <1>11

LEMMA EvaluatedCuts ==
  ASSUME NEW u, nextId \in Nat, UttOk(u, nextId), HearsOk(u), ~u.closed => NoneFinal(u),
         NEW heard, HeardOk(u, heard)
  PROVE  HeardOk(Evaluated(u).utt, heard) /\ OnlyCut(u, Evaluated(u).utt, heard)
  <1>1. PICK r : r = Evaluated(u)
    OBVIOUS
  <1>2. UttOk(r.utt, r.nextId) /\ r.utt \in Utterance /\ u \in Utterance
    BY <1>1, EvaluatedOk DEF Outcome, ResultOk, UttOk
  <1>3. CASE Stays(u, r) /\ Rests(u, r)
    BY <1>1, <1>3, RestsHeard, SameSegmentsCut DEF Stays
  <1>4. CASE /\ ~u.stopped /\ u.snapshots # <<>> /\ ~(Stays(u, r) /\ Rests(u, r))
             /\ Says(u, r, Settled(u), FALSE)
    <2>1. PICK parts \in Seq(Part) :
            Retold(u, r, parts, Settled(u), FALSE) /\ Whole(parts) = Content(Settled(u))
      BY <1>4 DEF Says, Rests
    <2>2. Rests(u, r)
      BY <2>1 DEF Retold, Rests
    <2>3. r.utt.snapshots = u.snapshots
      BY <2>1 DEF Retold
    <2>4. PICK segs : segs = r.utt.segments
      OBVIOUS
    <2>5. /\ segs \in Seq(Segment) /\ DOMAIN segs = 1..Len(segs) /\ Len(segs) = Len(parts)
          /\ \A i \in 1..Len(parts) : segs[i].text = parts[i]
          /\ \A i \in 1..Len(segs) : segs[i].order = i
      BY <1>2, <2>1, <2>4 DEF Retold, UttOk, Utterance
    <2>6. parts \in Seq(Text)
      <3>1. Part \subseteq Text
        BY DEF Part
      <3> QED
        BY <3>1, SeqMonotonic
    <2>7. ASSUME NEW t \in Range(segs), NEW x \in heard \cup Range(u.snapshots)
          PROVE  IsPrefix(Joined(SubSeq(segs, 1, t.order)), Content(x))
      <3>1. PICK i \in 1..Len(segs) : t = segs[i]
        BY <2>5 DEF Range
      <3>2. /\ x \in Text /\ Settled(u) \in Text
            /\ \E rest \in Text : Content(x) = Content(Settled(u)) \o rest
        BY <1>2, <1>4, <2>7, SettledBegins
      <3>3. PICK rest \in Text : Content(x) = Content(Settled(u)) \o rest
        BY <3>2
      <3>4. IsPrefix(Joined(SubSeq(segs, 1, i)), Content(x))
        BY <2>1, <2>5, <2>6, <3>2, <3>3, SegmentsBegin
      <3> QED
        BY <2>5, <3>1, <3>4
    <2>8. OnlyCut(u, r.utt, heard)
      BY <2>3, <2>4, <2>7 DEF OnlyCut
    <2> QED
      BY <1>1, <2>2, <2>8, RestsHeard
  <1> QED
    BY <1>1, <1>3, <1>4, EvaluatedSays

Near == IF utt.open /\ ~utt.closed THEN recent ELSE {}

LEMMA OpenedHeard ==
  ASSUME HeardOk(utt, recent)
  PROVE  HeardOk(Opened, Near)
  BY DEF HeardOk, Opened, Near

\* What is new to the utterance a call opened is new.
LEMMA OpenedCut ==
  ASSUME NEW u, u.segments = Opened.segments, NEW after, NEW heard, OnlyCut(u, after, heard)
  PROVE  OnlyCut(utt, after, heard)
  <1>1. CASE utt.open /\ ~utt.closed
    BY <1>1 DEF Opened, OnlyCut
  <1>2. CASE ~(utt.open /\ ~utt.closed)
    <2>1. Begun.segments = <<>>
      BY NoUtteranceTyped DEF Begun, Utterance
    <2>2. Range(u.segments) = {}
      BY <1>2, <2>1 DEF Opened, Range
    <2> QED
      BY <2>2 DEF OnlyCut
  <1> QED
    BY <1>1, <1>2

\* A text that is heard: what is older than the text is what it has in common with the
\* one before it.
LEMMA HearsHeard ==
  ASSUME NEW u \in Utterance, HearsOk(u), NEW now \in Text, NEW heard, HeardOk(u, heard)
  PROVE  HeardOk(Hears(u, now), {now} \cup heard)
  <1>1. PICK v : v = Hears(u, now)
    OBVIOUS
  <1>2. PICK same : same = CommonWithLast(u, now)
    OBVIOUS
  <1>3. /\ v.stopped = u.stopped /\ v.snapshots # <<>> /\ Last(v.snapshots) = now
        /\ v.ages = Aging(u, now, same) /\ HearsOk(v)
    BY <1>1, <1>2, HearsTyped
  <1>4. Len(v.ages) = Len(now) /\ Len(now) \in Nat /\ DOMAIN now = 1..Len(now)
    BY <1>3 DEF HearsOk, Text
  <1>5. SUFFICES ASSUME ~u.stopped, NEW x \in {now} \cup heard, NEW i \in 1..Len(now),
                        v.ages[i] >= 1
                 PROVE  SameUpTo(x, now, i)
    <2>1. {now} \cup heard \subseteq Text
      BY DEF HeardOk
    <2> QED
      BY <1>1, <1>3, <1>4, <1>5, <2>1 DEF HeardOk
  <1>6. CASE x = now
    BY <1>4, <1>6 DEF SameUpTo
  <1>7. CASE x \in heard
    <2>1. i <= same /\ u.ages[i] >= 1
      <3>1. v.ages[i] = IF i <= same THEN u.ages[i] ELSE 0
        BY <1>3, <1>4 DEF Aging
      <3> QED
        BY <1>5, <3>1
    <2>2. u.snapshots # <<>>
      BY <1>2, <2>1 DEF CommonWithLast
    <2>3. PICK last : last = Last(u.snapshots)
      OBVIOUS
    <2>4. last \in Text /\ Len(u.ages) = Len(last) /\ Len(last) \in Nat
      BY <2>2, <2>3 DEF Utterance, Last, HearsOk, Text
    <2>5. PICK common : common = LongestCommonPrefix({last, now})
      OBVIOUS
    <2>6. same = Len(common)
      BY <1>2, <2>2, <2>3, <2>5 DEF CommonWithLast, CommonPoints
    <2>7. /\ same \in 0..Len(last) /\ \A k \in 1..same : common[k] = last[k]
          /\ same \in 0..Len(now) /\ \A k \in 1..same : common[k] = now[k]
      BY <2>4, <2>5, <2>6, CommonPrefixOf
    <2>8. i \in 1..Len(u.ages)
      BY <2>1, <2>4, <2>7
    <2>9. SameUpTo(x, last, i)
      BY <1>5, <1>7, <2>1, <2>3, <2>8 DEF HeardOk
    <2> QED
      BY <1>4, <2>1, <2>7, <2>9 DEF SameUpTo
  <1> QED
    BY <1>6, <1>7

\* A call on the utterance it opened, or on the one there is.
LEMMA CutByEvaluated ==
  ASSUME SegInv, NEW u, UttOk(u, nextId), HearsOk(u), ~u.closed => NoneFinal(u),
         HeardOk(u, recent'), u.segments = Opened.segments \/ u.segments = utt.segments,
         NEW base, Returns(base, Evaluated(u))
  PROVE  CutAndHeard
  <1>1. PICK r : r = Evaluated(u)
    OBVIOUS
  <1>2. PICK heard : heard = recent'
    OBVIOUS
  <1>3. utt' = r.utt
    BY <1>1 DEF Returns
  <1>4. nextId \in Nat
    BY DEF SegInv
  <1>5. HeardOk(r.utt, heard) /\ OnlyCut(u, r.utt, heard)
    BY <1>1, <1>2, <1>4, EvaluatedCuts
  <1>6. OnlyCut(utt, r.utt, heard)
    <2>1. CASE u.segments = Opened.segments
      BY <1>5, <2>1, OpenedCut
    <2>2. CASE u.segments = utt.segments
      BY <1>5, <2>2 DEF OnlyCut
    <2> QED
      BY <2>1, <2>2
  <1> QED
    BY <1>2, <1>3, <1>5, <1>6 DEF CutAndHeard

LEMMA CutByInterimTooLong ==
  ASSUME SegInv, HeardOk(utt, recent), NEW text, InterimTooLong(text)
  PROVE  CutAndHeard
  <1>1. PICK now : now = Normalized(text)
    OBVIOUS
  <1>2. now \in Text
    BY <1>1, TextTyped, NormalizedTyped DEF InterimTooLong
  <1>3. recent' = {now} \cup Near
    BY <1>1 DEF InterimTooLong, Heard, Near
  <1>4. Near \subseteq Text
    BY OpenedHeard DEF HeardOk
  <1>5. PICK o : o = Opened
    OBVIOUS
  <1>6. PICK v : v = [o EXCEPT !.stopped = TRUE, !.snapshots = <<>>, !.ages = <<>>]
    OBVIOUS
  <1>7. v.segments = o.segments /\ v.stopped
    BY <1>5, <1>6, OpenedOk DEF Utterance
  <1>8. utt' = v
    BY <1>5, <1>6 DEF InterimTooLong, Returns, Unchanged, Told
  <1>9. HeardOk(v, recent')
    BY <1>2, <1>3, <1>4, <1>7 DEF HeardOk
  <1>10. OnlyCut(utt, v, recent')
    <2>1. PICK heard : heard = recent'
      OBVIOUS
    <2>2. OnlyCut(o, v, heard)
      BY <1>7, SameSegmentsCut
    <2> QED
      BY <1>5, <2>1, <2>2, OpenedCut
  <1> QED
    BY <1>8, <1>9, <1>10 DEF CutAndHeard

LEMMA CutByInterimIgnored ==
  ASSUME SegInv, HeardOk(utt, recent), NEW text, InterimIgnored(text)
  PROVE  CutAndHeard
  <1>1. PICK now : now = Normalized(text)
    OBVIOUS
  <1>2. now \in Text /\ Len(now) \in Nat
    BY <1>1, TextTyped, NormalizedTyped DEF InterimIgnored, Text
  <1>3. recent' = ({now} \ {<<>>}) \cup Near /\ ~TellsMore(Opened, now)
    BY <1>1 DEF InterimIgnored, Heard, Near
  <1>4. PICK o : o = Opened
    OBVIOUS
  <1>5. HeardOk(o, Near) /\ HearsOk(o)
    BY <1>4, OpenedHeard, OpenedOk
  <1>6. utt' = o
    BY <1>4 DEF InterimIgnored, Returns, Unchanged, Told
  <1>7. HeardOk(o, recent')
    <2>1. recent' \subseteq Text
      BY <1>2, <1>3, <1>5 DEF HeardOk
    <2>2. ASSUME ~o.stopped, NEW x \in recent', NEW i \in 1..Len(o.ages), o.ages[i] >= 1
          PROVE  SameUpTo(x, Last(o.snapshots), i)
      <3>1. CASE x \in Near
        BY <1>5, <2>2, <3>1 DEF HeardOk
      <3>2. CASE x = now /\ now # <<>>
        <4>1. o.snapshots # <<>> /\ Last(o.snapshots) = now
          BY <1>3, <1>4, <2>2, <3>2 DEF TellsMore
        <4>2. Len(o.ages) = Len(now)
          BY <1>5, <4>1 DEF HearsOk
        <4> QED
          BY <1>2, <2>2, <3>2, <4>1, <4>2 DEF SameUpTo
      <3> QED
        BY <1>3, <3>1, <3>2
    <2> QED
      BY <2>1, <2>2 DEF HeardOk
  <1>8. OnlyCut(utt, o, recent')
    <2>1. PICK heard : heard = recent'
      OBVIOUS
    <2>2. OnlyCut(o, o, heard)
      BY SameSegmentsCut
    <2> QED
      BY <1>4, <2>1, <2>2, OpenedCut
  <1> QED
    BY <1>6, <1>7, <1>8 DEF CutAndHeard

LEMMA CutByInterim ==
  ASSUME SegInv, HeardOk(utt, recent), NEW text, Interim(text)
  PROVE  CutAndHeard
  <1>1. PICK now \in {Normalized(text)} :
          /\ text \in texts /\ Returns(OfUtterance, Evaluated(Hears(Opened, now)))
          /\ Heard({now})
    BY DEF Interim
  <1>2. now \in Text
    BY <1>1, TextTyped, NormalizedTyped
  <1>3. PICK o : o = Opened
    OBVIOUS
  <1>4. /\ o \in Utterance /\ o.closed = FALSE
        /\ UttOk(o, nextId) /\ HearsOk(o) /\ NoneFinal(o) /\ HeardOk(o, Near)
    BY <1>3, OpenedOk, OpenedHeard
  <1>5. PICK u : u = Hears(o, now)
    OBVIOUS
  <1>6. /\ u \in Utterance /\ HearsOk(u)
        /\ u.segments = o.segments /\ u.tombstones = o.tombstones /\ u.gone = o.gone
    BY <1>2, <1>4, <1>5, HearsTyped
  <1>7. UttOk(u, nextId) /\ NoneFinal(u)
    BY <1>4, <1>6 DEF UttOk, Managed, NoneFinal
  <1>8. HeardOk(u, {now} \cup Near)
    BY <1>2, <1>4, <1>5, HearsHeard
  <1>9. recent' = {now} \cup Near
    BY <1>1 DEF Heard, Near
  <1>10. Returns(OfUtterance, Evaluated(u)) /\ u.segments = Opened.segments
    BY <1>1, <1>3, <1>5, <1>6
  <1> QED
    BY <1>6, <1>7, <1>8, <1>9, <1>10, CutByEvaluated

LEMMA CutByTick ==
  ASSUME SegInv, HeardOk(utt, recent), Tick
  PROVE  CutAndHeard
  <1>1. UttOk(utt, nextId) /\ HearsOk(utt) /\ (~utt.closed => NoneFinal(utt))
    BY DEF SegInv
  <1>2. Returns(taken, Evaluated(utt)) /\ recent' = recent
    BY DEF Tick
  <1> QED
    BY <1>1, <1>2, CutByEvaluated

LEMMA CutByFinal ==
  ASSUME SegInv, NEW text, Final(text)
  PROVE  CutAndHeard
  <1>1. PICK now : now = FinalText(text)
    OBVIOUS
  <1>2. now \in Text
    BY <1>1, TextTyped, FinalTextTyped DEF Final
  <1>3. PICK o : o = Opened
    OBVIOUS
  <1>4. UttOk(o, nextId) /\ HearsOk(o) /\ NoneFinal(o)
    BY <1>3, OpenedOk
  <1>5. nextId \in Nat
    BY DEF SegInv
  <1>6. PICK r : r = Reconciled(o, now, TRUE)
    OBVIOUS
  <1>7. Says(o, r, now, TRUE) /\ r.utt \in Utterance
    BY <1>2, <1>4, <1>5, <1>6, ReconciledOk DEF Outcome, ResultOk, UttOk
  <1>8. PICK v : v = [r.utt EXCEPT !.closed = TRUE, !.snapshots = <<>>, !.ages = <<>>]
    OBVIOUS
  <1>9. v.segments = r.utt.segments /\ v.ages = <<>>
    BY <1>7, <1>8 DEF Utterance
  <1>10. utt' = v /\ recent' = {}
    <2>1. r = Told(r.utt, r.nextId, r.upserts, r.retired, r.text)
      BY <1>6, ReconciledTold
    <2>2. Closed(r).utt = v
      BY <1>8, <2>1 DEF Closed, Told
    <2> QED
      BY <1>1, <1>3, <1>6, <2>2 DEF Final, Returns
  <1>11. HeardOk(v, {})
    BY DEF HeardOk
  <1>12. OnlyCut(utt, v, {})
    <2>1. CASE Stays(o, r)
      <3>1. OnlyCut(o, v, {})
        BY <1>9, <2>1, SameSegmentsCut DEF Stays
      <3> QED
        BY <1>3, <3>1, OpenedCut
    <2>2. CASE ~Stays(o, r)
      <3>1. PICK parts \in Seq(Part) : Retold(o, r, parts, now, TRUE)
        BY <1>7, <2>2 DEF Says
      <3>2. \A t \in Range(v.segments) : t.final
        BY <1>7, <1>9, <3>1 DEF Retold, Range, Utterance
      <3> QED
        BY <3>2 DEF OnlyCut
    <2> QED
      BY <2>1, <2>2
  <1> QED
    BY <1>10, <1>11, <1>12 DEF CutAndHeard

LEMMA CutByOthers ==
  ASSUME SegInv, HeardOk(utt, recent),
         \/ \E id \in 1..MaxId : Retire(id)
         \/ \E enabled \in BOOLEAN : SetIncremental(enabled)
         \/ Reset \/ Pass \/ UNCHANGED vars
  PROVE  CutAndHeard
  <1>1. utt \in Utterance /\ HearsOk(utt)
    BY DEF SegInv, UttOk
  <1>2. ASSUME NEW id, Retire(id) PROVE CutAndHeard
    <2>1. /\ recent' = recent /\ utt'.segments = utt.segments
          /\ utt'.snapshots = utt.snapshots /\ utt'.ages = utt.ages
          /\ utt'.stopped = utt.stopped
      BY <1>1, <1>2 DEF Retire, Utterance
    <2> QED
      BY <2>1 DEF CutAndHeard, HeardOk, OnlyCut
  <1>3. CASE Reset
    <2>1. utt'.segments = <<>> /\ recent' = {}
      BY <1>3, NoUtteranceTyped DEF Reset
    <2>2. Range(utt'.segments) = {}
      BY <2>1 DEF Range
    <2> QED
      BY <2>1, <2>2 DEF CutAndHeard, HeardOk, OnlyCut
  <1>4. CASE Pass
    <2>1. PICK ages : ages = [i \in DOMAIN utt.ages |-> Min({utt.ages[i] + 1, OpenAge})]
      OBVIOUS
    <2>2. /\ utt' = [utt EXCEPT !.ages = ages] /\ recent' = {Last(utt.snapshots)}
          /\ DOMAIN utt.ages # {}
      BY <1>1, <1>4, <2>1 DEF Pass, Utterance
    <2>3. /\ utt'.segments = utt.segments /\ utt'.snapshots = utt.snapshots
          /\ utt'.ages = ages
      BY <1>1, <2>2 DEF Utterance
    <2>4. PICK last : last = Last(utt.snapshots)
      OBVIOUS
    <2>5. last \in Text /\ Len(utt.ages) = Len(last) /\ Len(last) \in Nat
      <3>1. utt.snapshots # <<>>
        <4>1. utt.ages \in Seq(Nat)
          BY <1>1 DEF Utterance
        <4>2. Len(utt.ages) # 0
          BY <2>2, <4>1
        <4> QED
          BY <1>1, <4>2 DEF HearsOk
      <3> QED
        BY <1>1, <2>4, <3>1 DEF Utterance, Last, HearsOk, Text
    <2>6. Len(ages) = Len(last)
      <3>1. DOMAIN utt.ages = 1..Len(last)
        BY <1>1, <2>5 DEF Utterance
      <3> QED
        BY <2>1, <2>5, <3>1
    <2>7. \A i \in 1..Len(last) : SameUpTo(last, last, i)
      BY <2>5 DEF SameUpTo
    <2>8. HeardOk(utt', recent')
      BY <2>2, <2>3, <2>4, <2>5, <2>6, <2>7 DEF HeardOk
    <2> QED
      BY <2>3, <2>8 DEF CutAndHeard, OnlyCut
  <1>5. CASE utt' = utt /\ recent' = recent
    BY <1>5 DEF CutAndHeard, HeardOk, OnlyCut
  <1> QED
    BY <1>2, <1>3, <1>4, <1>5 DEF SetIncremental, vars

LEMMA CutSteps ==
  ASSUME SegInv, HeardOk(utt, recent), [Next]_vars
  PROVE  CutAndHeard
  <1>1. ASSUME NEW text,
               InterimTooLong(text) \/ InterimIgnored(text) \/ Interim(text) \/ Final(text)
        PROVE  CutAndHeard
    BY <1>1, CutByInterimTooLong, CutByInterimIgnored, CutByInterim, CutByFinal
  <1> QED
    BY <1>1, CutByTick, CutByOthers DEF Next

-----------------------------------------------------------------------------
(* The theorems. *)

LEMMA Initially ==
  ASSUME Init
  PROVE  SegInv
  <1>1. UttOk(utt, nextId) /\ HearsOk(utt) /\ NoneFinal(utt) /\ Agrees(utt, taken)
    BY NoUtteranceTyped, EmptyOk DEF Init
  <1> QED
    BY <1>1, SegmenterAssumption DEF Init, SegInv

LEMMA Steps ==
  ASSUME SegInv, [Next]_vars
  PROVE  /\ SegInv' /\ SaidStays
         /\ \/ Offers(taken, taken', nextId') \/ Offers(<<>>, taken', nextId')
            \/ UNCHANGED << taken, nextId >>
  <1>1. ASSUME NEW text \in UNION Vocabularies,
               InterimTooLong(text) \/ InterimIgnored(text) \/ Interim(text) \/ Final(text)
        PROVE  StepOk
    BY <1>1, InterimTooLongStep, InterimIgnoredStep, InterimStep, FinalStep
  <1>2. CASE UNCHANGED vars
    <2>1. SegInv'
      BY <1>2 DEF vars, SegInv
    <2> QED
      BY <1>2, <2>1, SaidBySame DEF vars
  <1>3. CASE Next
    <2>1. StepOk
      BY <1>1, <1>3, TickStep, RetireStep, SetIncrementalStep, ResetStep, PassStep DEF Next
    <2> QED
      BY <2>1 DEF StepOk
  <1> QED
    BY <1>2, <1>3

LEMMA Invariant == Spec => []SegInv
  <1>1. SegInv /\ [Next]_vars => SegInv'
    BY Steps
  <1> QED
    BY <1>1, Initially, PTL DEF Spec

\* The segments are numbered through and have different ids, none is empty or too wide,
\* with the replaced ones they are not too many, and every code point of the current text
\* has an age (TypeOK): reconcile never puts more into segments_ than it may, and never
\* mixes two of them up.
THEOREM SegmentsStayInOrder == Spec => []TypeOK
  <1>1. SegInv => TypeOK
    <2> SUFFICES ASSUME SegInv PROVE TypeOK
      OBVIOUS
    <2>1. utt \in Utterance /\ UttOk(utt, nextId) /\ HearsOk(utt)
      BY DEF SegInv, UttOk
    <2>2. /\ DOMAIN utt.segments = 1..Len(utt.segments) /\ Len(utt.segments) \in Nat
          /\ \A i \in 1..Len(utt.segments) : utt.segments[i] \in Segment
      BY <2>1, IdsOfSegments
    <2>3. \A i \in DOMAIN utt.segments : Len(utt.segments[i].text) \in 1..MaxWidth
      BY <2>2 DEF Segment, Part
    <2>4. \A i, j \in DOMAIN utt.segments :
             i < j => utt.segments[i].id # utt.segments[j].id
      BY <2>1, <2>2 DEF UttOk
    <2>5. utt.open \in BOOLEAN /\ utt.closed \in BOOLEAN /\ utt.stopped \in BOOLEAN
      BY <2>1 DEF Utterance
    <2> QED
      BY <2>1, <2>2, <2>3, <2>4, <2>5 DEF TypeOK, SegInv, UttOk, HearsOk
  <1> QED
    BY <1>1, Invariant, PTL

\* The caller, who takes over only what interim, tick and final return and what it retired
\* itself, has every segment as segments_ has it (ConsumerAgrees).
THEOREM CallerStaysInStep == Spec => []ConsumerAgrees
  <1>1. SegInv => ConsumerAgrees
    <2> SUFFICES ASSUME SegInv PROVE ConsumerAgrees
      OBVIOUS
    <2>1. utt \in Utterance /\ Agrees(utt, taken)
      BY DEF SegInv, UttOk
    <2>2. \A s \in Range(utt.segments) : \E i \in 1..Len(utt.segments) : s = utt.segments[i]
      BY <2>1, IdsOfSegments DEF Range
    <2> QED
      BY <2>1, <2>2 DEF ConsumerAgrees, Agrees
  <1> QED
    BY <1>1, Invariant, PTL

\* What was displayed and is over is neither taken back nor said again under another id
\* while the utterance lasts (NothingSaidTwice): the ambiguity check of reconcile.
THEOREM WhatIsOverStays == Spec => NothingSaidTwice
  <1>1. SegInv /\ [Next]_vars =>
          [\A s \in Range(utt.segments) :
             s.id \in utt.gone =>
               \/ utt'.segments = <<>> \/ utt.closed
               \/ \E t \in Range(utt'.segments) : t.id = s.id /\ t.text = s.text]_vars
    BY Steps DEF SaidStays
  <1> QED
    BY <1>1, Invariant, PTL DEF Spec, NothingSaidTwice

\* The segments hold the text they were cut from, in order and once, spaces aside, and
\* lose its beginning only at the segment limit (TranscriptKept): split, match_prefix and
\* the alignment of reconcile together neither drop a code point nor say one twice,
\* whatever the texts were that came before.
THEOREM SegmentsHoldTheTranscript == Spec => []TranscriptKept
  <1>1. Init => Kept
    <2> SUFFICES ASSUME Init PROVE Kept
      OBVIOUS
    <2>1. utt.segments = <<>> /\ transcript = <<>>
      BY NoUtteranceTyped DEF Init
    <2> QED
      BY <2>1, NothingStands DEF Kept
  <1>2. SegInv /\ Kept /\ [Next]_vars => Kept'
    BY KeptSteps
  <1>3. Kept => TranscriptKept
    BY DEF Kept, Stands, TranscriptKept
  <1> QED
    BY <1>1, <1>2, <1>3, Invariant, PTL DEF Spec

\* Before the final text a segment is only cut from what every text said that was current
\* within the last StableAge, and every snapshot (OnlyStableTextCut): the ages evaluate
\* goes by are the ages of this text, of no other that was heard in between.
THEOREM OnlyWhatIsStableIsCut == Spec => OnlyStableTextCut
  <1>1. Init => HeardOk(utt, recent)
    BY DEF Init, HeardOk
  <1>2. SegInv /\ HeardOk(utt, recent) /\ [Next]_vars => HeardOk(utt, recent)'
    BY CutSteps DEF CutAndHeard, HeardOk
  <1>3. SegInv /\ HeardOk(utt, recent) /\ [Next]_vars =>
          [\A t \in Range(utt'.segments) :
             ~t.final /\ t \notin Range(utt.segments) =>
               \A text \in recent' \cup Range(utt'.snapshots) :
                 IsPrefix(Joined(SubSeq(utt'.segments, 1, t.order)), Content(text))]_vars
    BY CutSteps DEF CutAndHeard, OnlyCut
  <1> QED
    BY <1>1, <1>2, <1>3, Invariant, PTL DEF Spec, OnlyStableTextCut

\* Every step is one call of a caption feed: new segments have new ids, a revision is one
\* text, a final segment does not change, what comes for others names exactly those.
THEOREM RefinesCaptionFeed == Spec => ImplementsFeed
  <1>1. Init => Feed!Init
    <2> SUFFICES ASSUME Init PROVE Feed!Init
      OBVIOUS
    <2>1. taken = <<>> /\ nextId = 0
      BY DEF Init
    <2>2. <<>> = [id \in {} |-> 0]
      OBVIOUS
    <2> QED
      BY <2>1, <2>2 DEF Feed!Init, Feed!None
  <1>2. Offers(taken, taken', nextId') => Feed!Offer(taken)
    BY DEF Offers, Feed!Offer
  <1>3. Offers(<<>>, taken', nextId') => Feed!Offer(Feed!None)
    <2>1. DOMAIN Feed!None = {} /\ DOMAIN <<>> = {}
      BY DEF Feed!None
    <2> QED
      BY <2>1 DEF Offers, Feed!Offer
  <1>4. SegInv /\ [Next]_vars => [Feed!Next]_(Feed!feed)
    BY <1>2, <1>3, Steps DEF Feed!Next, Feed!feed
  <1> QED
    BY <1>1, <1>4, Invariant, PTL DEF Spec, ImplementsFeed, Feed!Spec
=============================================================================
