---------------------------- MODULE UnitFileProofs ----------------------------
(***************************************************************************)
(* The text of the units, for values of any length and files of any lines: *)
(* the conversions undo each other, and what is trusted is the template.   *)
(***************************************************************************)
EXTENDS UnitFile, SequenceTheorems, FiniteSetTheorems, WellFoundedInduction, TLAPS

-------------------------------------------------------------------------------
(* Induction over positions, by the least one at which a formula fails.    *)

\* A set of natural numbers that is not empty has a least element.
LEMMA Least == ASSUME NEW T \in SUBSET Nat, T # {} PROVE \E m \in T : \A k \in T : ~(k < m)
  <1>1. PICK m \in T : \A k \in T : ~(<<k, m>> \in OpToRel(<, Nat))
    BY NatLessThanWellFounded, WFMin
  <1> QED
    BY <1>1 DEF OpToRel

\* Upwards.
LEMMA Climb ==
    ASSUME NEW n \in Nat, NEW Good, 0 \in Good, \A k \in 0..(n - 1) : k \in Good => k + 1 \in Good
    PROVE  \A k \in 0..n : k \in Good
  <1> DEFINE bad == {k \in 0..n : k \notin Good}
  <1> SUFFICES ASSUME bad # {} PROVE FALSE
    OBVIOUS
  <1>1. bad \in SUBSET Nat
    OBVIOUS
  <1>2. PICK m \in bad : \A k \in bad : ~(k < m)
    <2> HIDE DEF bad
    <2> QED
      BY <1>1, Least
  <1>3. m - 1 \in 0..(n - 1) /\ m - 1 < m /\ (m - 1) + 1 = m
    BY <1>2
  <1> QED
    BY <1>2, <1>3

\* Downwards.
LEMMA Descend ==
    ASSUME NEW n \in Nat, NEW Good, n \in Good, \A k \in 0..(n - 1) : k + 1 \in Good => k \in Good
    PROVE  \A k \in 0..n : k \in Good
  <1> DEFINE up == {k \in 0..n : n - k \in Good}
  <1>1. 0 \in up
    OBVIOUS
  <1>2. ASSUME NEW k \in 0..(n - 1), k \in up PROVE k + 1 \in up
    <2>1. n - (k + 1) \in 0..(n - 1) /\ (n - (k + 1)) + 1 = n - k /\ k + 1 \in 0..n
      OBVIOUS
    <2> QED
      BY <1>2, <2>1
  <1>3. \A k \in 0..n : k \in up
    <2> HIDE DEF up
    <2> QED
      BY <1>1, <1>2, Climb
  <1>4. ASSUME NEW k \in 0..n PROVE k \in Good
    <2>1. n - k \in 0..n /\ n - (n - k) = k
      OBVIOUS
    <2> QED
      BY <1>3, <2>1
  <1> QED
    BY <1>4

-------------------------------------------------------------------------------
(* Pieces put together, and taken apart.                                   *)

\* What is put together of the pieces up to each.
Joined(up, n, p) ==
    /\ up \in [0..n -> Text] /\ up[0] = <<>>
    /\ \A i \in 1..n : up[i] = up[i - 1] \o p[i]

\* What is left from each position on, if a pair of pieces counts as one where
\* "paired" says so.
Rest(from, n, paired, pair, single) ==
    /\ from \in [1..(n + 2) -> Text]
    /\ \A i \in 1..(n + 2) :
           from[i] = IF i > n THEN <<>>
                     ELSE IF paired[i] THEN pair[i] \o from[i + 2] ELSE single[i] \o from[i + 1]

\* Pieces can be put together.
LEMMA JoinedExists ==
    ASSUME NEW n \in Nat, NEW p \in [1..n -> Text]
    PROVE  \E up : Joined(up, n, p)
  <1> DEFINE Good == {k \in 0..n : \E up \in [0..k -> Text] :
                         up[0] = <<>> /\ \A i \in 1..k : up[i] = up[i - 1] \o p[i]}
  <1>1. 0 \in Good
    <2> DEFINE none == [i \in 0..0 |-> <<>>]
    <2>1. none \in [0..0 -> Text] /\ none[0] = <<>> /\ \A i \in 1..0 : none[i] = none[i - 1] \o p[i]
      BY DEF Text
    <2> HIDE DEF none
    <2>2. 0 \in 0..n
      OBVIOUS
    <2> QED
      BY <2>1, <2>2
  <1>2. ASSUME NEW k \in 0..(n - 1), k \in Good PROVE k + 1 \in Good
    <2>1. PICK up \in [0..k -> Text] : up[0] = <<>> /\ \A i \in 1..k : up[i] = up[i - 1] \o p[i]
      BY <1>2
    <2> DEFINE more == [i \in 0..(k + 1) |-> IF i = k + 1 THEN up[k] \o p[k + 1] ELSE up[i]]
    <2>2. k + 1 \in 1..n /\ k \in 0..k /\ p[k + 1] \in Text /\ up[k] \in Text
      OBVIOUS
    <2>3. up[k] \o p[k + 1] \in Text
      BY <2>2 DEF Text
    <2>4. more \in [0..(k + 1) -> Text]
      BY <2>3
    <2>5. more[0] = <<>>
      BY <2>1
    <2>6. ASSUME NEW i \in 1..(k + 1) PROVE more[i] = more[i - 1] \o p[i]
      <3>1. i - 1 \in 0..(k + 1) /\ i - 1 # k + 1 /\ i \in 0..(k + 1)
        OBVIOUS
      <3>2. CASE i = k + 1
        BY <3>1, <3>2
      <3>3. CASE i # k + 1
        <4>1. i \in 1..k /\ more[i] = up[i] /\ more[i - 1] = up[i - 1]
          BY <3>1, <3>3
        <4> HIDE DEF more
        <4> QED
          BY <2>1, <4>1
      <3> QED
        BY <3>2, <3>3
    <2> HIDE DEF more
    <2>7. k + 1 \in 0..n
      OBVIOUS
    <2> QED
      BY <2>4, <2>5, <2>6, <2>7
  <1>3. n \in Good
    <2> HIDE DEF Good
    <2>1. \A k \in 0..n : k \in Good
      BY <1>1, <1>2, Climb
    <2> QED
      BY <2>1
  <1> QED
    BY <1>3 DEF Joined

\* They can be taken apart.
LEMMA RestExists ==
    ASSUME NEW n \in Nat, NEW paired, NEW pair \in [1..n -> Text], NEW single \in [1..n -> Text]
    PROVE  \E from : Rest(from, n, paired, pair, single)
  <1> DEFINE Value(f, i) == IF i > n THEN <<>>
                            ELSE IF paired[i] THEN pair[i] \o f[i + 2] ELSE single[i] \o f[i + 1]
             Good == {k \in 0..(n + 1) : \E f \in [(k + 1)..(n + 2) -> Text] :
                         \A i \in (k + 1)..(n + 2) : f[i] = Value(f, i)}
  <1>1. n + 1 \in Good
    <2> DEFINE none == [i \in (n + 2)..(n + 2) |-> <<>>]
    <2>1. ((n + 1) + 1)..(n + 2) = (n + 2)..(n + 2) /\ n + 1 \in 0..(n + 1)
      OBVIOUS
    <2>2. none \in [(n + 2)..(n + 2) -> Text]
      BY DEF Text
    <2>3. ASSUME NEW i \in (n + 2)..(n + 2) PROVE none[i] = Value(none, i)
      <3>1. i > n
        OBVIOUS
      <3> QED
        BY <3>1
    <2> HIDE DEF none, Value
    <2> QED
      BY <2>1, <2>2, <2>3
  <1>2. ASSUME NEW k \in 0..((n + 1) - 1), k + 1 \in Good PROVE k \in Good
    <2>1. PICK f \in [(k + 2)..(n + 2) -> Text] : \A i \in (k + 2)..(n + 2) : f[i] = Value(f, i)
      BY <1>2
    <2> DEFINE more == [i \in (k + 1)..(n + 2) |-> IF i = k + 1 THEN Value(f, k + 1) ELSE f[i]]
    <2>2. Value(f, k + 1) \in Text
      <3>1. CASE k + 1 > n
        BY <3>1 DEF Text
      <3>2. CASE ~(k + 1 > n)
        <4>1. k + 1 \in 1..n /\ (k + 1) + 1 \in (k + 2)..(n + 2) /\ (k + 1) + 2 \in (k + 2)..(n + 2)
          BY <3>2
        <4>2. pair[k + 1] \in Text /\ single[k + 1] \in Text /\ f[(k + 1) + 1] \in Text /\ f[(k + 1) + 2] \in Text
          BY <4>1
        <4>3. pair[k + 1] \o f[(k + 1) + 2] \in Text /\ single[k + 1] \o f[(k + 1) + 1] \in Text
          BY <4>2 DEF Text
        <4> QED
          BY <3>2, <4>3
      <3> QED
        BY <3>1, <3>2
    <2>3. more \in [(k + 1)..(n + 2) -> Text]
      <3> HIDE DEF Value
      <3>1. ASSUME NEW i \in (k + 1)..(n + 2), i # k + 1 PROVE f[i] \in Text
        BY <3>1
      <3> QED
        BY <2>2, <3>1
    <2>4. ASSUME NEW i \in (k + 1)..(n + 2) PROVE more[i] = Value(more, i)
      <3>1. i \in 1..n => /\ i + 1 \in (k + 2)..(n + 2) /\ i + 2 \in (k + 2)..(n + 2)
                          /\ i + 1 # k + 1 /\ i + 2 # k + 1
        OBVIOUS
      <3>2. i \in 1..n => more[i + 1] = f[i + 1] /\ more[i + 2] = f[i + 2]
        BY <3>1
      <3>3. Value(more, i) = Value(f, i)
        BY <3>2
      <3>4. more[i] = Value(f, i)
        <4> HIDE DEF Value
        <4>1. CASE i = k + 1
          BY <4>1
        <4>2. CASE i # k + 1
          BY <2>1, <4>2
        <4> QED
          BY <4>1, <4>2
      <3> QED
        BY <3>3, <3>4
    <2> HIDE DEF more, Value
    <2>5. k \in 0..(n + 1)
      OBVIOUS
    <2> QED
      BY <2>3, <2>4, <2>5
  <1>3. 0 \in Good
    <2> HIDE DEF Good
    <2>1. n + 1 \in Nat /\ 0 \in 0..(n + 1)
      OBVIOUS
    <2>2. \A k \in 0..(n + 1) : k \in Good
      BY <1>1, <1>2, <2>1, Descend
    <2> QED
      BY <2>1, <2>2
  <1> QED
    BY <1>3 DEF Rest

\* Sequences of text.
LEMMA JoinedText ==
    ASSUME NEW n \in Nat, NEW p, NEW up, Joined(up, n, p)
    PROVE  \A i \in 0..n : up[i] \in Text /\ Len(up[i]) \in Nat
  <1> TAKE i \in 0..n
  <1>1. up[i] \in Text
    BY DEF Joined
  <1> QED
    BY <1>1 DEF Text

\* Nothing makes no difference.
LEMMA Concat == ASSUME NEW a \in Text PROVE <<>> \o a = a /\ a \o <<>> = a
  <1>1. a \in Seq(Pieces)
    BY DEF Text
  <1> QED
    BY <1>1, ConcatEmptySeq

\* It does not matter what is put together first.
LEMMA Associative ==
    ASSUME NEW a \in Text, NEW b \in Text, NEW c \in Text
    PROVE  (a \o b) \o c = a \o (b \o c)
  <1>1. a \in Seq(Pieces) /\ b \in Seq(Pieces) /\ c \in Seq(Pieces)
    BY DEF Text
  <1> QED
    BY <1>1, ConcatAssociative

\* That a piece stands in the whole from "a" up to "b".
StandsAt(D, a, b, d) ==
    /\ a \in Nat /\ b = a + Len(d) /\ Len(D) \in Nat /\ b <= Len(D)
    /\ \A j \in 1..Len(d) : D[a + j] = d[j]

\* Where each piece stands.
LEMMA PieceAt ==
    ASSUME NEW n \in Nat, NEW p \in [1..n -> Text], NEW up, Joined(up, n, p), NEW k \in 1..n
    PROVE  StandsAt(up[n], Len(up[k - 1]), Len(up[k]), p[k])
  <1> DEFINE Good == {i \in 0..n : Len(up[i]) <= Len(up[n]) /\ \A j \in 1..Len(up[i]) : up[n][j] = up[i][j]}
  <1>1. \A i \in 0..n : up[i] \in Text /\ Len(up[i]) \in Nat
    BY JoinedText
  <1>2. ASSUME NEW i \in 1..n
        PROVE  /\ Len(up[i]) = Len(up[i - 1]) + Len(p[i]) /\ Len(p[i]) \in Nat
               /\ \A j \in 1..Len(up[i - 1]) : up[i][j] = up[i - 1][j]
               /\ \A j \in 1..Len(p[i]) : up[i][Len(up[i - 1]) + j] = p[i][j]
    <2>1. i - 1 \in 0..n
      OBVIOUS
    <2>2. up[i - 1] \in Text /\ p[i] \in Text /\ up[i] = up[i - 1] \o p[i]
      BY <1>1, <2>1 DEF Joined
    <2> QED
      BY <2>2 DEF Text
  <1>3. n \in Good
    BY <1>1
  <1>4. ASSUME NEW i \in 0..(n - 1), i + 1 \in Good PROVE i \in Good
    <2>1. PICK m \in 1..n : m = i + 1 /\ m - 1 = i /\ m \in 0..n /\ i \in 0..n
      OBVIOUS
    <2>2. /\ Len(up[m]) = Len(up[m - 1]) + Len(p[m]) /\ Len(p[m]) \in Nat
          /\ \A j \in 1..Len(up[m - 1]) : up[m][j] = up[m - 1][j]
      BY <1>2
    <2>3. Len(up[m]) <= Len(up[n]) /\ \A j \in 1..Len(up[m]) : up[n][j] = up[m][j]
      BY <1>4, <2>1
    <2>4. Len(up[i]) \in Nat /\ Len(up[m]) \in Nat /\ Len(up[n]) \in Nat
      BY <1>1, <2>1
    <2>5. Len(up[i]) <= Len(up[m])
      <3>1. up[m - 1] = up[i]
        BY <2>1
      <3>2. Len(up[m]) = Len(up[i]) + Len(p[m])
        BY <2>2, <3>1
      <3> QED
        BY <2>2, <2>4, <3>2
    <2>6. ASSUME NEW j \in 1..Len(up[i]) PROVE up[n][j] = up[i][j]
      <3>1. j \in 1..Len(up[m])
        BY <2>4, <2>5
      <3> QED
        BY <2>1, <2>2, <2>3, <3>1
    <2> QED
      BY <2>1, <2>3, <2>4, <2>5, <2>6
  <1>5. k \in Good
    <2> HIDE DEF Good
    <2>1. \A i \in 0..n : i \in Good
      BY <1>3, <1>4, Descend
    <2> QED
      BY <2>1
  <1>6. k - 1 \in 0..n /\ n \in 0..n /\ k \in 0..n
    OBVIOUS
  <1>7. Len(up[k]) \in Nat /\ Len(up[k - 1]) \in Nat /\ Len(up[n]) \in Nat
    BY <1>1, <1>6
  <1>8. ASSUME NEW j \in 1..Len(p[k]) PROVE up[n][Len(up[k - 1]) + j] = p[k][j]
    <2>1. Len(up[k - 1]) + j \in 1..Len(up[k])
      BY <1>2, <1>7
    <2> QED
      BY <1>2, <1>5, <2>1
  <1> QED
    BY <1>2, <1>5, <1>7, <1>8 DEF StandsAt

\* From where one piece ends, what another makes of it comes off.
Peels(from, n, up, q) ==
    /\ from \in [1..(Len(up[n]) + 2) -> Text] /\ from[Len(up[n]) + 1] = <<>>
    /\ \A k \in 1..n : from[Len(up[k - 1]) + 1] = q[k] \o from[Len(up[k]) + 1]

\* What is made of the pieces one after the other is what is made of the whole.
LEMMA Translate ==
    ASSUME NEW n \in Nat, NEW p \in [1..n -> Text], NEW q \in [1..n -> Text], NEW up, NEW vp,
           Joined(up, n, p), Joined(vp, n, q), NEW rest, Peels(rest, n, up, q)
    PROVE  rest[1] = vp[n]
  <1>0. PICK from \in [1..(Len(up[n]) + 2) -> Text] :
            /\ from = rest /\ from[Len(up[n]) + 1] = <<>>
            /\ \A k \in 1..n : from[Len(up[k - 1]) + 1] = q[k] \o from[Len(up[k]) + 1]
    BY DEF Peels
  <1> DEFINE Good == {k \in 0..n : vp[k] \o from[Len(up[k]) + 1] = from[1]}
  <1>1. \A k \in 0..n : up[k] \in Text /\ vp[k] \in Text /\ Len(up[k]) \in Nat
    BY JoinedText
  <1>2. ASSUME NEW k \in 0..n PROVE from[Len(up[k]) + 1] \in Text
    <2>1. CASE k = 0
      <3>1. Len(up[k]) + 1 = 1 /\ Len(up[n]) \in Nat
        BY <1>1, <2>1 DEF Joined
      <3> QED
        BY <3>1
    <2>2. CASE k # 0
      <3>1. k \in 1..n
        BY <2>2
      <3>2. Len(up[k]) <= Len(up[n]) /\ Len(up[k]) \in Nat /\ Len(up[n]) \in Nat
        <4>1. StandsAt(up[n], Len(up[k - 1]), Len(up[k]), p[k])
          BY <3>1, PieceAt
        <4> QED
          BY <1>1, <4>1 DEF StandsAt
      <3> QED
        BY <3>2
    <2> QED
      BY <2>1, <2>2
  <1>3. 0 \in Good
    <2>1. up[0] = <<>> /\ vp[0] = <<>>
      BY DEF Joined
    <2>2. Len(up[0]) + 1 = 1 /\ from[1] \in Text
      BY <1>2, <2>1
    <2> QED
      <3>1. PICK a \in Text : a = from[1]
        BY <2>2
      <3>2. <<>> \o a = a
        BY Concat
      <3>3. vp[0] \o from[Len(up[0]) + 1] = from[1]
        BY <2>1, <2>2, <3>1, <3>2
      <3>4. 0 \in 0..n
        OBVIOUS
      <3> QED
        BY <3>3, <3>4
  <1>4. ASSUME NEW k \in 0..(n - 1), k \in Good PROVE k + 1 \in Good
    <2>1. k + 1 \in 1..n /\ (k + 1) - 1 = k /\ k \in 0..n /\ k + 1 \in 0..n
      OBVIOUS
    <2>2. vp[k + 1] = vp[k] \o q[k + 1] /\ from[Len(up[k]) + 1] = q[k + 1] \o from[Len(up[k + 1]) + 1]
      BY <1>0, <2>1 DEF Joined
    <2>3. vp[k] \in Text /\ q[k + 1] \in Text /\ from[Len(up[k + 1]) + 1] \in Text
      BY <1>1, <1>2, <2>1
    <2>4. (vp[k] \o q[k + 1]) \o from[Len(up[k + 1]) + 1] = vp[k] \o (q[k + 1] \o from[Len(up[k + 1]) + 1])
      <3>1. PICK a \in Text, b \in Text, c \in Text :
                a = vp[k] /\ b = q[k + 1] /\ c = from[Len(up[k + 1]) + 1]
        BY <2>3
      <3>2. (a \o b) \o c = a \o (b \o c)
        BY Associative
      <3> QED
        BY <3>1, <3>2
    <2> QED
      BY <1>4, <2>1, <2>2, <2>4
  <1>5. n \in Good
    <2> HIDE DEF Good
    <2>1. \A k \in 0..n : k \in Good
      BY <1>3, <1>4, Climb
    <2> QED
      BY <2>1
  <1>6. vp[n] \o <<>> = vp[n]
    <2>1. vp[n] \in Text
      BY <1>1
    <2> QED
      BY <2>1, Concat
  <1> QED
    BY <1>0, <1>5, <1>6

\* What satisfies the equation of a definition by recursion is of text.
LEMMA JoinedIs ==
    ASSUME NEW n \in Nat, NEW p \in [1..n -> Text], NEW f,
           f = [i \in 0..n |-> IF i = 0 THEN <<>> ELSE f[i - 1] \o p[i]]
    PROVE  Joined(f, n, p)
  <1> DEFINE Good == {k \in 0..n : f[k] \in Text}
  <1>1. f[0] = <<>> /\ \A i \in 1..n : f[i] = f[i - 1] \o p[i]
    OBVIOUS
  <1>2. 0 \in Good
    BY <1>1 DEF Text
  <1>3. ASSUME NEW k \in 0..(n - 1), k \in Good PROVE k + 1 \in Good
    <2>1. k + 1 \in 1..n /\ (k + 1) - 1 = k /\ k + 1 \in 0..n
      OBVIOUS
    <2>2. f[k + 1] = f[k] \o p[k + 1] /\ f[k] \in Text /\ p[k + 1] \in Text
      BY <1>1, <1>3, <2>1
    <2>3. f[k] \o p[k + 1] \in Text
      BY <2>2 DEF Text
    <2> QED
      BY <2>1, <2>2, <2>3
  <1>4. \A k \in 0..n : f[k] \in Text
    <2> HIDE DEF Good
    <2>1. \A k \in 0..n : k \in Good
      BY <1>2, <1>3, Climb
    <2> QED
      BY <2>1 DEF Good
  <1>5. f \in [0..n -> Text]
    BY <1>4
  <1> QED
    BY <1>1, <1>5 DEF Joined

\* The same for what is taken apart.
LEMMA RestIs ==
    ASSUME NEW n \in Nat, NEW paired, NEW pair \in [1..n -> Text], NEW single \in [1..n -> Text], NEW f,
           f = [i \in 1..(n + 2) |-> IF i > n THEN <<>>
                                     ELSE IF paired[i] THEN pair[i] \o f[i + 2] ELSE single[i] \o f[i + 1]]
    PROVE  Rest(f, n, paired, pair, single)
  <1> DEFINE Good == {k \in 0..n : f[k + 1] \in Text /\ f[k + 2] \in Text}
  <1>1. \A i \in 1..(n + 2) :
            f[i] = IF i > n THEN <<>> ELSE IF paired[i] THEN pair[i] \o f[i + 2] ELSE single[i] \o f[i + 1]
    OBVIOUS
  <1>2. n \in Good
    <2>1. n + 1 \in 1..(n + 2) /\ n + 2 \in 1..(n + 2) /\ n + 1 > n /\ n + 2 > n
      OBVIOUS
    <2>2. f[n + 1] = <<>> /\ f[n + 2] = <<>>
      BY <1>1, <2>1
    <2>3. <<>> \in Text /\ n \in 0..n
      BY DEF Text
    <2> QED
      BY <2>2, <2>3
  <1>3. ASSUME NEW k \in 0..(n - 1), k + 1 \in Good PROVE k \in Good
    <2>1. k + 1 \in 1..n /\ k + 1 \in 1..(n + 2) /\ ~(k + 1 > n) /\ (k + 1) + 1 = k + 2 /\ (k + 1) + 2 = k + 3
      OBVIOUS
    <2>2. f[k + 2] \in Text /\ f[k + 3] \in Text /\ pair[k + 1] \in Text /\ single[k + 1] \in Text
      BY <1>3, <2>1
    <2>3. pair[k + 1] \o f[k + 3] \in Text /\ single[k + 1] \o f[k + 2] \in Text
      BY <2>2 DEF Text
    <2>4. f[k + 1] = IF paired[k + 1] THEN pair[k + 1] \o f[k + 3] ELSE single[k + 1] \o f[k + 2]
      BY <1>1, <2>1
    <2> QED
      BY <2>2, <2>3, <2>4
  <1>4. \A k \in 0..n : f[k + 1] \in Text /\ f[k + 2] \in Text
    <2> HIDE DEF Good
    <2>1. \A k \in 0..n : k \in Good
      BY <1>2, <1>3, Descend
    <2> QED
      BY <2>1 DEF Good
  <1>5. \A i \in 1..(n + 2) : f[i] \in Text
    <2> TAKE i \in 1..(n + 2)
    <2>1. CASE i = n + 2
      <3>1. n \in 0..n
        OBVIOUS
      <3> QED
        BY <1>4, <2>1, <3>1
    <2>2. CASE i # n + 2
      <3>1. PICK k \in 0..n : i = k + 1
        BY <2>2
      <3> QED
        BY <1>4, <3>1
    <2> QED
      BY <2>1, <2>2
  <1>6. f \in [1..(n + 2) -> Text]
    BY <1>5
  <1> QED
    BY <1>1, <1>6 DEF Rest

-------------------------------------------------------------------------------
(* The conversions.                                                        *)

\* A percent sign is text.
LEMMA Percent == "%" \in Pieces /\ "expansion" \in Pieces
  BY TextAssumption DEF Literals

\* Short text.
LEMMA Short == /\ <<>> \in Text /\ \A c \in Pieces : <<c>> \in Text
               /\ \A c, d \in Pieces : <<c, d>> \in Text
  <1>1. <<>> \in Text
    BY DEF Text
  <1>2. \A c \in Pieces : <<c>> \in Text
    BY DEF Text
  <1>3. \A c, d \in Pieces : <<c, d>> \in Text
    BY DEF Text
  <1> QED
    BY <1>1, <1>2, <1>3

\* Two pieces put together.
LEMMA Beside == ASSUME NEW c \in Pieces, NEW d \in Pieces PROVE <<c>> \o <<d>> = <<c, d>>
  <1>1. <<c>> \in Seq(Pieces) /\ <<d>> \in Seq(Pieces) /\ <<c, d>> \in Seq(Pieces)
    BY Short DEF Text
  <1>2. PICK s \in Seq(Pieces), t \in Seq(Pieces), u \in Seq(Pieces) : s = <<c>> /\ t = <<d>> /\ u = <<c, d>>
    BY <1>1, Zenon
  <1>3. Len(s) = 1 /\ s[1] = c /\ Len(t) = 1 /\ t[1] = d /\ Len(u) = 2 /\ u[1] = c /\ u[2] = d
    BY <1>2
  <1>4. /\ s \o t \in Seq(Pieces) /\ Len(s \o t) = Len(s) + Len(t)
        /\ \A i \in 1..(Len(s) + Len(t)) : (s \o t)[i] = IF i <= Len(s) THEN s[i] ELSE t[i - Len(s)]
    BY ConcatProperties
  <1>5. Len(s \o t) = 2 /\ (s \o t)[1] = c /\ (s \o t)[2] = d
    <2>1. 1 \in 1..2 /\ 2 \in 1..2 /\ 1 + 1 = 2 /\ 2 - 1 = 1 /\ 1 <= 1 /\ ~(2 <= 1)
      OBVIOUS
    <2> QED
      BY <1>3, <1>4, <2>1
  <1>6. PICK v \in Seq(Pieces) : v = s \o t
    BY <1>4
  <1>7. Len(v) = Len(u) /\ \A i \in 1..Len(v) : v[i] = u[i]
    <2>1. \A i \in 1..2 : i = 1 \/ i = 2
      OBVIOUS
    <2> QED
      BY <1>3, <1>5, <1>6, <2>1
  <1>8. v = u
    BY <1>7, SeqEqual
  <1> QED
    BY <1>2, <1>6, <1>8

Plainly(text) == [i \in 1..Len(text) |-> <<text[i]>>]

DoubledPieces(text) == [i \in 1..Len(text) |-> IF text[i] = "%" THEN <<"%", "%">> ELSE <<text[i]>>]

\* Text is the sequence of its own pieces.
LEMMA PlainlyJoins ==
    ASSUME NEW text \in Text
    PROVE  /\ Len(text) \in Nat /\ Plainly(text) \in [1..Len(text) -> Text]
           /\ \E vp : Joined(vp, Len(text), Plainly(text)) /\ vp[Len(text)] = text
  <1>1. Len(text) \in Nat /\ text \in Seq(Pieces) /\ \A i \in 1..Len(text) : text[i] \in Pieces
    BY DEF Text
  <1>2. Plainly(text) \in [1..Len(text) -> Text]
    BY <1>1 DEF Plainly, Text
  <1> DEFINE vp == [k \in 0..Len(text) |-> SubSeq(text, 1, k)]
  <1>3. vp \in [0..Len(text) -> Text] /\ vp[0] = <<>> /\ vp[Len(text)] = text
    BY <1>1 DEF Text
  <1>4. ASSUME NEW i \in 1..Len(text) PROVE vp[i] = vp[i - 1] \o Plainly(text)[i]
    <2>1. SubSeq(text, 1, i) = SubSeq(text, 1, i - 1) \o <<text[i]>>
      BY <1>1
    <2> QED
      BY <1>1, <2>1 DEF Plainly
  <1> HIDE DEF vp
  <1>5. Joined(vp, Len(text), Plainly(text))
    BY <1>3, <1>4 DEF Joined
  <1> QED
    BY <1>1, <1>2, <1>3, <1>5

\* Doubled puts its pieces together.
LEMMA DoubledJoins ==
    ASSUME NEW text \in Text
    PROVE  /\ DoubledPieces(text) \in [1..Len(text) -> Text]
           /\ \E up : Joined(up, Len(text), DoubledPieces(text)) /\ Doubled(text) = up[Len(text)]
  <1> DEFINE Eq(f) == f = [i \in 0..Len(text) |->
                             IF i = 0 THEN <<>>
                             ELSE f[i - 1] \o (IF text[i] = "%" THEN <<"%", "%">> ELSE <<text[i]>>)]
  <1>1. Len(text) \in Nat /\ \A i \in 1..Len(text) : text[i] \in Pieces
    BY DEF Text
  <1>2. DoubledPieces(text) \in [1..Len(text) -> Text]
    <2>1. ASSUME NEW i \in 1..Len(text) PROVE (IF text[i] = "%" THEN <<"%", "%">> ELSE <<text[i]>>) \in Text
      <3>1. <<text[i]>> \in Text /\ <<"%", "%">> \in Text
        BY <1>1, Percent, Short
      <3> QED
        BY <3>1
    <2> QED
      BY <2>1 DEF DoubledPieces
  <1>3. ASSUME NEW f PROVE Eq(f) <=> Joined(f, Len(text), DoubledPieces(text))
    <2>1. ASSUME Joined(f, Len(text), DoubledPieces(text)) PROVE Eq(f)
      BY <1>1, <2>1 DEF Joined, DoubledPieces
    <2>2. ASSUME Eq(f) PROVE Joined(f, Len(text), DoubledPieces(text))
      <3>1. f = [i \in 0..Len(text) |-> IF i = 0 THEN <<>> ELSE f[i - 1] \o DoubledPieces(text)[i]]
        <4>1. \A i \in 0..Len(text) : i # 0 =>
                  DoubledPieces(text)[i] = IF text[i] = "%" THEN <<"%", "%">> ELSE <<text[i]>>
          BY <1>1 DEF DoubledPieces
        <4> QED
          BY <2>2, <4>1
      <3> QED
        BY <1>1, <1>2, <3>1, JoinedIs
    <2> QED
      BY <2>1, <2>2
  <1> HIDE DEF Eq
  <1>4. \E f : Eq(f)
    BY <1>1, <1>2, <1>3, JoinedExists
  <1>5. Joined(CHOOSE f : Eq(f), Len(text), DoubledPieces(text))
    BY <1>3, <1>4
  <1>6. Doubled(text) = (CHOOSE f : Eq(f))[Len(text)]
    BY Zenon DEF Doubled, Eq
  <1> QED
    BY <1>2, <1>5, <1>6

Pairs(text, pair) == [i \in 1..Len(text) |-> i < Len(text) /\ <<text[i], text[i + 1]>> = pair]

\* Replaced takes its text apart.
LEMMA ReplacedTakes ==
    ASSUME NEW text \in Text, NEW pair, NEW by \in Pieces
    PROVE  \E from : /\ Rest(from, Len(text), Pairs(text, pair), [i \in 1..Len(text) |-> <<by>>], Plainly(text))
                     /\ Replaced(text, pair, by) = from[1]
  <1> DEFINE n == Len(text)
             bys == [i \in 1..n |-> <<by>>]
             Eq(f) == f = [i \in 1..(n + 2) |->
                             IF i > n THEN <<>>
                             ELSE IF i < n /\ <<text[i], text[i + 1]>> = pair
                                  THEN <<by>> \o f[i + 2]
                                  ELSE <<text[i]>> \o f[i + 1]]
  <1>1. n \in Nat /\ Plainly(text) \in [1..n -> Text]
    BY PlainlyJoins
  <1>2. bys \in [1..n -> Text]
    BY Short
  <1>3. ASSUME NEW i \in 1..(n + 2), ~(i > n)
        PROVE  /\ Pairs(text, pair)[i] = (i < n /\ <<text[i], text[i + 1]>> = pair)
               /\ bys[i] = <<by>> /\ Plainly(text)[i] = <<text[i]>>
    <2>1. i \in 1..n
      BY <1>1, <1>3
    <2> QED
      BY <2>1 DEF Pairs, Plainly
  <1> HIDE DEF bys
  <1>4. ASSUME NEW f PROVE Eq(f) <=> Rest(f, n, Pairs(text, pair), bys, Plainly(text))
    <2>1. ASSUME Rest(f, n, Pairs(text, pair), bys, Plainly(text)) PROVE Eq(f)
      BY <1>1, <1>3, <2>1 DEF Rest
    <2>2. ASSUME Eq(f) PROVE Rest(f, n, Pairs(text, pair), bys, Plainly(text))
      <3>1. f = [i \in 1..(n + 2) |-> IF i > n THEN <<>>
                                      ELSE IF Pairs(text, pair)[i] THEN bys[i] \o f[i + 2]
                                           ELSE Plainly(text)[i] \o f[i + 1]]
        BY <1>3, <2>2
      <3> HIDE DEF n
      <3> QED
        BY <1>1, <1>2, <3>1, RestIs
    <2> QED
      BY <2>1, <2>2
  <1> HIDE DEF Eq
  <1>5. \E f : Eq(f)
    <2> HIDE DEF n
    <2> QED
      BY <1>1, <1>2, <1>4, RestExists
  <1>6. Rest(CHOOSE f : Eq(f), n, Pairs(text, pair), bys, Plainly(text))
    BY <1>4, <1>5
  <1>7. Replaced(text, pair, by) = (CHOOSE f : Eq(f))[1]
    BY Zenon DEF Replaced, Eq
  <1> QED
    BY <1>6, <1>7 DEF bys

\* So does systemd.
LEMMA ExpandedTakes ==
    ASSUME NEW text \in Text
    PROVE  \E from : /\ from \in [1..(Len(text) + 2) -> Text] /\ Expanded(text) = from[1]
                     /\ \A i \in 1..(Len(text) + 2) :
                            from[i] = IF i > Len(text) THEN <<>>
                                      ELSE IF i < Len(text) /\ text[i] = "%"
                                           THEN <<IF text[i + 1] = "%" THEN "%" ELSE "expansion">> \o from[i + 2]
                                           ELSE <<text[i]>> \o from[i + 1]
  <1> DEFINE n == Len(text)
             found == [i \in 1..n |-> <<IF text[i + 1] = "%" THEN "%" ELSE "expansion">>]
             starts == [i \in 1..n |-> i < n /\ text[i] = "%"]
             Eq(f) == f = [i \in 1..(n + 2) |->
                             IF i > n THEN <<>>
                             ELSE IF i < n /\ text[i] = "%"
                                  THEN <<IF text[i + 1] = "%" THEN "%" ELSE "expansion">> \o f[i + 2]
                                  ELSE <<text[i]>> \o f[i + 1]]
  <1>1. n \in Nat /\ Plainly(text) \in [1..n -> Text]
    BY PlainlyJoins
  <1>2. found \in [1..n -> Text]
    BY Percent, Short
  <1>3. ASSUME NEW i \in 1..(n + 2), ~(i > n)
        PROVE  /\ starts[i] = (i < n /\ text[i] = "%") /\ Plainly(text)[i] = <<text[i]>>
               /\ found[i] = <<IF text[i + 1] = "%" THEN "%" ELSE "expansion">>
    <2>1. i \in 1..n
      BY <1>1, <1>3
    <2> QED
      BY <2>1 DEF Plainly
  <1> HIDE DEF found, starts
  <1>4. ASSUME NEW f PROVE Eq(f) <=> Rest(f, n, starts, found, Plainly(text))
    <2>1. ASSUME Rest(f, n, starts, found, Plainly(text)) PROVE Eq(f)
      BY <1>1, <1>3, <2>1 DEF Rest
    <2>2. ASSUME Eq(f) PROVE Rest(f, n, starts, found, Plainly(text))
      <3>1. f = [i \in 1..(n + 2) |-> IF i > n THEN <<>>
                                      ELSE IF starts[i] THEN found[i] \o f[i + 2]
                                           ELSE Plainly(text)[i] \o f[i + 1]]
        BY <1>3, <2>2
      <3> HIDE DEF n
      <3> QED
        BY <1>1, <1>2, <3>1, RestIs
    <2> QED
      BY <2>1, <2>2
  <1> HIDE DEF Eq
  <1>5. \E f : Eq(f)
    <2> HIDE DEF n
    <2> QED
      BY <1>1, <1>2, <1>4, RestExists
  <1>6. PICK g : g = CHOOSE f : Eq(f)
    OBVIOUS
  <1>7. Eq(g)
    BY <1>5, <1>6
  <1>8. g \in [1..(n + 2) -> Text]
    BY <1>4, <1>7 DEF Rest
  <1>9. Expanded(text) = g[1]
    <2>1. Expanded(text) = (CHOOSE f : Eq(f))[1]
      BY Zenon DEF Expanded, Eq
    <2> QED
      BY <1>6, <2>1
  <1>10. \A i \in 1..(n + 2) : g[i] = IF i > n THEN <<>>
                                      ELSE IF i < n /\ text[i] = "%"
                                           THEN <<IF text[i + 1] = "%" THEN "%" ELSE "expansion">> \o g[i + 2]
                                           ELSE <<text[i]>> \o g[i + 1]
    BY <1>7 DEF Eq
  <1> QED
    BY <1>8, <1>9, <1>10

Undoes(from, D) ==
    /\ from \in [1..(Len(D) + 2) -> Text] /\ from[Len(D) + 1] = <<>>
    /\ \A i \in 1..Len(D) :
           /\ i < Len(D) /\ D[i] = "%" /\ D[i + 1] = "%" => from[i] = <<"%">> \o from[i + 2]
           /\ D[i] # "%" => from[i] = <<D[i]>> \o from[i + 1]

\* What becomes of one piece.
DoubledPiece(c) == IF c = "%" THEN <<"%", "%">> ELSE <<c>>

\* It takes what became of a piece for the piece.
LEMMA UndoStep ==
    ASSUME NEW from, NEW D, Undoes(from, D), NEW a, NEW b, NEW d, StandsAt(D, a, b, d),
           NEW c, d = DoubledPiece(c)
    PROVE  from[a + 1] = <<c>> \o from[b + 1]
  <1>3. /\ b = a + Len(d) /\ b <= Len(D) /\ a \in Nat /\ Len(D) \in Nat
        /\ \A j \in 1..Len(d) : D[a + j] = d[j]
    BY DEF StandsAt
  <1>4. Undoes(from, D) /\ d = DoubledPiece(c)
    OBVIOUS
  <1>5. from[a + 1] = <<c>> \o from[b + 1]
    <2>1. CASE c = "%"
      <3>1. d = <<"%", "%">>
        BY <1>4, <2>1 DEF DoubledPiece
      <3>2. Len(d) = 2 /\ d[1] = "%" /\ d[2] = "%"
        BY <3>1
      <3>3. b = a + 2 /\ D[a + 1] = "%" /\ D[a + 2] = "%"
        BY <1>3, <3>2
      <3>4. a + 1 \in 1..Len(D) /\ a + 1 < Len(D) /\ (a + 1) + 1 = a + 2 /\ (a + 1) + 2 = (a + 2) + 1
        BY <1>3, <3>3
      <3>5. from[a + 1] = <<"%">> \o from[(a + 2) + 1]
        BY <1>4, <3>3, <3>4 DEF Undoes
      <3> QED
        BY <2>1, <3>3, <3>5
    <2>2. CASE c # "%"
      <3>1. d = <<c>>
        BY <1>4, <2>2 DEF DoubledPiece
      <3>2. Len(d) = 1 /\ d[1] = c
        BY <3>1
      <3>3. b = a + 1 /\ D[a + 1] = c
        BY <1>3, <3>2
      <3>4. a + 1 \in 1..Len(D)
        BY <1>3, <3>3
      <3>5. from[a + 1] = <<c>> \o from[(a + 1) + 1]
        BY <1>4, <2>2, <3>3, <3>4 DEF Undoes
      <3> QED
        BY <3>3, <3>5
    <2> QED
      BY <2>1, <2>2
  <1> QED
    BY <1>5

\* Whatever takes doubled percent signs for one gets the text back.
LEMMA Undo ==
    ASSUME NEW text \in Text, NEW from, Undoes(from, Doubled(text))
    PROVE  from[1] = text
  <1>1. PICK n \in Nat : n = Len(text)
    BY PlainlyJoins
  <1>2. PICK p \in [1..n -> Text] : p = DoubledPieces(text)
    BY <1>1, DoubledJoins
  <1>3. PICK q \in [1..n -> Text] : q = Plainly(text)
    BY <1>1, PlainlyJoins
  <1>4. PICK up : Joined(up, n, p) /\ Doubled(text) = up[n]
    BY <1>1, <1>2, DoubledJoins
  <1>5. PICK vp : Joined(vp, n, q) /\ vp[n] = text
    BY <1>1, <1>3, PlainlyJoins
  <1>6. Undoes(from, up[n])
    BY <1>4
  <1>7. ASSUME NEW k \in 1..n PROVE from[Len(up[k - 1]) + 1] = q[k] \o from[Len(up[k]) + 1]
    <2>0. PICK c : c = text[k]
      OBVIOUS
    <2>1. q[k] = <<c>>
      BY <1>1, <1>3, <2>0 DEF Plainly
    <2>2. p[k] = DoubledPiece(c)
      BY <1>1, <1>2, <2>0 DEF DoubledPieces, DoubledPiece
    <2>3. PICK a, b, d, D : a = Len(up[k - 1]) /\ b = Len(up[k]) /\ d = p[k] /\ D = up[n]
      OBVIOUS
    <2>4. StandsAt(up[n], Len(up[k - 1]), Len(up[k]), p[k])
      BY <1>4, PieceAt
    <2>5. StandsAt(D, a, b, d)
      BY <2>3, <2>4
    <2>6. Undoes(from, D) /\ d = DoubledPiece(c)
      BY <1>6, <2>2, <2>3
    <2>7. from[a + 1] = <<c>> \o from[b + 1]
      BY <2>5, <2>6, UndoStep
    <2> QED
      BY <2>1, <2>3, <2>7
  <1>8. Peels(from, n, up, q)
    BY <1>6, <1>7 DEF Undoes, Peels
  <1>9. from[1] = vp[n]
    BY <1>4, <1>5, <1>8, Translate
  <1> QED
    BY <1>5, <1>9

\* Doubling gives text.
LEMMA DoubledText == ASSUME NEW text \in Text PROVE Doubled(text) \in Text
  <1>1. PICK up : Joined(up, Len(text), DoubledPieces(text)) /\ Doubled(text) = up[Len(text)]
    BY DoubledJoins
  <1>2. Len(text) \in Nat
    BY PlainlyJoins
  <1> QED
    BY <1>1, <1>2, JoinedText

\* What the code writes is what the code reads.
LEMMA UndoubledDoubled == ASSUME NEW text \in Text PROVE Undoubled(Doubled(text)) = text
  <1> DEFINE D == Doubled(text)
  <1>1. D \in Text /\ Len(D) \in Nat
    BY DoubledText, PlainlyJoins
  <1> HIDE DEF D
  <1>2. PICK from : /\ Rest(from, Len(D), Pairs(D, <<"%", "%">>), [i \in 1..Len(D) |-> <<"%">>], Plainly(D))
                    /\ Replaced(D, <<"%", "%">>, "%") = from[1]
    BY <1>1, Percent, ReplacedTakes
  <1>3. from \in [1..(Len(D) + 2) -> Text] /\ from[Len(D) + 1] = <<>>
    <2>1. Len(D) + 1 \in 1..(Len(D) + 2) /\ Len(D) + 1 > Len(D)
      BY <1>1
    <2> QED
      BY <1>2, <2>1 DEF Rest
  <1>4. ASSUME NEW i \in 1..Len(D)
        PROVE  /\ i < Len(D) /\ D[i] = "%" /\ D[i + 1] = "%" => from[i] = <<"%">> \o from[i + 2]
               /\ D[i] # "%" => from[i] = <<D[i]>> \o from[i + 1]
    <2>1. i \in 1..(Len(D) + 2) /\ ~(i > Len(D))
      BY <1>1
    <2>2. from[i] = IF i < Len(D) /\ <<D[i], D[i + 1]>> = <<"%", "%">>
                    THEN <<"%">> \o from[i + 2] ELSE <<D[i]>> \o from[i + 1]
      BY <1>2, <2>1 DEF Rest, Pairs, Plainly
    <2>3. <<D[i], D[i + 1]>> = <<"%", "%">> <=> D[i] = "%" /\ D[i + 1] = "%"
      OBVIOUS
    <2> QED
      BY <2>2, <2>3
  <1>5. Undoes(from, D)
    BY <1>3, <1>4 DEF Undoes
  <1>6. from[1] = text
    BY <1>5, Undo DEF D
  <1> QED
    BY <1>2, <1>6 DEF Undoubled, D

\* And what systemd reads.
LEMMA ExpandedDoubled == ASSUME NEW text \in Text PROVE Expanded(Doubled(text)) = text
  <1> DEFINE D == Doubled(text)
  <1>1. D \in Text /\ Len(D) \in Nat
    BY DoubledText, PlainlyJoins
  <1> HIDE DEF D
  <1>2. PICK from \in [1..(Len(D) + 2) -> Text] :
            /\ Expanded(D) = from[1]
            /\ \A i \in 1..(Len(D) + 2) :
                   from[i] = IF i > Len(D) THEN <<>>
                             ELSE IF i < Len(D) /\ D[i] = "%"
                                  THEN <<IF D[i + 1] = "%" THEN "%" ELSE "expansion">> \o from[i + 2]
                                  ELSE <<D[i]>> \o from[i + 1]
    BY <1>1, ExpandedTakes
  <1>3. from[Len(D) + 1] = <<>>
    <2>1. Len(D) + 1 \in 1..(Len(D) + 2) /\ Len(D) + 1 > Len(D)
      BY <1>1
    <2> QED
      BY <1>2, <2>1
  <1>4. ASSUME NEW i \in 1..Len(D)
        PROVE  /\ i < Len(D) /\ D[i] = "%" /\ D[i + 1] = "%" => from[i] = <<"%">> \o from[i + 2]
               /\ D[i] # "%" => from[i] = <<D[i]>> \o from[i + 1]
    <2>1. i \in 1..(Len(D) + 2) /\ ~(i > Len(D))
      BY <1>1
    <2> QED
      BY <1>2, <2>1
  <1>5. Undoes(from, D)
    BY <1>3, <1>4 DEF Undoes
  <1>6. from[1] = text
    BY <1>5, Undo DEF D
  <1> QED
    BY <1>2, <1>6 DEF D

\* Undoubling gives text.
LEMMA UndoubledText == ASSUME NEW text \in Text PROVE Undoubled(text) \in Text
  <1>1. PICK from : /\ Rest(from, Len(text), Pairs(text, <<"%", "%">>), [i \in 1..Len(text) |-> <<"%">>], Plainly(text))
                    /\ Replaced(text, <<"%", "%">>, "%") = from[1]
    BY Percent, ReplacedTakes
  <1>2. Len(text) \in Nat
    BY PlainlyJoins
  <1>3. 1 \in 1..(Len(text) + 2) /\ from \in [1..(Len(text) + 2) -> Text]
    BY <1>1, <1>2 DEF Rest
  <1> QED
    BY <1>1, <1>3 DEF Undoubled

\* One piece that is no percent sign is itself.
LEMMA ExpandedOne == ASSUME NEW c \in Pieces, c # "%" PROVE Expanded(<<c>>) = <<c>>
  <1> DEFINE t == <<c>>
  <1>1. t \in Text /\ Len(t) = 1 /\ t[1] = c
    BY Short
  <1> HIDE DEF t
  <1>2. PICK from \in [1..(Len(t) + 2) -> Text] :
            /\ Expanded(t) = from[1]
            /\ \A i \in 1..(Len(t) + 2) :
                   from[i] = IF i > Len(t) THEN <<>>
                             ELSE IF i < Len(t) /\ t[i] = "%"
                                  THEN <<IF t[i + 1] = "%" THEN "%" ELSE "expansion">> \o from[i + 2]
                                  ELSE <<t[i]>> \o from[i + 1]
    BY <1>1, ExpandedTakes
  <1>3. from[2] = <<>> /\ from[1] = <<c>> \o from[2]
    BY <1>1, <1>2
  <1>4. <<c>> \o <<>> = <<c>>
    BY Short, Concat
  <1> QED
    BY <1>2, <1>3, <1>4 DEF t

-------------------------------------------------------------------------------
(* Lines and sections.                                                     *)

\* The lines of a file are lines.
LEMMA LineAt ==
    ASSUME NEW file \in Seq(Lines), NEW i \in DOMAIN file
    PROVE  /\ i \in Nat /\ 1..i \subseteq DOMAIN file
           /\ file[i].kind \in Kinds /\ file[i].key \in Words /\ file[i].value \in Text
  <1>1. DOMAIN file = 1..Len(file) /\ Len(file) \in Nat /\ file[i] \in Lines
    OBVIOUS
  <1>2. i \in Nat /\ 1..i \subseteq DOMAIN file
    BY <1>1
  <1> QED
    BY <1>1, <1>2 DEF Lines

\* Without an indented header systemd sees the sections the validators see.
LEMMA SameSections ==
    ASSUME NEW file \in Seq(Lines), ~IndentedHeader(file), NEW i \in DOMAIN file
    PROVE  SectionAt(file, i, {"header", "indented"}) = SectionAt(file, i, {"header"})
  <1>1. 1..i \subseteq DOMAIN file
    BY LineAt
  <1>2. \A h \in DOMAIN file : file[h].kind # "indented"
    BY DEF IndentedHeader, Kind
  <1>3. {h \in 1..i : file[h].kind \in {"header", "indented"}} = {h \in 1..i : file[h].kind \in {"header"}}
    BY <1>1, <1>2
  <1> DEFINE above(kinds) == {h \in 1..i : file[h].kind \in kinds}
             named(set) == IF set = {} THEN "none" ELSE file[CHOOSE h \in set : \A k \in set : k <= h].key
  <1>4. \A kinds : SectionAt(file, i, kinds) = named(above(kinds))
    BY Zenon DEF SectionAt
  <1>5. above({"header", "indented"}) = above({"header"})
    BY <1>3
  <1> HIDE DEF above, named
  <1> QED
    BY <1>4, <1>5

\* The place of the one assignment to a key in a section that parses.
LEMMA OnePlace ==
    ASSUME NEW file \in Seq(Lines), NEW section, NEW allowed, SectionParses(file, section, allowed),
           NEW i \in Within(file, section)
    PROVE  /\ i \in DOMAIN file /\ file[i].kind = "assign" /\ SectionAt(file, i, {"header"}) = section
           /\ \A j \in Within(file, section) : file[j].key = file[i].key => j = i
  BY DEF SectionParses, Within

\* What systemd reads of it.
LEMMA ReadsPlace ==
    ASSUME NEW file \in Seq(Lines), ~IndentedHeader(file), NEW section, NEW allowed,
           SectionParses(file, section, allowed), NEW i \in Within(file, section)
    PROVE  Reads(file, section, file[i].key) = Expanded(Stripped(file[i].value))
  <1> DEFINE at == {j \in AssignsOf(file, file[i].key) : SectionAt(file, j, {"header", "indented"}) = section}
  <1>1. /\ i \in DOMAIN file /\ file[i].kind = "assign" /\ SectionAt(file, i, {"header"}) = section
        /\ \A j \in Within(file, section) : file[j].key = file[i].key => j = i
    BY OnePlace
  <1>2. i \in at
    BY <1>1, SameSections DEF AssignsOf, Kind
  <1>3. ASSUME NEW j \in at PROVE j = i
    <2>1. /\ j \in DOMAIN file /\ file[j].kind = "assign" /\ file[j].key = file[i].key
          /\ SectionAt(file, j, {"header", "indented"}) = section
      BY <1>3 DEF AssignsOf, Kind
    <2>2. j \in Within(file, section)
      BY <2>1, SameSections DEF Within
    <2> QED
      BY <1>1, <2>1, <2>2
  <1>4. i \in Nat
    BY <1>1, LineAt
  <1>5. (CHOOSE j \in at : \A k \in at : k <= j) = i
    <2> HIDE DEF at
    <2>1. \A k \in at : k <= i
      BY <1>3, <1>4
    <2>2. (CHOOSE j \in at : \A k \in at : k <= j) \in at
      BY <1>2, <2>1
    <2> QED
      BY <1>3, <2>2
  <1>6. at # {}
    BY <1>2
  <1> QED
    BY <1>5, <1>6 DEF Reads

\* What the code reads of it.
LEMMA InMountPlace ==
    ASSUME NEW file \in Seq(Lines), NEW allowed, SectionParses(file, "Mount", allowed),
           NEW i \in Within(file, "Mount")
    PROVE  InMount(file, file[i].key) = file[i].value
  <1> DEFINE at == {j \in Within(file, "Mount") : file[j].key = file[i].key}
  <1>1. i \in at /\ \A j \in at : j = i
    BY OnePlace
  <1>2. (CHOOSE j \in Within(file, "Mount") : file[j].key = file[i].key) = i
    BY <1>1
  <1> QED
    BY <1>2 DEF InMount

\* What the scan reads of it, if there is no other in the file.
LEMMA ExtractedPlace ==
    ASSUME NEW file \in Seq(Lines), NEW section, NEW allowed, SectionParses(file, section, allowed),
           NEW i \in Within(file, section), AssignsOf(file, file[i].key) \subseteq Within(file, section)
    PROVE  AssignsOf(file, file[i].key) # {} /\ Extracted(file, file[i].key) = file[i].value
  <1> DEFINE at == AssignsOf(file, file[i].key)
  <1>1. /\ i \in DOMAIN file /\ file[i].kind = "assign"
        /\ \A j \in Within(file, section) : file[j].key = file[i].key => j = i
    BY OnePlace
  <1>2. i \in at /\ \A j \in at : j = i
    BY <1>1 DEF AssignsOf, Kind
  <1>3. i \in Nat
    BY <1>1, LineAt
  <1>4. (CHOOSE j \in at : \A k \in at : k <= j) = i
    <2> HIDE DEF at
    <2>1. \A k \in at : k <= i
      BY <1>2, <1>3
    <2>2. (CHOOSE j \in at : \A k \in at : k <= j) \in at
      BY <1>2, <2>1
    <2> QED
      BY <1>2, <2>2
  <1>5. at # {}
    BY <1>2
  <1> QED
    BY <1>4, <1>5 DEF Extracted

\* Doubling percent signs does not change how a text begins and ends.
LEMMA DoubledEnds ==
    ASSUME NEW text \in Text, text # <<>>
    PROVE  Doubled(text) # <<>> /\ Last(Doubled(text)) = Last(text) /\ Doubled(text)[1] = text[1]
  <1>1. PICK n \in Nat : n = Len(text) /\ n \in 1..n
    <2>1. Len(text) \in Nat /\ Len(text) # 0
      BY DEF Text
    <2> QED
      BY <2>1
  <1>2. PICK p \in [1..n -> Text] : p = DoubledPieces(text)
    BY <1>1, DoubledJoins
  <1>3. PICK up : Joined(up, n, p) /\ Doubled(text) = up[n]
    BY <1>1, <1>2, DoubledJoins
  <1>4. StandsAt(up[n], Len(up[n - 1]), Len(up[n]), p[n])
    BY <1>1, <1>3, PieceAt
  <1>5. PICK D, a, d, c : D = up[n] /\ a = Len(up[n - 1]) /\ d = p[n] /\ c = text[n]
    OBVIOUS
  <1>6. /\ a \in Nat /\ Len(D) = a + Len(d) /\ \A j \in 1..Len(d) : D[a + j] = d[j]
    BY <1>4, <1>5 DEF StandsAt
  <1>7. d = DoubledPiece(c)
    BY <1>1, <1>2, <1>5 DEF DoubledPieces, DoubledPiece
  <1>8. Len(d) \in 1..2 /\ d[Len(d)] = c
    BY <1>7 DEF DoubledPiece
  <1>9. Len(d) \in 1..Len(d) /\ Len(D) # 0
    BY <1>6, <1>8
  <1>10. D[Len(D)] = c
    BY <1>6, <1>8, <1>9
  <1>11. D # <<>>
    BY <1>9
  <1>12. D[1] = text[1]
    <2>1. StandsAt(D, Len(up[0]), Len(up[1]), p[1]) /\ up[0] = <<>>
      <3>1. n \in Nat /\ 1 \in 1..n /\ 1 - 1 = 0
        BY <1>1
      <3>2. StandsAt(up[n], Len(up[1 - 1]), Len(up[1]), p[1])
        BY <1>1, <1>3, <3>1, PieceAt
      <3> QED
        BY <1>1, <1>3, <1>5, <3>1, <3>2 DEF Joined
    <2>2. PICK e, b : e = p[1] /\ b = text[1]
      OBVIOUS
    <2>3. e = DoubledPiece(b)
      BY <1>1, <1>2, <2>2 DEF DoubledPieces, DoubledPiece
    <2>4. 1 \in 1..Len(e) /\ e[1] = b
      BY <2>3 DEF DoubledPiece
    <2>5. \A k \in 1..Len(e) : D[0 + k] = e[k]
      BY <2>1, <2>2 DEF StandsAt
    <2> QED
      BY <2>2, <2>4, <2>5
  <1> QED
    BY <1>1, <1>3, <1>5, <1>10, <1>11, <1>12 DEF Last

\* Text that systemd takes no blanks off.
Trimmed(text) == text # <<>> /\ text[1] # "space" /\ Last(text) # "space"

\* It is left as it stands.
LEMMA StrippedWhole == ASSUME NEW text \in Text, Trimmed(text) PROVE Stripped(text) = text
  <1> DEFINE kept == {i \in DOMAIN text : text[i] # "space"}
  <1>0. PICK n \in Nat : n = Len(text)
    BY DEF Text
  <1>1. n = Len(text) /\ DOMAIN text = 1..n /\ n \in 1..n /\ 1 \in 1..n
    <2>1. n # 0 /\ DOMAIN text = 1..n
      BY <1>0 DEF Text, Trimmed
    <2> QED
      BY <1>0, <2>1
  <1>2. 1 \in kept /\ n \in kept /\ kept \subseteq 1..n
    BY <1>1 DEF Trimmed, Last
  <1>3. (CHOOSE i \in kept : \A k \in kept : i <= k) = 1
    <2> HIDE DEF kept
    <2>1. \A k \in kept : 1 <= k
      BY <1>2
    <2>2. PICK i : i = CHOOSE x \in kept : \A k \in kept : x <= k
      OBVIOUS
    <2>3. i \in kept /\ i <= 1
      BY <1>2, <2>1, <2>2
    <2>4. i = 1
      BY <1>2, <2>3
    <2> QED
      BY <2>2, <2>4
  <1>4. (CHOOSE i \in kept : \A k \in kept : k <= i) = n
    <2> HIDE DEF kept
    <2>1. \A k \in kept : k <= n
      BY <1>2
    <2>2. PICK i : i = CHOOSE x \in kept : \A k \in kept : k <= x
      OBVIOUS
    <2>3. i \in kept /\ n <= i
      BY <1>2, <2>1, <2>2
    <2>4. i = n
      BY <1>2, <2>3
    <2> QED
      BY <2>2, <2>4
  <1>5. Stripped(text) = SubSeq(text, 1, n)
    <2>1. kept # {}
      BY <1>2
    <2> QED
      BY <1>3, <1>4, <2>1, Zenon DEF Stripped
  <1>6. SubSeq(text, 1, n) = text
    BY <1>1 DEF Text
  <1> QED
    BY <1>5, <1>6

\* Nor off what it becomes when its percent signs are doubled.
LEMMA DoubledTrimmed == ASSUME NEW text \in Text, Trimmed(text) PROVE Trimmed(Doubled(text))
  BY DoubledEnds DEF Trimmed

\* Nor off what a unit file line can carry.
LEMMA EncodableTrimmed == ASSUME NEW text, Encodable(text) PROVE Trimmed(text)
  BY DEF Encodable, Trimmed

\* A value that was doubled reaches systemd as it was.
LEMMA ReadsDoubled ==
    ASSUME NEW file \in Seq(Lines), ~IndentedHeader(file), NEW section, NEW allowed,
           SectionParses(file, section, allowed), NEW key, NEW value \in Text, Trimmed(value),
           Assigns(file, section, key, Doubled(value))
    PROVE  Reads(file, section, key) = value
  <1>1. PICK i \in Within(file, section) : file[i].key = key /\ file[i].value = Doubled(value)
    BY DEF Assigns
  <1>2. Reads(file, section, file[i].key) = Expanded(Stripped(file[i].value))
    BY ReadsPlace
  <1>3. Stripped(Doubled(value)) = Doubled(value)
    BY DoubledText, DoubledTrimmed, StrippedWhole
  <1> QED
    BY <1>1, <1>2, <1>3, ExpandedDoubled

\* So does a single piece.
LEMMA ReadsOne ==
    ASSUME NEW file \in Seq(Lines), ~IndentedHeader(file), NEW section, NEW allowed,
           SectionParses(file, section, allowed), NEW key, NEW c \in Pieces, c # "%", c # "space",
           Assigns(file, section, key, <<c>>)
    PROVE  Reads(file, section, key) = <<c>>
  <1>1. PICK i \in Within(file, section) : file[i].key = key /\ file[i].value = <<c>>
    BY DEF Assigns
  <1>2. Reads(file, section, file[i].key) = Expanded(Stripped(file[i].value))
    BY ReadsPlace
  <1>3. Stripped(<<c>>) = <<c>>
    <2>1. <<c>> \in Text /\ Trimmed(<<c>>)
      BY Short DEF Trimmed, Last
    <2> QED
      BY <2>1, StrippedWhole
  <1> QED
    BY <1>1, <1>2, <1>3, ExpandedOne

-------------------------------------------------------------------------------
(* Verdicts.                                                               *)

Sides == {"NotPresent", "NoMarker", "Broken", "Valid"}

\* What a side that is valid says of its file.
LEMMA ValidSide ==
    ASSUME NEW file, NEW valid
    PROVE  /\ Side(file, valid) \in Sides
           /\ Side(file, valid) = "NotPresent" => file = Missing
           /\ Side(file, valid) = "Valid" =>
                 /\ file # Missing /\ MarkerParses(file) /\ ParsedMarker(file).uid = CallerUid /\ valid
  BY DEF Side, Sides

\* Of two sides, the verdict.
Decided(m, a, same) ==
    LET sides == {m, a}
    IN  CASE sides = {"NotPresent"} -> "None"
          [] "Broken" \in sides     -> "Tampered"
          [] "NoMarker" \in sides /\ "Broken" \notin sides -> "NotOurs"
          [] sides = {"Valid"} -> IF same THEN "Pair" ELSE "Tampered"
          [] sides = {"Valid", "NotPresent"} -> "Partial"

\* Its table.
LEMMA Decisions ==
    ASSUME NEW m \in Sides, NEW a \in Sides, NEW same \in BOOLEAN
    PROVE  /\ Decided(m, a, same) = "Pair" => m = "Valid" /\ a = "Valid" /\ same
           /\ Decided(m, a, same) = "Partial" =>
                 \/ m = "Valid" /\ a = "NotPresent"
                 \/ m = "NotPresent" /\ a = "Valid"
  <1> DEFINE sides == {m, a}
  <1>1. CASE sides = {"NotPresent"}
    <2>1. Decided(m, a, same) = "None"
      BY <1>1 DEF Decided
    <2> QED
      BY <2>1
  <1>2. CASE "Broken" \in sides
    <2>1. Decided(m, a, same) = "Tampered"
      BY <1>2 DEF Decided
    <2> QED
      BY <2>1
  <1>3. CASE "NoMarker" \in sides /\ "Broken" \notin sides
    <2>1. Decided(m, a, same) = "NotOurs"
      BY <1>3 DEF Decided
    <2> QED
      BY <2>1
  <1>4. CASE sides = {"Valid"}
    <2>1. Decided(m, a, same) = IF same THEN "Pair" ELSE "Tampered"
      BY <1>4 DEF Decided
    <2> QED
      BY <1>4, <2>1
  <1>5. CASE sides = {"Valid", "NotPresent"}
    <2>1. Decided(m, a, same) = "Partial"
      BY <1>5 DEF Decided
    <2> QED
      BY <1>5, <2>1
  <1>6. \/ sides = {"NotPresent"} \/ "Broken" \in sides
        \/ "NoMarker" \in sides /\ "Broken" \notin sides
        \/ sides = {"Valid"} \/ sides = {"Valid", "NotPresent"}
    BY DEF Sides
  <1> QED
    BY <1>1, <1>2, <1>3, <1>4, <1>5, <1>6

\* A file whose marker and body are the ones asked for.
TrustedMount ==
    /\ MarkerParses(mountFile) /\ ParsedMarker(mountFile).uid = CallerUid
    /\ ValidMountBody(mountFile, ParsedMarker(mountFile), asked.where)

TrustedAutomount ==
    /\ MarkerParses(autoFile) /\ ParsedMarker(autoFile).uid = CallerUid
    /\ ValidAutomountBody(autoFile, asked.where)

\* What is there of a trusted definition is valid, and one half speaks for both.
LEMMA TrustedHalves ==
    ASSUME Trusted
    PROVE  /\ mountFile = Missing \/ TrustedMount
           /\ autoFile = Missing \/ TrustedAutomount
           /\ \/ /\ mountFile # Missing /\ autoFile # Missing /\ Verdict(asked.where) = "Pair"
                 /\ ParsedMarker(mountFile) = ParsedMarker(autoFile)
              \/ mountFile # Missing /\ autoFile = Missing /\ Verdict(asked.where) = "Partial"
              \/ mountFile = Missing /\ autoFile # Missing /\ Verdict(asked.where) = "Partial"
  <1> DEFINE m == MountSide(asked.where)
             a == AutomountSide(asked.where)
  <1>1. /\ m \in Sides /\ (m = "NotPresent" => mountFile = Missing)
        /\ m = "Valid" => mountFile # Missing /\ TrustedMount
    <2>1. /\ m \in Sides /\ (m = "NotPresent" => mountFile = Missing)
          /\ m = "Valid" =>
                /\ mountFile # Missing /\ MarkerParses(mountFile) /\ ParsedMarker(mountFile).uid = CallerUid
                /\ MarkerParses(mountFile) /\ ValidMountBody(mountFile, ParsedMarker(mountFile), asked.where)
      BY ValidSide DEF MountSide
    <2> QED
      BY <2>1 DEF TrustedMount
  <1>2. /\ a \in Sides /\ (a = "NotPresent" => autoFile = Missing)
        /\ a = "Valid" => autoFile # Missing /\ TrustedAutomount
    <2>1. /\ a \in Sides /\ (a = "NotPresent" => autoFile = Missing)
          /\ a = "Valid" =>
                /\ autoFile # Missing /\ MarkerParses(autoFile) /\ ParsedMarker(autoFile).uid = CallerUid
                /\ ValidAutomountBody(autoFile, asked.where)
      BY ValidSide DEF AutomountSide
    <2> QED
      BY <2>1 DEF TrustedAutomount
  <1>3. PICK same \in BOOLEAN :
            /\ same = (ParsedMarker(mountFile) = ParsedMarker(autoFile))
            /\ Verdict(asked.where) = Decided(m, a, same)
    <2>1. Verdict(asked.where) = Decided(m, a, ParsedMarker(mountFile) = ParsedMarker(autoFile))
      BY Zenon DEF Verdict, Decided
    <2> QED
      BY <2>1, Zenon
  <1>5. Decided(m, a, same) \in {"Pair", "Partial"}
    BY <1>3 DEF Trusted
  <1> HIDE DEF m, a
  <1>6. CASE Decided(m, a, same) = "Pair"
    <2>1. m = "Valid" /\ a = "Valid" /\ same
      BY <1>1, <1>2, <1>6, Decisions
    <2> QED
      BY <1>1, <1>2, <1>3, <1>6, <2>1
  <1>7. CASE Decided(m, a, same) = "Partial"
    <2>1. \/ m = "Valid" /\ a = "NotPresent"
          \/ m = "NotPresent" /\ a = "Valid"
      BY <1>1, <1>2, <1>7, Decisions
    <2> QED
      BY <1>1, <1>2, <1>3, <1>7, <2>1
  <1> QED
    BY <1>5, <1>6, <1>7

\* The fields of a marker that parses are legal.
LEMMA MarkerText ==
    ASSUME NEW file, MarkerParses(file)
    PROVE  /\ ParsedMarker(file).uid \in Digits /\ ParsedMarker(file).gid \in Digits
           /\ ParsedMarker(file).id \in Ids /\ ParsedMarker(file).auth \in {"credentials", "guest"}
  <1>1. ASSUME NEW key \in FieldKeys PROVE FieldValue(file, key) \in Legal(key)
    <2>1. PICK i \in Kind(file, "field") : file[i].key = key
      BY DEF MarkerParses
    <2>2. PICK j \in Kind(file, "field") : j = CHOOSE k \in Kind(file, "field") : file[k].key = key
      BY <2>1
    <2>3. file[j].key = key
      BY <2>1, <2>2
    <2>4. FieldValue(file, key) = file[j].value[1]
      BY <2>2 DEF FieldValue
    <2> QED
      BY <2>3, <2>4 DEF MarkerParses
  <1>2. /\ FieldValue(file, "Owner-Uid") \in Digits /\ FieldValue(file, "Owner-Gid") \in Digits
        /\ FieldValue(file, "Id") \in Ids /\ FieldValue(file, "Authentication") \in {"credentials", "guest"}
    BY <1>1 DEF FieldKeys, Legal
  <1> QED
    BY <1>2 DEF ParsedMarker

\* Options are text.
LEMMA OptionsText ==
    ASSUME NEW marker, marker.uid \in Digits, marker.gid \in Digits, marker.id \in Ids
    PROVE  MountOptions(marker) \in Text
  <1>1. /\ marker.uid \in Pieces /\ marker.gid \in Pieces /\ marker.id \in Pieces
        /\ {"guest", "credentials=/etc/nasmount/", ",nosuid,nodev,forceuid,forcegid,uid=", ",gid=", ",nounix"} \subseteq Pieces
    BY TextAssumption DEF Literals
  <1>2. <<"guest">> \in Text /\ <<"credentials=/etc/nasmount/", marker.id>> \in Text
    BY <1>1, Short
  <1>3. <<",nosuid,nodev,forceuid,forcegid,uid=", marker.uid, ",gid=", marker.gid, ",nounix">> \in Text
    <2>1. \A a, b, c, d, e \in Pieces : <<a, b, c, d, e>> \in Seq(Pieces)
      OBVIOUS
    <2>2. PICK a \in Pieces, b \in Pieces, c \in Pieces, d \in Pieces, e \in Pieces :
              /\ a = ",nosuid,nodev,forceuid,forcegid,uid=" /\ b = marker.uid /\ c = ",gid="
              /\ d = marker.gid /\ e = ",nounix"
      BY <1>1
    <2> QED
      BY <2>1, <2>2, Zenon DEF Text
  <1>4. \A a, b \in Text : a \o b \in Text
    BY DEF Text
  <1> QED
    BY <1>2, <1>3, <1>4 DEF MountOptions

\* They begin and end in a literal.
LEMMA OptionsTrimmed ==
    ASSUME NEW marker, marker.uid \in Digits, marker.gid \in Digits, marker.id \in Ids
    PROVE  /\ Trimmed(MountOptions(marker))
           /\ Last(MountOptions(marker)) = ",nounix"
  <1>1. /\ marker.uid \in Pieces /\ marker.gid \in Pieces /\ marker.id \in Pieces
        /\ {"guest", "credentials=/etc/nasmount/", ",nosuid,nodev,forceuid,forcegid,uid=", ",gid=", ",nounix"} \subseteq Pieces
    BY TextAssumption DEF Literals
  <1>2. PICK h \in Text : h = IF marker.auth = "guest" THEN <<"guest">> ELSE <<"credentials=/etc/nasmount/", marker.id>>
    BY <1>1, Short
  <1>3. PICK a \in Pieces, b \in Pieces, c \in Pieces, d \in Pieces, e \in Pieces :
            /\ a = ",nosuid,nodev,forceuid,forcegid,uid=" /\ b = marker.uid /\ c = ",gid="
            /\ d = marker.gid /\ e = ",nounix"
    BY <1>1
  <1>4. PICK t \in Text : t = <<a, b, c, d, e>>
    <2>1. <<a, b, c, d, e>> \in Seq(Pieces)
      OBVIOUS
    <2> QED
      BY <2>1, Zenon DEF Text
  <1>5. Len(t) = 5 /\ t[5] = e
    BY <1>4
  <1>6. Len(h) \in Nat /\ 1 \in 1..Len(h) /\ h[1] # "space"
    BY <1>2
  <1>7. /\ Len(h \o t) = Len(h) + 5 /\ (h \o t)[Len(h) + 5] = t[5] /\ (h \o t)[1] = h[1]
    <2>1. /\ Len(h \o t) = Len(h) + Len(t)
          /\ \A i \in 1..(Len(h) + Len(t)) : (h \o t)[i] = IF i <= Len(h) THEN h[i] ELSE t[i - Len(h)]
      BY ConcatProperties DEF Text
    <2>2. /\ Len(h) + 5 \in 1..(Len(h) + 5) /\ ~(Len(h) + 5 <= Len(h)) /\ (Len(h) + 5) - Len(h) = 5
          /\ 1 \in 1..(Len(h) + 5) /\ 1 <= Len(h)
      BY <1>6
    <2> QED
      BY <1>5, <2>1, <2>2
  <1>8. /\ h \o t # <<>> /\ Last(h \o t) = e /\ (h \o t)[1] # "space"
    <2>1. Len(h \o t) # 0
      BY <1>6, <1>7
    <2> QED
      BY <1>5, <1>6, <1>7, <2>1 DEF Last
  <1>9. MountOptions(marker) = h \o t
    BY <1>2, <1>3, <1>4, Zenon DEF MountOptions
  <1> QED
    BY <1>3, <1>8, <1>9 DEF Trimmed

-------------------------------------------------------------------------------
(* What is trusted is the template.                                        *)

\* A UNC without its trailing slashes: up to the last piece that is none.
LEMMA Trailing ==
    ASSUME NEW unc \in Text
    PROVE  \E n \in 0..Len(unc) :
              /\ n = 0 \/ unc[n] # "/"
              /\ \A k \in 1..Len(unc) : unc[k] # "/" => k <= n
              /\ Normalised(unc) = SubSeq(unc, 1, n)
  <1> DEFINE kept == {n \in 0..Len(unc) : n = 0 \/ unc[n] # "/"}
  <1>1. Len(unc) \in Nat /\ 0 \in kept
    BY PlainlyJoins
  <1>2. PICK m : m \in kept /\ \A k \in kept : k <= m
    <2> DEFINE down == {Len(unc) - k : k \in kept}
    <2>1. down \in SUBSET Nat /\ down # {}
      BY <1>1
    <2>2. PICK d \in down : \A e \in down : ~(e < d)
      <3> HIDE DEF down
      <3> QED
        BY <2>1, Least
    <2>3. PICK m \in kept : d = Len(unc) - m
      OBVIOUS
    <2>4. ASSUME NEW k \in kept PROVE k <= m
      <3>1. ~(Len(unc) - k < Len(unc) - m)
        BY <2>2, <2>3
      <3> QED
        BY <1>1, <3>1
    <2> QED
      BY <2>4
  <1>3. PICK n : n = CHOOSE x \in kept : \A k \in kept : k <= x
    OBVIOUS
  <1>4. n \in kept /\ \A k \in kept : k <= n
    <2> HIDE DEF kept
    <2> QED
      BY <1>2, <1>3
  <1>5. Normalised(unc) = SubSeq(unc, 1, n)
    BY <1>3, Zenon DEF Normalised
  <1>6. n \in 0..Len(unc) /\ (n = 0 \/ unc[n] # "/") /\ \A k \in 1..Len(unc) : unc[k] # "/" => k <= n
    BY <1>1, <1>4
  <1> QED
    BY <1>5, <1>6

\* A valid mount half that systemd sees as the validators do.
LEMMA MountTemplate ==
    ASSUME NEW file \in Seq(Lines), ~IndentedHeader(file), MarkerParses(file),
           NEW where, Encodable(where), ValidMountBody(file, ParsedMarker(file), where)
    PROVE  /\ \/ Expandable(InMount(file, "What")) \/ Last(InMount(file, "What")) = "space"
              \/ Reads(file, "Mount", "What") = WhatOf(file)
           /\ Expandable(InMount(file, "Where")) \/ Reads(file, "Mount", "Where") = where
           /\ Reads(file, "Mount", "Type") = <<"cifs">>
           /\ Reads(file, "Mount", "Options") = MountOptions(ParsedMarker(file))
           /\ Reads(file, "Mount", "TimeoutSec") = <<"30">>
  <1>1. SectionParses(file, "Mount", MountKeys)
    BY DEF ValidMountBody
  <1>2. ASSUME NEW key \in {"What", "Where"}, ~Expandable(InMount(file, key)),
               Trimmed(Undoubled(InMount(file, key)))
        PROVE  Reads(file, "Mount", key) = Undoubled(InMount(file, key))
    <2>1. key \in MountKeys
      BY DEF MountKeys
    <2>2. PICK i \in Within(file, "Mount") : file[i].key = key
      BY <2>1 DEF ValidMountBody
    <2>3. InMount(file, key) = file[i].value
      BY <1>1, <2>2, InMountPlace
    <2>4. Reads(file, "Mount", key) = Expanded(Stripped(file[i].value))
      BY <1>1, <2>2, ReadsPlace
    <2>5. file[i].value \in Text
      BY LineAt DEF Within
    <2>6. PICK v \in Text : v = file[i].value
      BY <2>5
    <2>7. PICK u \in Text : u = Undoubled(v)
      BY <2>6, UndoubledText
    <2>8. Doubled(u) = v /\ Trimmed(u)
      BY <1>2, <2>3, <2>6, <2>7 DEF Expandable
    <2>9. Stripped(v) = v
      BY <2>8, DoubledTrimmed, StrippedWhole
    <2>10. Expanded(v) = u
      BY <2>8, ExpandedDoubled
    <2> QED
      BY <2>3, <2>4, <2>6, <2>7, <2>9, <2>10
  <1>7. ASSUME ~Expandable(InMount(file, "What")), Last(InMount(file, "What")) # "space"
        PROVE  Reads(file, "Mount", "What") = WhatOf(file)
    <2>1. PICK i \in Within(file, "Mount") : file[i].key = "What"
      BY DEF ValidMountBody, MountKeys
    <2>2. InMount(file, "What") = file[i].value /\ file[i].value \in Text
      BY <1>1, <2>1, InMountPlace, LineAt DEF Within
    <2>3. PICK v \in Text : v = InMount(file, "What")
      BY <2>2
    <2>4. PICK u \in Text : u = Undoubled(v)
      BY <2>3, UndoubledText
    <2>5. Doubled(u) = v /\ Last(v) # "space" /\ u = WhatOf(file)
      BY <1>7, <2>3, <2>4 DEF Expandable, WhatOf
    <2>6. u # <<>> /\ u[1] = "//host/share"
      <3>1. Normalised(u) # <<>> /\ Normalised(u)[1] = "//host/share"
        BY <2>5 DEF ValidMountBody, ValidUnc
      <3>2. PICK n \in 0..Len(u) : Normalised(u) = SubSeq(u, 1, n)
        BY Trailing
      <3>3. Len(u) \in Nat /\ Len(SubSeq(u, 1, n)) = n /\ n # 0 /\ (n \in Nat \ {0} => SubSeq(u, 1, n)[1] = u[1])
        <4>1. Len(u) \in Nat /\ n \in Nat
          BY DEF Text
        <4>2. Len(SubSeq(u, 1, n)) = n /\ (n \in Nat \ {0} => SubSeq(u, 1, n)[1] = u[1])
          BY <4>1 DEF Text
        <4>3. n # 0
          BY <3>1, <3>2, <4>1, <4>2
        <4> QED
          BY <4>1, <4>2, <4>3
      <3>4. n \in Nat \ {0} /\ Len(u) # 0
        BY <3>3
      <3> QED
        BY <3>1, <3>2, <3>3, <3>4
    <2>7. Trimmed(u)
      <3>1. Last(v) = Last(u)
        BY <2>5, <2>6, DoubledEnds
      <3> QED
        BY <2>5, <2>6, <3>1 DEF Trimmed
    <2> QED
      BY <1>2, <1>7, <2>3, <2>4, <2>5, <2>7
  <1>8. ASSUME ~Expandable(InMount(file, "Where"))
        PROVE  Reads(file, "Mount", "Where") = where
    <2>1. Undoubled(InMount(file, "Where")) = where /\ Trimmed(where)
      BY EncodableTrimmed DEF ValidMountBody
    <2> QED
      BY <1>2, <1>8, <2>1
  <1>3. "cifs" \in Pieces /\ "30" \in Pieces
    BY TextAssumption DEF Literals
  <1>4. Reads(file, "Mount", "Type") = <<"cifs">>
    <2>1. Assigns(file, "Mount", "Type", <<"cifs">>)
      BY DEF ValidMountBody
    <2> QED
      BY <1>1, <1>3, <2>1, ReadsOne
  <1>5. Reads(file, "Mount", "TimeoutSec") = <<"30">>
    <2>1. Assigns(file, "Mount", "TimeoutSec", <<"30">>)
      BY DEF ValidMountBody
    <2> QED
      BY <1>1, <1>3, <2>1, ReadsOne
  <1>6. Reads(file, "Mount", "Options") = MountOptions(ParsedMarker(file))
    <2>1. Assigns(file, "Mount", "Options", Doubled(MountOptions(ParsedMarker(file))))
      BY DEF ValidMountBody
    <2>2. MountOptions(ParsedMarker(file)) \in Text /\ Trimmed(MountOptions(ParsedMarker(file)))
      BY MarkerText, OptionsText, OptionsTrimmed
    <2> QED
      BY <1>1, <2>1, <2>2, ReadsDoubled
  <1> QED
    BY <1>4, <1>5, <1>6, <1>7, <1>8

\* A valid automount half.
LEMMA AutomountTemplate ==
    ASSUME NEW file \in Seq(Lines), ~IndentedHeader(file), NEW where \in Text, ValidAutomountBody(file, where)
    PROVE  /\ Reads(file, "Automount", "Where") = where
           /\ Reads(file, "Unit", "ConditionPathIsDirectory") = where
           /\ Reads(file, "Automount", "TimeoutIdleSec") = <<"60">>
           /\ Reads(file, "Automount", "DirectoryMode") = <<"0700">>
  <1>1. /\ SectionParses(file, "Automount", AutomountKeys)
        /\ SectionParses(file, "Unit", {"Description", "ConditionPathIsDirectory"})
        /\ Assigns(file, "Automount", "Where", Doubled(where))
        /\ Assigns(file, "Unit", "ConditionPathIsDirectory", Doubled(where))
        /\ Assigns(file, "Automount", "TimeoutIdleSec", <<"60">>)
        /\ Assigns(file, "Automount", "DirectoryMode", <<"0700">>)
    BY DEF ValidAutomountBody
  <1>2. "60" \in Pieces /\ "0700" \in Pieces /\ Trimmed(where)
    BY TextAssumption, EncodableTrimmed DEF Literals, ValidAutomountBody
  <1>3. Reads(file, "Automount", "Where") = where
    BY <1>1, <1>2, ReadsDoubled
  <1>4. Reads(file, "Unit", "ConditionPathIsDirectory") = where
    BY <1>1, <1>2, ReadsDoubled
  <1>5. Reads(file, "Automount", "TimeoutIdleSec") = <<"60">>
    BY <1>1, <1>2, ReadsOne
  <1>6. Reads(file, "Automount", "DirectoryMode") = <<"0700">>
    BY <1>1, <1>2, ReadsOne
  <1> QED
    BY <1>3, <1>4, <1>5, <1>6

-------------------------------------------------------------------------------
(* What is trusted is listed.                                              *)

\* The scan of a valid mount half.
LEMMA MountScan ==
    ASSUME NEW file \in Seq(Lines), file # Missing, MarkerParses(file), ParsedMarker(file).uid = CallerUid,
           NEW where, ValidMountBody(file, ParsedMarker(file), where), OnlyInPlace(file, "Mount")
    PROVE  /\ Scannable(file) /\ Scanned(file) = [marker |-> ParsedMarker(file), where |-> where]
           /\ Undoubled(Extracted(file, "What")) = WhatOf(file)
  <1>1. SectionParses(file, "Mount", MountKeys)
    BY DEF ValidMountBody
  <1>2. ASSUME NEW key \in {"What", "Where"}
        PROVE  AssignsOf(file, key) # {} /\ Extracted(file, key) = InMount(file, key)
    <2>1. key \in MountKeys
      BY DEF MountKeys
    <2>2. PICK i \in Within(file, "Mount") : file[i].key = key
      BY <2>1 DEF ValidMountBody
    <2>3. AssignsOf(file, file[i].key) \subseteq Within(file, "Mount")
      BY <2>2 DEF OnlyInPlace
    <2>4. AssignsOf(file, file[i].key) # {} /\ Extracted(file, file[i].key) = file[i].value
      BY <1>1, <2>3, ExtractedPlace
    <2>5. InMount(file, file[i].key) = file[i].value
      BY <1>1, InMountPlace
    <2> QED
      BY <2>2, <2>4, <2>5
  <1>3. Scannable(file)
    BY <1>2 DEF Scannable
  <1>4. Undoubled(Extracted(file, "Where")) = where
    BY <1>2 DEF ValidMountBody
  <1>5. Undoubled(Extracted(file, "What")) = WhatOf(file)
    BY <1>2 DEF WhatOf
  <1> QED
    BY <1>3, <1>4, <1>5 DEF Scanned

\* The scan of a valid automount half.
LEMMA AutomountScan ==
    ASSUME NEW file \in Seq(Lines), file # Missing, MarkerParses(file), ParsedMarker(file).uid = CallerUid,
           NEW where \in Text, ValidAutomountBody(file, where), OnlyInPlace(file, "Automount")
    PROVE  Scannable(file) /\ Scanned(file) = [marker |-> ParsedMarker(file), where |-> where]
  <1>1. SectionParses(file, "Automount", AutomountKeys)
    BY DEF ValidAutomountBody
  <1>2. PICK i \in Within(file, "Automount") : file[i].key = "Where" /\ file[i].value = Doubled(where)
    BY DEF ValidAutomountBody, Assigns
  <1>3. AssignsOf(file, file[i].key) \subseteq Within(file, "Automount")
    BY <1>2 DEF OnlyInPlace
  <1>4. AssignsOf(file, file[i].key) # {} /\ Extracted(file, file[i].key) = file[i].value
    BY <1>1, <1>3, ExtractedPlace
  <1>5. Undoubled(Extracted(file, "Where")) = where
    BY <1>2, <1>4, UndoubledDoubled
  <1>6. Scannable(file)
    BY <1>2, <1>4 DEF Scannable
  <1> QED
    BY <1>5, <1>6 DEF Scanned

\* One row from halves that agree.
LEMMA ListedRow ==
    ASSUME NEW half, {Scanned(f) : f \in {g \in {mountFile, autoFile} : Scannable(g)}} = {half}
    PROVE  Listed = [state  |-> IF Scannable(mountFile) /\ Scannable(autoFile) THEN "Pair" ELSE "Partial",
                     marker |-> half.marker, where |-> half.where,
                     what   |-> IF Scannable(mountFile) THEN Undoubled(Extracted(mountFile, "What")) ELSE <<>>]
  <1> DEFINE halves == {Scanned(f) : f \in {g \in {mountFile, autoFile} : Scannable(g)}}
             both == Scannable(mountFile) /\ Scannable(autoFile)
             what == IF Scannable(mountFile) THEN Undoubled(Extracted(mountFile, "What")) ELSE <<>>
             row(h) == [state |-> IF both THEN "Pair" ELSE "Partial",
                        marker |-> h.marker, where |-> h.where, what |-> what]
  <1>1. halves = {half}
    OBVIOUS
  <1>2. Listed = CASE halves = {} -> [state |-> "None"]
                   [] halves # {} /\ (\A g, h \in halves : g = h) -> row(CHOOSE h \in halves : TRUE)
                   [] OTHER -> [state |-> "Tampered"]
    BY Zenon DEF Listed
  <1>3. (CHOOSE h \in halves : TRUE) = half
    BY <1>1
  <1>4. halves # {} /\ (\A g, h \in halves : g = h)
    BY <1>1
  <1> HIDE DEF halves, row
  <1>5. Listed = row(half)
    BY <1>2, <1>3, <1>4
  <1> QED
    BY <1>5 DEF row

-------------------------------------------------------------------------------
(* Files are lines whatever is written and edited.                         *)

Marks == [uid : {CallerUid}, gid : Digits \ TooLarge, id : Ids, auth : {"credentials", "guest"}]

Files == Seq(Lines) \cup {Missing}

UnitTypes ==
    /\ mountFile \in Files /\ autoFile \in Files
    /\ asked \in [unc : Text, where : Text, marker : Marks]
    /\ edits \in Nat

\* The lines the code writes are lines.
LEMMA LineForms ==
    /\ \A key \in Words, value \in Text : Assign(key, value) \in Lines
    /\ \A key \in Words, c \in Pieces : Field(key, c) \in Lines
    /\ \A section \in Words : Header(section) \in Lines
    /\ Comment \in Lines /\ Blank \in Lines
  <1>1. \A kind \in Kinds, key \in Words, value \in Text : Line(kind, key, value) \in Lines
    BY DEF Line, Lines
  <1>2. "none" \in Words
    BY TextAssumption DEF Keys
  <1> QED
    BY <1>1, <1>2, Short DEF Assign, Field, Header, Comment, Blank, Kinds

\* So is the comment that holds the marker.
LEMMA MarkerLines == ASSUME NEW marker \in Marks PROVE MarkerComment(marker) \in Seq(Lines)
  <1>1. /\ marker.uid \in Pieces /\ marker.gid \in Pieces /\ marker.id \in Pieces /\ marker.auth \in Pieces
        /\ "1" \in Pieces /\ "system" \in Pieces
    BY TextAssumption DEF Marks, Literals
  <1>2. FieldKeys \subseteq Words
    BY TextAssumption DEF Keys
  <1>3. PICK a \in Lines, b \in Lines, c \in Lines, d \in Lines, e \in Lines, f \in Lines :
            /\ a = Field("Managed", "1") /\ b = Field("Owner-Uid", marker.uid)
            /\ c = Field("Owner-Gid", marker.gid) /\ d = Field("Id", marker.id)
            /\ e = Field("Mode", "system") /\ f = Field("Authentication", marker.auth)
    BY <1>1, <1>2, LineForms DEF FieldKeys
  <1>4. <<a, b, c, d, e, f>> \in Seq(Lines)
    OBVIOUS
  <1>5. MarkerComment(marker) = <<a, b, c, d, e, f>>
    BY <1>3, Zenon DEF MarkerComment
  <1> QED
    BY <1>4, <1>5

\* Files put together of lines.
LEMMA FilesJoin ==
    /\ \A f, g \in Seq(Lines) : f \o g \in Seq(Lines)
    /\ \A l \in Lines : <<l>> \in Seq(Lines)
  OBVIOUS

\* Three parts of a file, the first a line and the second the marker.
LEMMA ThreeParts ==
    ASSUME NEW x \in Seq(Lines), NEW m \in Seq(Lines), NEW t \in Seq(Lines), Len(x) = 1, Len(m) = 6
    PROVE  /\ x \o m \o t \in Seq(Lines) /\ Len(x \o m \o t) = 7 + Len(t)
           /\ (x \o m \o t)[1] = x[1]
           /\ \A i \in 1..6 : (x \o m \o t)[1 + i] = m[i]
           /\ \A i \in 1..Len(t) : (x \o m \o t)[7 + i] = t[i]
  <1>1. /\ x \o m \in Seq(Lines) /\ Len(x \o m) = Len(x) + Len(m)
        /\ \A i \in 1..(Len(x) + Len(m)) : (x \o m)[i] = IF i <= Len(x) THEN x[i] ELSE m[i - Len(x)]
    BY ConcatProperties
  <1>2. PICK y \in Seq(Lines) : y = x \o m
    BY <1>1
  <1>3. /\ Len(y) = 7 /\ y[1] = x[1] /\ \A i \in 1..6 : y[1 + i] = m[i]
    <2>1. 1 \in 1..7 /\ 1 <= 1 /\ \A i \in 1..6 : 1 + i \in 1..7 /\ ~(1 + i <= 1) /\ (1 + i) - 1 = i
      OBVIOUS
    <2> QED
      BY <1>1, <1>2, <2>1
  <1>4. /\ y \o t \in Seq(Lines) /\ Len(y \o t) = Len(y) + Len(t)
        /\ \A i \in 1..(Len(y) + Len(t)) : (y \o t)[i] = IF i <= Len(y) THEN y[i] ELSE t[i - Len(y)]
    BY ConcatProperties
  <1>5. PICK f : f = y \o t
    OBVIOUS
  <1>6. Len(t) \in Nat
    OBVIOUS
  <1>7. \A i \in 1..7 : f[i] = y[i]
    <2>1. \A i \in 1..7 : i \in 1..(7 + Len(t)) /\ i <= 7
      BY <1>6
    <2> QED
      BY <1>3, <1>4, <1>5, <2>1
  <1>8. \A i \in 1..Len(t) : f[7 + i] = t[i]
    <2>1. \A i \in 1..Len(t) : 7 + i \in 1..(7 + Len(t)) /\ ~(7 + i <= 7) /\ (7 + i) - 7 = i
      BY <1>6
    <2> QED
      BY <1>3, <1>4, <1>5, <2>1
  <1>9. f[1] = x[1] /\ \A i \in 1..6 : f[1 + i] = m[i]
    <2>1. 1 \in 1..7 /\ \A i \in 1..6 : 1 + i \in 1..7
      OBVIOUS
    <2> QED
      BY <1>3, <1>7, <2>1
  <1>10. f \in Seq(Lines) /\ Len(f) = 7 + Len(t)
    BY <1>3, <1>4, <1>5
  <1> QED
    BY <1>2, <1>5, <1>8, <1>9, <1>10

\* The lines of a marker.
Marked(file, marker) ==
    /\ file[1] = Comment
    /\ file[2] = Field("Managed", "1") /\ file[3] = Field("Owner-Uid", marker.uid)
    /\ file[4] = Field("Owner-Gid", marker.gid) /\ file[5] = Field("Id", marker.id)
    /\ file[6] = Field("Mode", "system") /\ file[7] = Field("Authentication", marker.auth)

\* A file that starts with a marker.
LEMMA MarkedFile ==
    ASSUME NEW marker \in Marks, NEW t \in Seq(Lines)
    PROVE  LET f == <<Comment>> \o MarkerComment(marker) \o t
           IN  /\ f \in Seq(Lines) /\ Len(f) = 7 + Len(t) /\ Marked(f, marker)
               /\ \A i \in 1..Len(t) : f[7 + i] = t[i]
  <1>1. PICK x \in Seq(Lines), m \in Seq(Lines) : x = <<Comment>> /\ m = MarkerComment(marker)
    BY MarkerLines, LineForms, FilesJoin
  <1>2. PICK a, b, c, d, e, f : /\ a = Field("Managed", "1") /\ b = Field("Owner-Uid", marker.uid)
                                /\ c = Field("Owner-Gid", marker.gid) /\ d = Field("Id", marker.id)
                                /\ e = Field("Mode", "system") /\ f = Field("Authentication", marker.auth)
    OBVIOUS
  <1>3. m = <<a, b, c, d, e, f>>
    BY <1>1, <1>2, Zenon DEF MarkerComment
  <1>4. Len(m) = 6 /\ m[1] = a /\ m[2] = b /\ m[3] = c /\ m[4] = d /\ m[5] = e /\ m[6] = f
    BY <1>3
  <1>5. Len(x) = 1 /\ x[1] = Comment
    BY <1>1
  <1>6. PICK g : g = x \o m \o t
    OBVIOUS
  <1>7. /\ g \in Seq(Lines) /\ Len(g) = 7 + Len(t) /\ g[1] = x[1]
        /\ \A i \in 1..6 : g[1 + i] = m[i]
        /\ \A i \in 1..Len(t) : g[7 + i] = t[i]
    <2>1. /\ x \o m \o t \in Seq(Lines) /\ Len(x \o m \o t) = 7 + Len(t)
          /\ (x \o m \o t)[1] = x[1]
          /\ \A i \in 1..6 : (x \o m \o t)[1 + i] = m[i]
          /\ \A i \in 1..Len(t) : (x \o m \o t)[7 + i] = t[i]
      BY <1>4, <1>5, ThreeParts
    <2> QED
      BY <1>6, <2>1, Zenon
  <1>8. g[2] = a /\ g[3] = b /\ g[4] = c /\ g[5] = d /\ g[6] = e /\ g[7] = f
    BY <1>4, <1>7
  <1>9. Marked(g, marker)
    BY <1>2, <1>5, <1>7, <1>8 DEF Marked
  <1>10. g = <<Comment>> \o MarkerComment(marker) \o t
    BY <1>1, <1>6
  <1> QED
    BY <1>7, <1>9, <1>10

\* The mount half, line by line.
LEMMA MountLayout ==
    ASSUME NEW marker \in Marks, NEW unc \in Text, NEW where \in Text,
           NEW f, f = MountUnit(marker, unc, where)
    PROVE  /\ f \in Seq(Lines) /\ Len(f) = 16 /\ Marked(f, marker)
           /\ f[8] = Header("Unit") /\ f[9] = Assign("Description", <<"nasmount">>)
           /\ f[10] = Blank /\ f[11] = Header("Mount")
           /\ f[12] = Assign("What", Doubled(unc)) /\ f[13] = Assign("Where", Doubled(where))
           /\ f[14] = Assign("Type", <<"cifs">>)
           /\ f[15] = Assign("Options", Doubled(MountOptions(marker)))
           /\ f[16] = Assign("TimeoutSec", <<"30">>)
  <1>1. PICK a, b, c, d, e, g, h, i, j :
            /\ a = Header("Unit") /\ b = Assign("Description", <<"nasmount">>)
            /\ c = Blank /\ d = Header("Mount")
            /\ e = Assign("What", Doubled(unc)) /\ g = Assign("Where", Doubled(where))
            /\ h = Assign("Type", <<"cifs">>)
            /\ i = Assign("Options", Doubled(MountOptions(marker)))
            /\ j = Assign("TimeoutSec", <<"30">>)
    OBVIOUS
  <1>2. <<a, b, c, d, e, g, h, i, j>> \in Seq(Lines)
    <2>1. MountOptions(marker) \in Text
      <3>1. marker.uid \in Digits /\ marker.gid \in Digits /\ marker.id \in Ids
        BY TextAssumption DEF Marks
      <3> QED
        BY <3>1, OptionsText
    <2>2. {"nasmount", "cifs", "30"} \subseteq Pieces
      BY TextAssumption DEF Literals
    <2>3. {"Unit", "Description", "Mount", "What", "Where", "Type", "Options", "TimeoutSec"} \subseteq Words
      BY TextAssumption DEF Keys, MountKeys
    <2>4. /\ a \in Lines /\ b \in Lines /\ c \in Lines /\ d \in Lines /\ e \in Lines /\ g \in Lines
          /\ h \in Lines /\ i \in Lines /\ j \in Lines
      BY <1>1, <2>1, <2>2, <2>3, LineForms, Short, DoubledText
    <2> QED
      BY <2>4
  <1>3. PICK t \in Seq(Lines) : t = <<a, b, c, d, e, g, h, i, j>>
    BY <1>2
  <1>4. f = <<Comment>> \o MarkerComment(marker) \o t
    BY <1>1, <1>3, Zenon DEF MountUnit
  <1>5. Len(t) = 9 /\ t[1] = a /\ t[2] = b /\ t[3] = c /\ t[4] = d /\ t[5] = e
    BY <1>3
  <1>6. t[6] = g /\ t[7] = h /\ t[8] = i /\ t[9] = j
    BY <1>3
  <1>7. /\ f \in Seq(Lines) /\ Len(f) = 7 + Len(t) /\ Marked(f, marker)
        /\ \A k \in 1..Len(t) : f[7 + k] = t[k]
    BY <1>4, MarkedFile
  <1>8. f[8] = a /\ f[9] = b /\ f[10] = c /\ f[11] = d /\ f[12] = e
    BY <1>5, <1>7
  <1>9. f[13] = g /\ f[14] = h /\ f[15] = i /\ f[16] = j
    BY <1>5, <1>6, <1>7
  <1> QED
    BY <1>1, <1>5, <1>7, <1>8, <1>9

\* The automount half, line by line.
LEMMA AutomountLayout ==
    ASSUME NEW marker \in Marks, NEW where \in Text, NEW f, f = AutomountUnit(marker, where)
    PROVE  /\ f \in Seq(Lines) /\ Len(f) = 15 /\ Marked(f, marker)
           /\ f[8] = Header("Unit") /\ f[9] = Assign("Description", <<"nasmount">>)
           /\ f[10] = Assign("ConditionPathIsDirectory", Doubled(where)) /\ f[11] = Blank
           /\ f[12] = Header("Automount") /\ f[13] = Assign("Where", Doubled(where))
           /\ f[14] = Assign("TimeoutIdleSec", <<"60">>) /\ f[15] = Assign("DirectoryMode", <<"0700">>)
  <1>1. PICK a, b, c, d, e, g, h, i :
            /\ a = Header("Unit") /\ b = Assign("Description", <<"nasmount">>)
            /\ c = Assign("ConditionPathIsDirectory", Doubled(where)) /\ d = Blank
            /\ e = Header("Automount") /\ g = Assign("Where", Doubled(where))
            /\ h = Assign("TimeoutIdleSec", <<"60">>) /\ i = Assign("DirectoryMode", <<"0700">>)
    OBVIOUS
  <1>2. <<a, b, c, d, e, g, h, i>> \in Seq(Lines)
    <2>1. {"nasmount", "60", "0700"} \subseteq Pieces
      BY TextAssumption DEF Literals
    <2>2. {"Unit", "Description", "ConditionPathIsDirectory", "Automount", "Where", "TimeoutIdleSec",
           "DirectoryMode"} \subseteq Words
      BY TextAssumption DEF Keys, AutomountKeys
    <2>3. /\ a \in Lines /\ b \in Lines /\ c \in Lines /\ d \in Lines /\ e \in Lines /\ g \in Lines
          /\ h \in Lines /\ i \in Lines
      BY <1>1, <2>1, <2>2, LineForms, Short, DoubledText
    <2> QED
      BY <2>3
  <1>3. PICK t \in Seq(Lines) : t = <<a, b, c, d, e, g, h, i>>
    BY <1>2
  <1>4. f = <<Comment>> \o MarkerComment(marker) \o t
    BY <1>1, <1>3, Zenon DEF AutomountUnit
  <1>5. Len(t) = 8 /\ t[1] = a /\ t[2] = b /\ t[3] = c /\ t[4] = d /\ t[5] = e
    BY <1>3
  <1>6. t[6] = g /\ t[7] = h /\ t[8] = i
    BY <1>3
  <1>7. /\ f \in Seq(Lines) /\ Len(f) = 7 + Len(t) /\ Marked(f, marker)
        /\ \A k \in 1..Len(t) : f[7 + k] = t[k]
    BY <1>4, MarkedFile
  <1>8. f[8] = a /\ f[9] = b /\ f[10] = c /\ f[11] = d /\ f[12] = e
    BY <1>5, <1>7
  <1>9. f[13] = g /\ f[14] = h /\ f[15] = i
    BY <1>5, <1>6, <1>7
  <1> QED
    BY <1>1, <1>5, <1>7, <1>8, <1>9

\* A part of a file, and of a text.
LEMMA Parts ==
    /\ \A f \in Seq(Lines) : \A i \in 1..(Len(f) + 1), j \in 0..Len(f) : SubSeq(f, i, j) \in Seq(Lines)
    /\ \A t \in Text : \A n \in 0..Len(t) : SubSeq(t, 1, n) \in Text
  BY DEF Text

\* A UNC without its trailing slashes is text.
LEMMA NormalisedText == ASSUME NEW unc \in Text PROVE Normalised(unc) \in Text
  <1>1. PICK n \in 0..Len(unc) : Normalised(unc) = SubSeq(unc, 1, n)
    BY Trailing
  <1> QED
    BY <1>1, Parts

\* An edited file is lines, or none.
LEMMA EditedLines == ASSUME NEW file \in Files, file # Missing PROVE Edited(file) \subseteq Files
  <1>1. PICK f \in Seq(Lines) : f = file
    BY DEF Files
  <1>2. Deleted(f) \subseteq Seq(Lines)
    <2>1. ASSUME NEW i \in DOMAIN f PROVE SubSeq(f, 1, i - 1) \o SubSeq(f, i + 1, Len(f)) \in Seq(Lines)
      <3>1. i - 1 \in 0..Len(f) /\ i + 1 \in 1..(Len(f) + 1) /\ Len(f) \in 0..Len(f) /\ 1 \in 1..(Len(f) + 1)
        OBVIOUS
      <3>2. SubSeq(f, 1, i - 1) \in Seq(Lines) /\ SubSeq(f, i + 1, Len(f)) \in Seq(Lines)
        BY <3>1, Parts
      <3> QED
        BY <3>2, FilesJoin
    <2> QED
      BY <2>1 DEF Deleted
  <1>3. ASSUME NEW block \in EditBlocks
        PROVE  Inserted(f, block) \subseteq Seq(Lines) /\ Revalued(f, Last(block)) \subseteq Seq(Lines)
    <2>1. PICK b \in Seq(Lines) : b = block /\ b # <<>>
      BY TextAssumption
    <2>2. Last(b) \in Lines
      BY <2>1 DEF Last
    <2>3. ASSUME NEW i \in 0..Len(f) PROVE SubSeq(f, 1, i) \o b \o SubSeq(f, i + 1, Len(f)) \in Seq(Lines)
      <3>1. i + 1 \in 1..(Len(f) + 1) /\ Len(f) \in 0..Len(f) /\ 1 \in 1..(Len(f) + 1)
        OBVIOUS
      <3>2. SubSeq(f, 1, i) \in Seq(Lines) /\ SubSeq(f, i + 1, Len(f)) \in Seq(Lines)
        BY <3>1, Parts
      <3> QED
        BY <3>2, FilesJoin
    <2>4. ASSUME NEW line \in Lines, NEW i \in DOMAIN f PROVE [f EXCEPT ![i] = line] \in Seq(Lines)
      OBVIOUS
    <2>5. Inserted(f, b) \subseteq Seq(Lines)
      BY <2>3 DEF Inserted
    <2>6. Revalued(f, Last(b)) \subseteq Seq(Lines)
      BY <2>2, <2>4 DEF Revalued
    <2> QED
      BY <2>1, <2>5, <2>6
  <1>4. Edited(f) \subseteq Seq(Lines) \cup {Missing}
    BY <1>2, <1>3 DEF Edited
  <1> QED
    BY <1>1, <1>4 DEF Files

\* Every step keeps the files what they are.
LEMMA TypesKept == ASSUME UnitTypes, [Next]_vars PROVE UnitTypes'
  <1>1. CASE WritePair
    <2>1. PICK ask \in Asks :
              /\ asked' = [ask EXCEPT !.unc = Normalised(ask.unc)]
              /\ mountFile' = MountUnit(ask.marker, Normalised(ask.unc), ask.where)
              /\ autoFile' = AutomountUnit(ask.marker, ask.where)
              /\ edits' = 0
      BY <1>1 DEF WritePair
    <2>2. ask \in [unc : Text, where : Text, marker : Marks]
      BY TextAssumption DEF Marks
    <2>3. Normalised(ask.unc) \in Text
      BY <2>2, NormalisedText
    <2>4. mountFile' \in Files
      BY <2>1, <2>2, <2>3, MountLayout DEF Files
    <2>5. autoFile' \in Files
      BY <2>1, <2>2, AutomountLayout DEF Files
    <2>6. asked' \in [unc : Text, where : Text, marker : Marks]
      BY <2>1, <2>2, <2>3
    <2> QED
      BY <2>1, <2>4, <2>5, <2>6 DEF UnitTypes
  <1>2. CASE Edit
    <2>1. /\ mountFile \in Files /\ autoFile \in Files
          /\ asked' = asked /\ edits' = edits + 1 /\ edits \in Nat
      BY <1>2 DEF Edit, UnitTypes
    <2>2. mountFile' \in Files /\ autoFile' \in Files
      <3>1. CASE mountFile # Missing /\ mountFile' \in Edited(mountFile) /\ UNCHANGED autoFile
        BY <2>1, <3>1, EditedLines
      <3>2. CASE autoFile # Missing /\ autoFile' \in Edited(autoFile) /\ UNCHANGED mountFile
        BY <2>1, <3>2, EditedLines
      <3> QED
        BY <1>2, <3>1, <3>2 DEF Edit
    <2> QED
      BY <2>1, <2>2 DEF UnitTypes
  <1>3. CASE Discard
    BY <1>3 DEF Discard, UnitTypes, Files
  <1>4. CASE UNCHANGED vars
    BY <1>4 DEF vars, UnitTypes
  <1> QED
    BY <1>1, <1>2, <1>3, <1>4 DEF Next

\* The files are lines of text throughout.
LEMMA TypesHold == Spec => []UnitTypes
  <1>1. Init => UnitTypes
    BY TextAssumption DEF Init, UnitTypes, Files, Marks
  <1>2. UnitTypes /\ [Next]_vars => UnitTypes'
    BY TypesKept
  <1> QED
    BY <1>1, <1>2, PTL DEF Spec

-------------------------------------------------------------------------------
(* What is trusted.                                                        *)

\* A definition was written for a mount point that a unit file can hold.
WhereStands == mountFile # Missing \/ autoFile # Missing => Encodable(asked.where)

\* Every step keeps that.
LEMMA WhereKept == ASSUME WhereStands, [Next]_vars PROVE WhereStands'
  <1>1. CASE WritePair
    <2>1. PICK ask \in Asks : Encodable(ask.where) /\ asked' = [ask EXCEPT !.unc = Normalised(ask.unc)]
      BY <1>1 DEF WritePair, Buildable
    <2>2. ask \in [unc : Text, where : Text, marker : Marks]
      BY TextAssumption DEF Marks
    <2>3. asked'.where = ask.where
      BY <2>1, <2>2
    <2> QED
      BY <2>1, <2>3 DEF WhereStands
  <1>2. CASE Edit
    BY <1>2 DEF Edit, WhereStands
  <1>3. CASE Discard
    BY <1>3 DEF Discard, WhereStands
  <1>4. CASE UNCHANGED vars
    BY <1>4 DEF vars, WhereStands
  <1> QED
    BY <1>1, <1>2, <1>3, <1>4 DEF Next

\* A definition of lines that is trusted is the template.
LEMMA TemplateHolds == ASSUME UnitTypes, WhereStands PROVE TrustedIsTemplate
  <1> SUFFICES ASSUME Trusted PROVE TrustedIsTemplate
    BY DEF TrustedIsTemplate
  <1>1. ASSUME mountFile # Missing, ~IndentedHeader(mountFile)
        PROVE  /\ \/ Expandable(InMount(mountFile, "What"))
                  \/ Last(InMount(mountFile, "What")) = "space"
                  \/ Reads(mountFile, "Mount", "What") = TrustedWhat
               /\ \/ Expandable(InMount(mountFile, "Where"))
                  \/ Reads(mountFile, "Mount", "Where") = asked.where
               /\ Reads(mountFile, "Mount", "Type") = <<"cifs">>
               /\ Reads(mountFile, "Mount", "Options") = MountOptions(TrustedMarker)
               /\ Reads(mountFile, "Mount", "TimeoutSec") = <<"30">>
    <2>1. mountFile \in Seq(Lines) /\ Encodable(asked.where)
      BY <1>1 DEF UnitTypes, Files, WhereStands
    <2>2. MarkerParses(mountFile) /\ ValidMountBody(mountFile, ParsedMarker(mountFile), asked.where)
      BY <1>1, TrustedHalves DEF TrustedMount
    <2>3. TrustedMarker = ParsedMarker(mountFile) /\ TrustedWhat = WhatOf(mountFile)
      BY <1>1 DEF TrustedMarker, TrustedWhat
    <2> QED
      BY <1>1, <2>1, <2>2, <2>3, MountTemplate
  <1>2. ASSUME autoFile # Missing, ~IndentedHeader(autoFile)
        PROVE  /\ Reads(autoFile, "Automount", "Where") = asked.where
               /\ Reads(autoFile, "Unit", "ConditionPathIsDirectory") = asked.where
               /\ Reads(autoFile, "Automount", "TimeoutIdleSec") = <<"60">>
               /\ Reads(autoFile, "Automount", "DirectoryMode") = <<"0700">>
    <2>1. autoFile \in Seq(Lines) /\ asked.where \in Text
      BY <1>2 DEF UnitTypes, Files
    <2>2. ValidAutomountBody(autoFile, asked.where)
      BY <1>2, TrustedHalves DEF TrustedAutomount
    <2> QED
      BY <1>2, <2>1, <2>2, AutomountTemplate
  <1> QED
    BY <1>1, <1>2 DEF TrustedIsTemplate

\* Whatever was written and edited, a definition that the validators trust is
\* the template for systemd as well, but for the three edits the property names.
THEOREM TrustedMeansTemplate == Spec => []TrustedIsTemplate
  <1>1. Init => WhereStands
    BY DEF Init, WhereStands
  <1>2. WhereStands /\ [Next]_vars => WhereStands'
    BY WhereKept
  <1>3. UnitTypes /\ WhereStands => TrustedIsTemplate
    BY TemplateHolds
  <1> QED
    BY <1>1, <1>2, <1>3, TypesHold, PTL DEF Spec

\* A definition of lines that is trusted is listed as it is.
LEMMA ListingHolds == ASSUME UnitTypes PROVE TrustedIsListed
  <1> SUFFICES ASSUME Trusted, OnlyInPlace(mountFile, "Mount"), OnlyInPlace(autoFile, "Automount")
               PROVE  Listed = [state |-> Verdict(asked.where), marker |-> TrustedMarker,
                                where |-> asked.where, what |-> TrustedWhat]
    BY DEF TrustedIsListed
  <1> DEFINE halves == {Scanned(f) : f \in {g \in {mountFile, autoFile} : Scannable(g)}}
             half == [marker |-> TrustedMarker, where |-> asked.where]
  <1>0. ~Scannable(Missing)
    BY DEF Scannable
  <1>1. ASSUME mountFile # Missing
        PROVE  /\ Scannable(mountFile) /\ Scanned(mountFile) = half
               /\ TrustedWhat = Undoubled(Extracted(mountFile, "What"))
    <2>1. mountFile \in Seq(Lines)
      BY <1>1 DEF UnitTypes, Files
    <2>2. TrustedMount
      BY <1>1, TrustedHalves
    <2>3. /\ Scannable(mountFile) /\ Undoubled(Extracted(mountFile, "What")) = WhatOf(mountFile)
          /\ Scanned(mountFile) = [marker |-> ParsedMarker(mountFile), where |-> asked.where]
      BY <1>1, <2>1, <2>2, MountScan DEF TrustedMount
    <2> QED
      BY <1>1, <2>3 DEF TrustedMarker, TrustedWhat
  <1>2. ASSUME autoFile # Missing PROVE Scannable(autoFile) /\ Scanned(autoFile) = half
    <2>1. autoFile \in Seq(Lines) /\ asked.where \in Text
      BY <1>2 DEF UnitTypes, Files
    <2>2. TrustedAutomount
      BY <1>2, TrustedHalves
    <2>3. /\ Scannable(autoFile)
          /\ Scanned(autoFile) = [marker |-> ParsedMarker(autoFile), where |-> asked.where]
      BY <1>2, <2>1, <2>2, AutomountScan DEF TrustedAutomount
    <2>4. TrustedMarker = ParsedMarker(autoFile)
      BY <1>2, TrustedHalves DEF TrustedMarker
    <2> QED
      BY <2>3, <2>4
  <1>3. mountFile = Missing => TrustedWhat = <<>>
    BY DEF TrustedWhat
  <1>4. PICK h : h = half
    OBVIOUS
  <1>5. halves = {h}
    <2> HIDE DEF half
    <2> QED
      BY <1>0, <1>1, <1>2, <1>4, TrustedHalves
  <1>6. Listed = [state  |-> IF Scannable(mountFile) /\ Scannable(autoFile) THEN "Pair" ELSE "Partial",
                  marker |-> h.marker, where |-> h.where,
                  what   |-> IF Scannable(mountFile) THEN Undoubled(Extracted(mountFile, "What")) ELSE <<>>]
    BY <1>5, ListedRow
  <1>7. h.marker = TrustedMarker /\ h.where = asked.where
    BY <1>4
  <1>8. (IF Scannable(mountFile) /\ Scannable(autoFile) THEN "Pair" ELSE "Partial") = Verdict(asked.where)
    BY <1>0, <1>1, <1>2, TrustedHalves
  <1>9. (IF Scannable(mountFile) THEN Undoubled(Extracted(mountFile, "What")) ELSE <<>>) = TrustedWhat
    BY <1>0, <1>1, <1>3
  <1> QED
    BY <1>6, <1>7, <1>8, <1>9

\* What the validators trust is what the scan of the directory lists, in any
\* state that writing, editing and removing the files leads to.
THEOREM TrustedMeansListed == Spec => []TrustedIsListed
  BY TypesHold, ListingHolds, PTL

-------------------------------------------------------------------------------
(* The fields of mountinfo.                                                *)

\* The characters that mountinfo escapes.
Specials == SUBSET {"space", "\\", "#"}

EscapedPiece(c, special) == IF c \in special THEN <<"\\", Escapes[c]>> ELSE <<c>>

EscapedPieces(text, special) == [i \in 1..Len(text) |-> EscapedPiece(text[i], special)]

\* Text is made of pieces.
LEMMA PieceIn == ASSUME NEW text \in Text PROVE Len(text) \in Nat /\ \A i \in 1..Len(text) : text[i] \in Pieces
  BY DEF Text

\* Escaped puts its pieces together.
LEMMA EscapedJoins ==
    ASSUME NEW text \in Text, NEW special \in Specials
    PROVE  /\ EscapedPieces(text, special) \in [1..Len(text) -> Text]
           /\ \E up : /\ Joined(up, Len(text), EscapedPieces(text, special))
                      /\ Escaped(text, special) = up[Len(text)]
  <1> DEFINE Eq(f) == f = [i \in 0..Len(text) |->
                             IF i = 0 THEN <<>>
                             ELSE f[i - 1] \o (IF text[i] \in special
                                               THEN <<"\\", Escapes[text[i]]>> ELSE <<text[i]>>)]
  <1>1. Len(text) \in Nat /\ \A i \in 1..Len(text) : text[i] \in Pieces
    BY PieceIn
  <1>2. EscapedPieces(text, special) \in [1..Len(text) -> Text]
    <2>1. ASSUME NEW c \in Pieces PROVE EscapedPiece(c, special) \in Text
      <3>1. CASE c \in special
        <4>1. Escapes[c] \in Pieces /\ "\\" \in Pieces
          BY <3>1, TextAssumption DEF Escapes, Literals, Specials
        <4> QED
          BY <3>1, <4>1, Short DEF EscapedPiece
      <3>2. CASE c \notin special
        BY <3>2, Short DEF EscapedPiece
      <3> QED
        BY <3>1, <3>2
    <2> QED
      BY <1>1, <2>1 DEF EscapedPieces
  <1>3. ASSUME NEW f PROVE Eq(f) <=> Joined(f, Len(text), EscapedPieces(text, special))
    <2>0. \A i \in 1..Len(text) : EscapedPieces(text, special)[i] =
              IF text[i] \in special THEN <<"\\", Escapes[text[i]]>> ELSE <<text[i]>>
      BY <1>1 DEF EscapedPieces, EscapedPiece
    <2>1. ASSUME Joined(f, Len(text), EscapedPieces(text, special)) PROVE Eq(f)
      <3>1. f \in [0..Len(text) -> Text] /\ f[0] = <<>>
        BY <2>1 DEF Joined
      <3>2. \A i \in 1..Len(text) : f[i] = f[i - 1] \o EscapedPieces(text, special)[i]
        BY <2>1 DEF Joined
      <3>3. ASSUME NEW i \in 0..Len(text)
            PROVE  f[i] = IF i = 0 THEN <<>>
                          ELSE f[i - 1] \o (IF text[i] \in special
                                            THEN <<"\\", Escapes[text[i]]>> ELSE <<text[i]>>)
        <4>1. i # 0 => i \in 1..Len(text)
          BY <1>1
        <4> QED
          BY <2>0, <3>1, <3>2, <4>1
      <3> QED
        BY <3>1, <3>3
    <2>2. ASSUME Eq(f) PROVE Joined(f, Len(text), EscapedPieces(text, special))
      <3>1. f = [i \in 0..Len(text) |-> IF i = 0 THEN <<>> ELSE f[i - 1] \o EscapedPieces(text, special)[i]]
        <4>0. PICK n \in Nat : n = Len(text)
          BY <1>1
        <4>1. \A i \in 0..Len(text) : i # 0 => i \in 1..Len(text)
          BY <4>0
        <4> QED
          BY <2>0, <2>2, <4>1
      <3> QED
        BY <1>1, <1>2, <3>1, JoinedIs
    <2> QED
      BY <2>1, <2>2
  <1> HIDE DEF Eq
  <1>4. \E f : Eq(f)
    BY <1>1, <1>2, <1>3, JoinedExists
  <1>5. Joined(CHOOSE f : Eq(f), Len(text), EscapedPieces(text, special))
    BY <1>3, <1>4
  <1>6. Escaped(text, special) = (CHOOSE f : Eq(f))[Len(text)]
    BY Zenon DEF Escaped, Eq
  <1> QED
    BY <1>2, <1>5, <1>6

\* What takes a backslash and "code" for the piece "by", and all else as it is.
Decodes(from, D, code, by) ==
    /\ from \in [1..(Len(D) + 2) -> Text] /\ from[Len(D) + 1] = <<>>
    /\ \A i \in 1..Len(D) :
           IF i < Len(D) /\ D[i] = "\\" /\ D[i + 1] = code
           THEN from[i] = <<by>> \o from[i + 2] ELSE from[i] = <<D[i]>> \o from[i + 1]

\* Replaced does.
LEMMA ReplacedDecodes ==
    ASSUME NEW text \in Text, NEW code, NEW by \in Pieces
    PROVE  \E from : Decodes(from, text, code, by) /\ Replaced(text, <<"\\", code>>, by) = from[1]
  <1> DEFINE bys == [i \in 1..Len(text) |-> <<by>>]
  <1>1. Len(text) \in Nat
    BY PlainlyJoins
  <1>2. PICK from : /\ Rest(from, Len(text), Pairs(text, <<"\\", code>>), bys, Plainly(text))
                    /\ Replaced(text, <<"\\", code>>, by) = from[1]
    BY ReplacedTakes
  <1>3. from \in [1..(Len(text) + 2) -> Text] /\ from[Len(text) + 1] = <<>>
    <2>1. Len(text) + 1 \in 1..(Len(text) + 2) /\ Len(text) + 1 > Len(text)
      BY <1>1
    <2> QED
      BY <1>2, <2>1 DEF Rest
  <1>4. ASSUME NEW i \in 1..Len(text)
        PROVE  IF i < Len(text) /\ text[i] = "\\" /\ text[i + 1] = code
               THEN from[i] = <<by>> \o from[i + 2] ELSE from[i] = <<text[i]>> \o from[i + 1]
    <2>1. i \in 1..(Len(text) + 2) /\ ~(i > Len(text)) /\ bys[i] = <<by>>
      BY <1>1
    <2> HIDE DEF bys
    <2>2. from[i] = IF i < Len(text) /\ <<text[i], text[i + 1]>> = <<"\\", code>>
                    THEN <<by>> \o from[i + 2] ELSE <<text[i]>> \o from[i + 1]
      BY <1>2, <2>1 DEF Rest, Pairs, Plainly
    <2>3. <<text[i], text[i + 1]>> = <<"\\", code>> <=> text[i] = "\\" /\ text[i + 1] = code
      OBVIOUS
    <2> QED
      BY <2>2, <2>3
  <1> QED
    BY <1>2, <1>3, <1>4 DEF Decodes

\* What is left of a piece when the blanks are back.
BlankPiece(c) == IF c = "\\" THEN <<"\\", "134">> ELSE <<c>>

BlankPieces(text) == [i \in 1..Len(text) |-> BlankPiece(text[i])]

\* That the piece is escaped if it is a blank or a backslash.
Blanks(c, special) == c \in special <=> c \in {"space", "\\"}

\* Blanks come back, and an escaped backslash is left alone.
LEMMA BlankStep ==
    ASSUME NEW from, NEW D, Decodes(from, D, "040", "space"), NEW a, NEW b, NEW d, StandsAt(D, a, b, d),
           NEW special, NEW c, Blanks(c, special), d = EscapedPiece(c, special)
    PROVE  from[a + 1] = BlankPiece(c) \o from[b + 1]
  <1>1. /\ b = a + Len(d) /\ b <= Len(D) /\ a \in Nat /\ Len(D) \in Nat
        /\ \A j \in 1..Len(d) : D[a + j] = d[j]
    BY DEF StandsAt
  <1>2. Decodes(from, D, "040", "space")
    OBVIOUS
  <1>3. CASE c = "space"
    <2>1. d = <<"\\", "040">>
      BY <1>3 DEF Blanks, EscapedPiece, Escapes
    <2>2. Len(d) = 2 /\ d[1] = "\\" /\ d[2] = "040"
      BY <2>1
    <2>3. b = a + 2 /\ D[a + 1] = "\\" /\ D[a + 2] = "040"
      BY <1>1, <2>2
    <2>4. a + 1 \in 1..Len(D) /\ a + 1 < Len(D) /\ (a + 1) + 1 = a + 2 /\ (a + 1) + 2 = (a + 2) + 1
      BY <1>1, <2>3
    <2>5. from[a + 1] = <<"space">> \o from[(a + 2) + 1]
      BY <1>2, <2>3, <2>4 DEF Decodes
    <2>6. BlankPiece(c) = <<"space">>
      BY <1>3 DEF BlankPiece
    <2> QED
      BY <2>3, <2>5, <2>6
  <1>4. CASE c = "\\"
    <2>1. d = <<"\\", "134">>
      BY <1>4 DEF Blanks, EscapedPiece, Escapes
    <2>2. Len(d) = 2 /\ d[1] = "\\" /\ d[2] = "134"
      BY <2>1
    <2>3. b = a + 2 /\ D[a + 1] = "\\" /\ D[a + 2] = "134"
      BY <1>1, <2>2
    <2>4. /\ a + 1 \in 1..Len(D) /\ a + 2 \in 1..Len(D) /\ (a + 1) + 1 = a + 2 /\ b + 1 = (a + 2) + 1
          /\ b + 1 \in 1..(Len(D) + 2)
      BY <1>1, <2>3
    <2>5. from[a + 1] = <<"\\">> \o from[a + 2]
      BY <1>2, <2>3, <2>4 DEF Decodes
    <2>6. from[a + 2] = <<"134">> \o from[b + 1]
      BY <1>2, <2>3, <2>4 DEF Decodes
    <2>7. PICK x \in Text, y \in Text, z \in Text : x = <<"\\">> /\ y = <<"134">> /\ z = from[b + 1]
      <3>1. "\\" \in Pieces /\ "134" \in Pieces
        BY TextAssumption DEF Literals
      <3>2. from[b + 1] \in Text
        BY <1>2, <2>4 DEF Decodes
      <3> QED
        BY <3>1, <3>2, Short
    <2>8. (x \o y) \o z = x \o (y \o z)
      BY Associative
    <2>9. x \o y = <<"\\", "134">>
      <3>1. "\\" \in Pieces /\ "134" \in Pieces
        BY TextAssumption DEF Literals
      <3> QED
        BY <2>7, <3>1, Beside, Zenon
    <2>10. BlankPiece(c) = <<"\\", "134">>
      BY <1>4 DEF BlankPiece
    <2> QED
      BY <2>5, <2>6, <2>7, <2>8, <2>9, <2>10, Zenon
  <1>5. CASE c # "space" /\ c # "\\"
    <2>1. d = <<c>> /\ BlankPiece(c) = <<c>>
      BY <1>5 DEF Blanks, EscapedPiece, BlankPiece
    <2>2. Len(d) = 1 /\ d[1] = c
      BY <2>1
    <2>3. b = a + 1 /\ D[a + 1] = c
      BY <1>1, <2>2
    <2>4. a + 1 \in 1..Len(D)
      BY <1>1, <2>3
    <2>5. from[a + 1] = <<c>> \o from[(a + 1) + 1]
      BY <1>2, <1>5, <2>3, <2>4 DEF Decodes
    <2> QED
      BY <2>1, <2>3, <2>5
  <1> QED
    BY <1>3, <1>4, <1>5

\* Then the backslashes.
LEMMA BackslashStep ==
    ASSUME NEW from, NEW D, Decodes(from, D, "134", "\\"), NEW a, NEW b, NEW d, StandsAt(D, a, b, d),
           NEW c, d = BlankPiece(c)
    PROVE  from[a + 1] = <<c>> \o from[b + 1]
  <1>1. /\ b = a + Len(d) /\ b <= Len(D) /\ a \in Nat /\ Len(D) \in Nat
        /\ \A j \in 1..Len(d) : D[a + j] = d[j]
    BY DEF StandsAt
  <1>2. Decodes(from, D, "134", "\\")
    OBVIOUS
  <1>3. CASE c = "\\"
    <2>1. d = <<"\\", "134">>
      BY <1>3 DEF BlankPiece
    <2>2. Len(d) = 2 /\ d[1] = "\\" /\ d[2] = "134"
      BY <2>1
    <2>3. b = a + 2 /\ D[a + 1] = "\\" /\ D[a + 2] = "134"
      BY <1>1, <2>2
    <2>4. a + 1 \in 1..Len(D) /\ a + 1 < Len(D) /\ (a + 1) + 1 = a + 2 /\ (a + 1) + 2 = (a + 2) + 1
      BY <1>1, <2>3
    <2>5. from[a + 1] = <<"\\">> \o from[(a + 2) + 1]
      BY <1>2, <2>3, <2>4 DEF Decodes
    <2> QED
      BY <1>3, <2>3, <2>5
  <1>4. CASE c # "\\"
    <2>1. d = <<c>>
      BY <1>4 DEF BlankPiece
    <2>2. Len(d) = 1 /\ d[1] = c
      BY <2>1
    <2>3. b = a + 1 /\ D[a + 1] = c
      BY <1>1, <2>2
    <2>4. a + 1 \in 1..Len(D)
      BY <1>1, <2>3
    <2>5. from[a + 1] = <<c>> \o from[(a + 1) + 1]
      BY <1>2, <1>4, <2>3, <2>4 DEF Decodes
    <2> QED
      BY <2>3, <2>5
  <1> QED
    BY <1>3, <1>4

\* A blank piece is text.
LEMMA BlankText == ASSUME NEW text \in Text PROVE BlankPieces(text) \in [1..Len(text) -> Text]
  <1>1. ASSUME NEW c \in Pieces PROVE BlankPiece(c) \in Text
    <2>1. "\\" \in Pieces /\ "134" \in Pieces
      BY TextAssumption DEF Literals
    <2> QED
      BY <2>1, Short DEF BlankPiece
  <1> QED
    BY <1>1, PieceIn DEF BlankPieces

\* What mountinfo escaped of a name the code unescapes, but for a "#".
LEMMA UnescapedEscaped ==
    ASSUME NEW text \in Text, NEW special \in Specials, \A i \in 1..Len(text) : Blanks(text[i], special)
    PROVE  Unescaped(Escaped(text, special)) = text
  <1>1. PICK n \in Nat : n = Len(text)
    BY PlainlyJoins
  <1>2. PICK p \in [1..n -> Text] : p = EscapedPieces(text, special)
    BY <1>1, EscapedJoins
  <1>3. PICK m \in [1..n -> Text] : m = BlankPieces(text)
    BY <1>1, BlankText
  <1>4. PICK q \in [1..n -> Text] : q = Plainly(text)
    BY <1>1, PlainlyJoins
  <1>5. PICK up : Joined(up, n, p) /\ Escaped(text, special) = up[n]
    BY <1>1, <1>2, EscapedJoins
  <1>6. PICK mp : Joined(mp, n, m)
    BY JoinedExists
  <1>7. PICK vp : Joined(vp, n, q) /\ vp[n] = text
    BY <1>1, <1>4, PlainlyJoins
  <1>8. PICK D \in Text, E \in Text : D = up[n] /\ E = mp[n]
    <2>1. n \in 0..n
      OBVIOUS
    <2> QED
      BY <1>5, <1>6, <2>1, JoinedText
  <1>9. "\\" \in Pieces /\ "space" \in Pieces
    BY TextAssumption DEF Literals
  <1>10. Replaced(D, <<"\\", "040">>, "space") = E
    <2>1. PICK from : Decodes(from, D, "040", "space") /\ Replaced(D, <<"\\", "040">>, "space") = from[1]
      BY <1>9, ReplacedDecodes
    <2>2. ASSUME NEW k \in 1..n PROVE from[Len(up[k - 1]) + 1] = m[k] \o from[Len(up[k]) + 1]
      <3>1. PICK c, a, b, d : c = text[k] /\ a = Len(up[k - 1]) /\ b = Len(up[k]) /\ d = p[k]
        OBVIOUS
      <3>2. m[k] = BlankPiece(c) /\ d = EscapedPiece(c, special) /\ Blanks(c, special)
        BY <1>1, <1>2, <1>3, <3>1 DEF BlankPieces, EscapedPieces
      <3>3. StandsAt(up[n], Len(up[k - 1]), Len(up[k]), p[k])
        BY <1>5, PieceAt
      <3>4. StandsAt(D, a, b, d)
        BY <1>8, <3>1, <3>3
      <3>5. from[a + 1] = BlankPiece(c) \o from[b + 1]
        BY <2>1, <3>2, <3>4, BlankStep
      <3> QED
        BY <3>1, <3>2, <3>5
    <2>3. Peels(from, n, up, m)
      BY <1>8, <2>1, <2>2 DEF Decodes, Peels
    <2>4. from[1] = mp[n]
      BY <1>5, <1>6, <2>3, Translate
    <2> QED
      BY <1>8, <2>1, <2>4
  <1>11. Replaced(E, <<"\\", "134">>, "\\") = text
    <2>1. PICK from : Decodes(from, E, "134", "\\") /\ Replaced(E, <<"\\", "134">>, "\\") = from[1]
      BY <1>9, ReplacedDecodes
    <2>2. ASSUME NEW k \in 1..n PROVE from[Len(mp[k - 1]) + 1] = q[k] \o from[Len(mp[k]) + 1]
      <3>1. PICK c, a, b, d : c = text[k] /\ a = Len(mp[k - 1]) /\ b = Len(mp[k]) /\ d = m[k]
        OBVIOUS
      <3>2. q[k] = <<c>> /\ d = BlankPiece(c)
        BY <1>1, <1>3, <1>4, <3>1 DEF BlankPieces, Plainly
      <3>3. StandsAt(mp[n], Len(mp[k - 1]), Len(mp[k]), m[k])
        BY <1>6, PieceAt
      <3>4. StandsAt(E, a, b, d)
        BY <1>8, <3>1, <3>3
      <3>5. from[a + 1] = <<c>> \o from[b + 1]
        BY <2>1, <3>2, <3>4, BackslashStep
      <3> QED
        BY <3>1, <3>2, <3>5
    <2>3. Peels(from, n, mp, q)
      BY <1>8, <2>1, <2>2 DEF Decodes, Peels
    <2>4. from[1] = vp[n]
      BY <1>6, <1>7, <2>3, Translate
    <2> QED
      BY <1>7, <2>1, <2>4
  <1> QED
    BY <1>5, <1>8, <1>10, <1>11 DEF Unescaped

-------------------------------------------------------------------------------
(* What the two bodies look like.                                          *)

\* Which header a line stands under.
LEMMA UnderHeader ==
    ASSUME NEW file \in Seq(Lines), NEW i \in DOMAIN file, NEW h \in 1..i, file[h].kind = "header",
           \A k \in 1..i : file[k].kind = "header" => k <= h
    PROVE  SectionAt(file, i, {"header"}) = file[h].key
  <1> DEFINE above == {k \in 1..i : file[k].kind \in {"header"}}
  <1>1. h \in above /\ \A k \in above : k <= h
    OBVIOUS
  <1>2. i \in Nat
    BY LineAt
  <1>3. (CHOOSE g \in above : \A k \in above : k <= g) = h
    <2> HIDE DEF above
    <2>1. PICK g : g = CHOOSE x \in above : \A k \in above : k <= x
      OBVIOUS
    <2>2. g \in above /\ \A k \in above : k <= g
      BY <1>1, <2>1
    <2>3. g <= h /\ h <= g /\ g \in Nat /\ h \in Nat
      BY <1>1, <1>2, <2>2 DEF above
    <2> QED
      BY <2>1, <2>3
  <1>4. above # {}
    BY <1>1
  <1> QED
    BY <1>3, <1>4 DEF SectionAt

\* And that none is above it.
LEMMA UnderNone ==
    ASSUME NEW file \in Seq(Lines), NEW i \in DOMAIN file, \A k \in 1..i : file[k].kind # "header"
    PROVE  SectionAt(file, i, {"header"}) = "none"
  <1>1. {k \in 1..i : file[k].kind \in {"header"}} = {}
    OBVIOUS
  <1> QED
    BY <1>1 DEF SectionAt

\* The lines of two sections.
LEMMA TwoSections ==
    ASSUME NEW file \in Seq(Lines), NEW a \in DOMAIN file, NEW b \in DOMAIN file, a < b,
           \A i \in DOMAIN file : file[i].kind = "header" <=> i = a \/ i = b,
           file[a].key # file[b].key, file[a].key # "none", file[b].key # "none"
    PROVE  /\ Within(file, file[a].key) = {i \in (a + 1)..(b - 1) : file[i].kind # "blank"}
           /\ Within(file, file[b].key) = {i \in (b + 1)..Len(file) : file[i].kind # "blank"}
  <1>1. DOMAIN file = 1..Len(file) /\ Len(file) \in Nat
    OBVIOUS
  <1>2. ASSUME NEW i \in DOMAIN file
        PROVE  /\ i < a => SectionAt(file, i, {"header"}) = "none"
               /\ a <= i /\ i < b => SectionAt(file, i, {"header"}) = file[a].key
               /\ b <= i => SectionAt(file, i, {"header"}) = file[b].key
    <2>1. i \in Nat /\ a \in Nat /\ b \in Nat /\ \A k \in 1..i : k \in DOMAIN file
      BY <1>1
    <2>2. CASE i < a
      <3>1. \A k \in 1..i : file[k].kind # "header"
        BY <2>1, <2>2
      <3>2. SectionAt(file, i, {"header"}) = "none"
        BY <3>1, UnderNone
      <3> QED
        BY <2>1, <2>2, <3>2
    <2>3. CASE a <= i /\ i < b
      <3>1. a \in 1..i /\ file[a].kind = "header" /\ \A k \in 1..i : file[k].kind = "header" => k <= a
        BY <1>1, <2>1, <2>3
      <3>2. SectionAt(file, i, {"header"}) = file[a].key
        BY <3>1, UnderHeader
      <3> QED
        BY <2>1, <2>3, <3>2
    <2>4. CASE b <= i
      <3>1. b \in 1..i /\ file[b].kind = "header" /\ \A k \in 1..i : file[k].kind = "header" => k <= b
        BY <1>1, <2>1, <2>4
      <3>2. SectionAt(file, i, {"header"}) = file[b].key
        BY <3>1, UnderHeader
      <3> QED
        BY <2>1, <2>4, <3>2
    <2> QED
      BY <2>1, <2>2, <2>3, <2>4
  <1>3. ASSUME NEW i
        PROVE  i \in Within(file, file[a].key) <=> i \in (a + 1)..(b - 1) /\ file[i].kind # "blank"
    <2>1. CASE i \notin DOMAIN file
      BY <1>1, <2>1 DEF Within
    <2>2. CASE i \in DOMAIN file
      <3>1. i \in Nat /\ a \in Nat /\ b \in Nat
        BY <1>1, <2>2
      <3>2. SectionAt(file, i, {"header"}) = file[a].key <=> a <= i /\ i < b
        BY <1>2, <2>2, <3>1
      <3> QED
        BY <2>2, <3>1, <3>2 DEF Within
    <2> QED
      BY <2>1, <2>2
  <1>4. ASSUME NEW i
        PROVE  i \in Within(file, file[b].key) <=> i \in (b + 1)..Len(file) /\ file[i].kind # "blank"
    <2>1. CASE i \notin DOMAIN file
      BY <1>1, <2>1 DEF Within
    <2>2. CASE i \in DOMAIN file
      <3>1. i \in Nat /\ a \in Nat /\ b \in Nat /\ i <= Len(file)
        BY <1>1, <2>2
      <3>2. SectionAt(file, i, {"header"}) = file[b].key <=> b <= i
        BY <1>2, <2>2, <3>1
      <3> QED
        BY <1>1, <2>2, <3>1, <3>2 DEF Within
    <2> QED
      BY <2>1, <2>2
  <1> QED
    BY <1>3, <1>4

\* The parts of the lines that the code writes.
LEMMA LineParts ==
    /\ \A key, value : /\ Assign(key, value).kind = "assign" /\ Assign(key, value).key = key
                       /\ Assign(key, value).value = value
    /\ \A key, c : /\ Field(key, c).kind = "field" /\ Field(key, c).key = key
                   /\ Field(key, c).value[1] = c
    /\ \A section : Header(section).kind = "header" /\ Header(section).key = section
    /\ Comment.kind = "comment" /\ Blank.kind = "blank"
  BY DEF Assign, Field, Header, Comment, Blank, Line

\* There are six keys of a marker.
LEMMA SixKeys == Cardinality(FieldKeys) = 6
  <1>1. PICK a, b, c, d, e, f : /\ a = "Managed" /\ b = "Owner-Uid" /\ c = "Owner-Gid"
                                /\ d = "Id" /\ e = "Mode" /\ f = "Authentication"
    OBVIOUS
  <1>2. b # a /\ c \notin {a, b} /\ d \notin {a, b, c} /\ e \notin {a, b, c, d} /\ f \notin {a, b, c, d, e}
    BY <1>1
  <1>3. IsFiniteSet({a}) /\ Cardinality({a}) = 1
    BY FS_Singleton
  <1>4. IsFiniteSet({a, b}) /\ Cardinality({a, b}) = 2
    <2>1. {a, b} = {a} \cup {b} /\ b \notin {a}
      BY <1>2
    <2> QED
      BY <1>3, <2>1, FS_AddElement
  <1>5. IsFiniteSet({a, b, c}) /\ Cardinality({a, b, c}) = 3
    <2>1. {a, b, c} = {a, b} \cup {c}
      OBVIOUS
    <2> QED
      BY <1>2, <1>4, <2>1, FS_AddElement
  <1>6. IsFiniteSet({a, b, c, d}) /\ Cardinality({a, b, c, d}) = 4
    <2>1. {a, b, c, d} = {a, b, c} \cup {d}
      OBVIOUS
    <2> QED
      BY <1>2, <1>5, <2>1, FS_AddElement
  <1>7. IsFiniteSet({a, b, c, d, e}) /\ Cardinality({a, b, c, d, e}) = 5
    <2>1. {a, b, c, d, e} = {a, b, c, d} \cup {e}
      OBVIOUS
    <2> QED
      BY <1>2, <1>6, <2>1, FS_AddElement
  <1>8. Cardinality({a, b, c, d, e, f}) = 6
    <2>1. {a, b, c, d, e, f} = {a, b, c, d, e} \cup {f}
      OBVIOUS
    <2> QED
      BY <1>2, <1>7, <2>1, FS_AddElement
  <1>9. FieldKeys = {a, b, c, d, e, f}
    BY <1>1 DEF FieldKeys
  <1> QED
    BY <1>8, <1>9

\* The marker of a file that starts with it and has no field below.
LEMMA MarkerOf ==
    ASSUME NEW file \in Seq(Lines), NEW marker \in Marks, Marked(file, marker), Len(file) >= 8,
           \A i \in 8..Len(file) : file[i].kind # "field"
    PROVE  HasMarker(file) /\ MarkerParses(file) /\ ParsedMarker(file) = marker
  <1>1. DOMAIN file = 1..Len(file) /\ Len(file) \in Nat
    OBVIOUS
  <1>2. /\ file[2].key = "Managed" /\ file[3].key = "Owner-Uid" /\ file[4].key = "Owner-Gid"
        /\ file[5].key = "Id" /\ file[6].key = "Mode" /\ file[7].key = "Authentication"
    BY LineParts DEF Marked
  <1>3. /\ file[2].value[1] = "1" /\ file[3].value[1] = marker.uid /\ file[4].value[1] = marker.gid
        /\ file[5].value[1] = marker.id /\ file[6].value[1] = "system" /\ file[7].value[1] = marker.auth
    BY LineParts DEF Marked
  <1>4. /\ file[1].kind = "comment" /\ file[2].kind = "field" /\ file[3].kind = "field"
        /\ file[4].kind = "field" /\ file[5].kind = "field" /\ file[6].kind = "field" /\ file[7].kind = "field"
    BY LineParts DEF Marked
  <1>5. Kind(file, "field") = 2..7
    <2>1. ASSUME NEW i \in DOMAIN file PROVE file[i].kind = "field" <=> i \in 2..7
      <3>1. CASE i \in 8..Len(file)
        BY <3>1
      <3>2. CASE i \in 1..7
        BY <1>4, <3>2
      <3> QED
        BY <1>1, <3>1, <3>2
    <2>2. 2..7 \subseteq DOMAIN file
      BY <1>1
    <2> QED
      BY <2>1, <2>2 DEF Kind
  <1>6. \A i, j \in 2..7 : file[i].key = file[j].key => i = j
    <2>1. \A i \in 2..7 : i \in {2, 3, 4, 5, 6, 7}
      OBVIOUS
    <2> QED
      BY <1>2, <2>1
  <1>7. ASSUME NEW i \in 2..7 PROVE FieldValue(file, file[i].key) = file[i].value[1]
    <2>1. (CHOOSE j \in Kind(file, "field") : file[j].key = file[i].key) = i
      BY <1>5, <1>6
    <2> QED
      BY <2>1 DEF FieldValue
  <1>8. /\ FieldValue(file, "Owner-Uid") = marker.uid /\ FieldValue(file, "Owner-Gid") = marker.gid
        /\ FieldValue(file, "Id") = marker.id /\ FieldValue(file, "Authentication") = marker.auth
    <2>1. 3 \in 2..7 /\ 4 \in 2..7 /\ 5 \in 2..7 /\ 7 \in 2..7
      OBVIOUS
    <2> QED
      BY <1>2, <1>3, <1>7, <2>1
  <1>9. {file[i].key : i \in 2..7} = FieldKeys
    <2>1. 2..7 = {2, 3, 4, 5, 6, 7}
      OBVIOUS
    <2>2. {file[i].key : i \in {2, 3, 4, 5, 6, 7}} =
             {file[2].key, file[3].key, file[4].key, file[5].key, file[6].key, file[7].key}
      OBVIOUS
    <2> QED
      BY <1>2, <2>1, <2>2 DEF FieldKeys
  <1>10. Cardinality(2..7) = 6
    <2>1. 2 \in Int /\ 7 \in Int /\ ~(2 > 7) /\ (7 - 2) + 1 = 6
      OBVIOUS
    <2>2. Cardinality(2..7) = IF 2 > 7 THEN 0 ELSE (7 - 2) + 1
      BY <2>1, FS_Interval
    <2> QED
      BY <2>1, <2>2
  <1>11. ASSUME NEW i \in 2..7 PROVE file[i].value[1] \in Legal(file[i].key)
    <2>1. /\ marker.uid \in Digits /\ marker.gid \in Digits /\ marker.id \in Ids
          /\ marker.auth \in {"credentials", "guest"}
      BY TextAssumption DEF Marks
    <2>2. i \in {2, 3, 4, 5, 6, 7}
      OBVIOUS
    <2> QED
      BY <1>2, <1>3, <2>1, <2>2 DEF Legal
  <1>12. {marker.uid, marker.gid} \cap TooLarge = {}
    BY TextAssumption DEF Marks
  <1>13. MarkerParses(file)
    BY <1>5, <1>8, <1>9, <1>10, <1>11, <1>12, SixKeys DEF MarkerParses
  <1>14. HasMarker(file)
    <2>1. 2 \in 2..7
      OBVIOUS
    <2> QED
      BY <1>5, <2>1 DEF HasMarker
  <1>15. ParsedMarker(file) = marker
    BY <1>8 DEF ParsedMarker, Marks
  <1> QED
    BY <1>13, <1>14, <1>15

\* The sections of the mount half.
LEMMA MountSections ==
    ASSUME NEW marker \in Marks, NEW unc \in Text, NEW where \in Text,
           NEW f, f = MountUnit(marker, unc, where)
    PROVE  /\ \A i \in 8..Len(f) : f[i].kind # "field"
           /\ ~IndentedHeader(f) /\ Kind(f, "assign") = {9} \cup 12..16
           /\ Within(f, "Mount") = 12..16 /\ \E i \in Kind(f, "header") : f[i].key = "Mount"
  <1>1. /\ f \in Seq(Lines) /\ Len(f) = 16 /\ Marked(f, marker)
        /\ f[8] = Header("Unit") /\ f[9] = Assign("Description", <<"nasmount">>)
        /\ f[10] = Blank /\ f[11] = Header("Mount")
        /\ f[12] = Assign("What", Doubled(unc)) /\ f[13] = Assign("Where", Doubled(where))
        /\ f[14] = Assign("Type", <<"cifs">>)
        /\ f[15] = Assign("Options", Doubled(MountOptions(marker)))
        /\ f[16] = Assign("TimeoutSec", <<"30">>)
    BY MountLayout
  <1>2. DOMAIN f = 1..16
    BY <1>1
  <1>3. /\ f[1].kind = "comment"
        /\ f[2].kind = "field" /\ f[3].kind = "field" /\ f[4].kind = "field"
        /\ f[5].kind = "field" /\ f[6].kind = "field" /\ f[7].kind = "field"
    BY <1>1, LineParts DEF Marked
  <1>4. /\ f[8].kind = "header" /\ f[9].kind = "assign" /\ f[10].kind = "blank" /\ f[11].kind = "header"
        /\ f[12].kind = "assign" /\ f[13].kind = "assign" /\ f[14].kind = "assign"
        /\ f[15].kind = "assign" /\ f[16].kind = "assign"
    BY <1>1, LineParts
  <1>5. f[8].key = "Unit" /\ f[11].key = "Mount"
    BY <1>1, LineParts
  <1>6. \A i \in 1..16 : /\ i \in 1..7 => f[i].kind \in {"comment", "field"}
                         /\ i \in {8, 11} => f[i].kind = "header"
                         /\ i = 10 => f[i].kind = "blank"
                         /\ i \in {9} \cup 12..16 => f[i].kind = "assign"
    <2>1. ASSUME NEW i \in 1..7 PROVE f[i].kind \in {"comment", "field"}
      <3>1. i \in {1, 2, 3, 4, 5, 6, 7}
        OBVIOUS
      <3> QED
        BY <1>3, <3>1
    <2>2. ASSUME NEW i \in {9} \cup 12..16 PROVE f[i].kind = "assign"
      <3>1. i \in {9, 12, 13, 14, 15, 16}
        OBVIOUS
      <3> QED
        BY <1>4, <3>1
    <2> QED
      BY <1>4, <2>1, <2>2
  <1>7. \A i \in 1..16 : i \in 1..7 \/ i \in {8, 11} \/ i = 10 \/ i \in {9} \cup 12..16
    OBVIOUS
  <1>8. \A i \in 8..Len(f) : f[i].kind # "field"
    <2>1. \A i \in 8..16 : i \in 1..16 /\ i \notin 1..7
      OBVIOUS
    <2> QED
      BY <1>1, <1>6, <1>7, <2>1
  <1>9. ~IndentedHeader(f)
    BY <1>2, <1>6, <1>7 DEF IndentedHeader, Kind
  <1>10. Kind(f, "assign") = {9} \cup 12..16
    <2>1. {9} \cup 12..16 \subseteq 1..16
      OBVIOUS
    <2> QED
      BY <1>2, <1>6, <1>7, <2>1 DEF Kind
  <1>11. Within(f, "Mount") = 12..16
    <2>1. 8 \in DOMAIN f /\ 11 \in DOMAIN f /\ 8 < 11
      BY <1>2
    <2>2. \A i \in DOMAIN f : f[i].kind = "header" <=> i = 8 \/ i = 11
      BY <1>2, <1>6, <1>7
    <2>3. Within(f, f[11].key) = {i \in (11 + 1)..Len(f) : f[i].kind # "blank"}
      <3>1. f[8].key # f[11].key /\ f[8].key # "none" /\ f[11].key # "none"
        BY <1>5
      <3> QED
        BY <1>1, <2>1, <2>2, <3>1, TwoSections
    <2>4. \A i \in 12..16 : i \in 1..16 /\ f[i].kind # "blank"
      BY <1>6
    <2>5. (11 + 1)..Len(f) = 12..16
      BY <1>1
    <2> QED
      BY <1>5, <2>3, <2>4, <2>5
  <1>12. 11 \in Kind(f, "header")
    <2>1. 11 \in 1..16
      OBVIOUS
    <2> QED
      BY <1>2, <1>4, <2>1 DEF Kind
  <1> QED
    BY <1>5, <1>8, <1>9, <1>10, <1>11, <1>12

\* The sections of the automount half.
LEMMA AutomountSections ==
    ASSUME NEW marker \in Marks, NEW where \in Text, NEW f, f = AutomountUnit(marker, where)
    PROVE  /\ \A i \in 8..Len(f) : f[i].kind # "field"
           /\ ~IndentedHeader(f) /\ Kind(f, "assign") = {9, 10} \cup 13..15
           /\ Within(f, "Unit") = 9..10 /\ \E i \in Kind(f, "header") : f[i].key = "Unit"
           /\ Within(f, "Automount") = 13..15 /\ \E i \in Kind(f, "header") : f[i].key = "Automount"
  <1>1. /\ f \in Seq(Lines) /\ Len(f) = 15 /\ Marked(f, marker)
        /\ f[8] = Header("Unit") /\ f[9] = Assign("Description", <<"nasmount">>)
        /\ f[10] = Assign("ConditionPathIsDirectory", Doubled(where)) /\ f[11] = Blank
        /\ f[12] = Header("Automount") /\ f[13] = Assign("Where", Doubled(where))
        /\ f[14] = Assign("TimeoutIdleSec", <<"60">>) /\ f[15] = Assign("DirectoryMode", <<"0700">>)
    BY AutomountLayout
  <1>2. DOMAIN f = 1..15
    BY <1>1
  <1>3. /\ f[1].kind = "comment"
        /\ f[2].kind = "field" /\ f[3].kind = "field" /\ f[4].kind = "field"
        /\ f[5].kind = "field" /\ f[6].kind = "field" /\ f[7].kind = "field"
    BY <1>1, LineParts DEF Marked
  <1>4. /\ f[8].kind = "header" /\ f[9].kind = "assign" /\ f[10].kind = "assign" /\ f[11].kind = "blank"
        /\ f[12].kind = "header" /\ f[13].kind = "assign" /\ f[14].kind = "assign" /\ f[15].kind = "assign"
    BY <1>1, LineParts
  <1>5. f[8].key = "Unit" /\ f[12].key = "Automount"
    BY <1>1, LineParts
  <1>6. \A i \in 1..15 : /\ i \in 1..7 => f[i].kind \in {"comment", "field"}
                         /\ i \in {8, 12} => f[i].kind = "header"
                         /\ i = 11 => f[i].kind = "blank"
                         /\ i \in {9, 10} \cup 13..15 => f[i].kind = "assign"
    <2>1. ASSUME NEW i \in 1..7 PROVE f[i].kind \in {"comment", "field"}
      <3>1. i \in {1, 2, 3, 4, 5, 6, 7}
        OBVIOUS
      <3> QED
        BY <1>3, <3>1
    <2>2. ASSUME NEW i \in {9, 10} \cup 13..15 PROVE f[i].kind = "assign"
      <3>1. i \in {9, 10, 13, 14, 15}
        OBVIOUS
      <3> QED
        BY <1>4, <3>1
    <2> QED
      BY <1>4, <2>1, <2>2
  <1>7. \A i \in 1..15 : i \in 1..7 \/ i \in {8, 12} \/ i = 11 \/ i \in {9, 10} \cup 13..15
    OBVIOUS
  <1>8. \A i \in 8..Len(f) : f[i].kind # "field"
    <2>1. \A i \in 8..15 : i \in 1..15 /\ i \notin 1..7
      OBVIOUS
    <2> QED
      BY <1>1, <1>6, <1>7, <2>1
  <1>9. ~IndentedHeader(f)
    BY <1>2, <1>6, <1>7 DEF IndentedHeader, Kind
  <1>10. Kind(f, "assign") = {9, 10} \cup 13..15
    <2>1. {9, 10} \cup 13..15 \subseteq 1..15
      OBVIOUS
    <2> QED
      BY <1>2, <1>6, <1>7, <2>1 DEF Kind
  <1>11. Within(f, "Unit") = 9..10 /\ Within(f, "Automount") = 13..15
    <2>1. 8 \in DOMAIN f /\ 12 \in DOMAIN f /\ 8 < 12
      BY <1>2
    <2>2. \A i \in DOMAIN f : f[i].kind = "header" <=> i = 8 \/ i = 12
      BY <1>2, <1>6, <1>7
    <2>3. /\ Within(f, f[8].key) = {i \in (8 + 1)..(12 - 1) : f[i].kind # "blank"}
          /\ Within(f, f[12].key) = {i \in (12 + 1)..Len(f) : f[i].kind # "blank"}
      <3>1. f[8].key # f[12].key /\ f[8].key # "none" /\ f[12].key # "none"
        BY <1>5
      <3> QED
        BY <1>1, <2>1, <2>2, <3>1, TwoSections
    <2>4. /\ \A i \in 13..15 : f[i].kind # "blank"
          /\ \A i \in 9..11 : f[i].kind # "blank" <=> i \in 9..10
      <3>1. /\ \A i \in 13..15 : i \in 1..15 /\ i \in {9, 10} \cup 13..15
            /\ \A i \in 9..11 : i \in {9, 10} \cup 13..15 \/ i = 11
            /\ \A i \in 9..11 : i \in 1..15 /\ (i \in 9..10 <=> i # 11)
        OBVIOUS
      <3> QED
        BY <1>6, <3>1
    <2>5. (12 + 1)..Len(f) = 13..15 /\ (8 + 1)..(12 - 1) = 9..11 /\ 9..10 \subseteq 9..11
      BY <1>1
    <2> QED
      BY <1>5, <2>3, <2>4, <2>5
  <1>12. 8 \in Kind(f, "header") /\ 12 \in Kind(f, "header")
    <2>1. 8 \in 1..15 /\ 12 \in 1..15
      OBVIOUS
    <2> QED
      BY <1>2, <1>4, <2>1 DEF Kind
  <1> QED
    BY <1>5, <1>8, <1>9, <1>10, <1>11, <1>12

\* The options end in a literal.
LEMMA OptionsEnd ==
    ASSUME NEW marker \in Marks
    PROVE  /\ MountOptions(marker) \in Text /\ MountOptions(marker) # <<>>
           /\ Last(MountOptions(marker)) = ",nounix"
  <1>1. marker.uid \in Digits /\ marker.gid \in Digits /\ marker.id \in Ids
    BY TextAssumption DEF Marks
  <1> QED
    BY <1>1, OptionsText, OptionsTrimmed DEF Trimmed

\* No line of the mount half is continued on the next.
LEMMA MountContinues ==
    ASSUME NEW marker \in Marks, NEW unc \in Text, NEW where \in Text, Buildable(unc, where),
           NEW f, f = MountUnit(marker, unc, where)
    PROVE  ~HasLineContinuation(f)
  <1>1. /\ f[9] = Assign("Description", <<"nasmount">>)
        /\ f[12] = Assign("What", Doubled(unc)) /\ f[13] = Assign("Where", Doubled(where))
        /\ f[14] = Assign("Type", <<"cifs">>)
        /\ f[15] = Assign("Options", Doubled(MountOptions(marker)))
        /\ f[16] = Assign("TimeoutSec", <<"30">>)
    BY MountLayout
  <1>2. Kind(f, "assign") = {9, 12, 13, 14, 15, 16}
    <2>1. {9} \cup 12..16 = {9, 12, 13, 14, 15, 16}
      OBVIOUS
    <2> QED
      BY <2>1, MountSections
  <1>3. /\ f[9].value = <<"nasmount">> /\ f[12].value = Doubled(unc) /\ f[13].value = Doubled(where)
        /\ f[14].value = <<"cifs">> /\ f[15].value = Doubled(MountOptions(marker))
        /\ f[16].value = <<"30">>
    BY <1>1, LineParts
  <1>4. /\ unc # <<>> /\ Last(unc) # "\\" /\ where # <<>> /\ Last(where) # "\\"
    BY DEF Buildable, Encodable
  <1>5. \A c : Last(<<c>>) = c
    BY DEF Last
  <1>6. Last(Doubled(unc)) # "\\" /\ Last(Doubled(where)) # "\\"
    BY <1>4, DoubledEnds
  <1>7. Last(Doubled(MountOptions(marker))) # "\\"
    <2>1. PICK o \in Text : o = MountOptions(marker) /\ o # <<>> /\ Last(o) = ",nounix"
      BY OptionsEnd
    <2>2. Last(Doubled(o)) = ",nounix"
      BY <2>1, DoubledEnds
    <2> QED
      BY <2>1, <2>2
  <1>8. \A i \in {9, 12, 13, 14, 15, 16} : Last(f[i].value) # "\\"
    BY <1>3, <1>5, <1>6, <1>7
  <1> QED
    BY <1>2, <1>8 DEF HasLineContinuation

\* Nor of the automount half.
LEMMA AutomountContinues ==
    ASSUME NEW marker \in Marks, NEW where \in Text, Encodable(where), NEW f, f = AutomountUnit(marker, where)
    PROVE  ~HasLineContinuation(f)
  <1>1. /\ f[9] = Assign("Description", <<"nasmount">>)
        /\ f[10] = Assign("ConditionPathIsDirectory", Doubled(where))
        /\ f[13] = Assign("Where", Doubled(where))
        /\ f[14] = Assign("TimeoutIdleSec", <<"60">>) /\ f[15] = Assign("DirectoryMode", <<"0700">>)
    BY AutomountLayout
  <1>2. Kind(f, "assign") = {9, 10, 13, 14, 15}
    <2>1. {9, 10} \cup 13..15 = {9, 10, 13, 14, 15}
      OBVIOUS
    <2> QED
      BY <2>1, AutomountSections
  <1>3. /\ f[9].value = <<"nasmount">> /\ f[10].value = Doubled(where) /\ f[13].value = Doubled(where)
        /\ f[14].value = <<"60">> /\ f[15].value = <<"0700">>
    BY <1>1, LineParts
  <1>4. where # <<>> /\ Last(where) # "\\"
    BY DEF Encodable
  <1>5. \A c : Last(<<c>>) = c
    BY DEF Last
  <1>6. Last(Doubled(where)) # "\\"
    BY <1>4, DoubledEnds
  <1>7. \A i \in {9, 10, 13, 14, 15} : Last(f[i].value) # "\\"
    BY <1>3, <1>5, <1>6
  <1> QED
    BY <1>2, <1>7 DEF HasLineContinuation

\* The mount half as it is written is valid, and nothing of it is ambiguous.
LEMMA MountHolds ==
    ASSUME NEW marker \in Marks, NEW unc \in Text, NEW where \in Text, Buildable(unc, where), ValidUnc(unc),
           NEW f, f = MountUnit(marker, unc, where)
    PROVE  /\ f # Missing /\ f \in Seq(Lines) /\ ~IndentedHeader(f)
           /\ HasMarker(f) /\ MarkerParses(f) /\ ParsedMarker(f) = marker
           /\ ValidMountBody(f, marker, where) /\ WhatOf(f) = unc
           /\ SectionParses(f, "Mount", MountKeys)
           /\ Assigns(f, "Mount", "What", Doubled(unc)) /\ Assigns(f, "Mount", "Where", Doubled(where))
           /\ OnlyInPlace(f, "Mount")
  <1>1. /\ f \in Seq(Lines) /\ Len(f) = 16 /\ Marked(f, marker)
        /\ f[9] = Assign("Description", <<"nasmount">>)
        /\ f[12] = Assign("What", Doubled(unc)) /\ f[13] = Assign("Where", Doubled(where))
        /\ f[14] = Assign("Type", <<"cifs">>)
        /\ f[15] = Assign("Options", Doubled(MountOptions(marker)))
        /\ f[16] = Assign("TimeoutSec", <<"30">>)
    BY MountLayout
  <1>2. /\ f[9].key = "Description" /\ f[12].key = "What" /\ f[13].key = "Where" /\ f[14].key = "Type"
        /\ f[15].key = "Options" /\ f[16].key = "TimeoutSec"
    BY <1>1, LineParts
  <1>3. /\ f[12].value = Doubled(unc) /\ f[13].value = Doubled(where)
        /\ f[14].value = <<"cifs">> /\ f[15].value = Doubled(MountOptions(marker))
        /\ f[16].value = <<"30">>
    BY <1>1, LineParts
  <1>4. /\ \A i \in 8..Len(f) : f[i].kind # "field"
        /\ ~IndentedHeader(f) /\ Kind(f, "assign") = {9} \cup 12..16
        /\ Within(f, "Mount") = 12..16 /\ \E i \in Kind(f, "header") : f[i].key = "Mount"
    BY MountSections
  <1>5. 12..16 = {12, 13, 14, 15, 16} /\ 12..16 \subseteq {9} \cup 12..16
    OBVIOUS
  <1>6. SectionParses(f, "Mount", MountKeys)
    <2>1. \A i \in 12..16 : f[i].kind = "assign"
      BY <1>4, <1>5 DEF Kind
    <2>2. \A i \in 12..16 : f[i].key \in MountKeys
      BY <1>2, <1>5 DEF MountKeys
    <2>3. \A i, j \in 12..16 : f[j].key = f[i].key => i = j
      BY <1>2, <1>5
    <2> QED
      BY <1>4, <2>1, <2>2, <2>3 DEF SectionParses
  <1>7. MountKeys \subseteq {f[i].key : i \in Within(f, "Mount")}
    BY <1>2, <1>4, <1>5 DEF MountKeys
  <1>8. /\ Assigns(f, "Mount", "What", Doubled(unc)) /\ Assigns(f, "Mount", "Where", Doubled(where))
        /\ Assigns(f, "Mount", "Type", <<"cifs">>) /\ Assigns(f, "Mount", "TimeoutSec", <<"30">>)
        /\ Assigns(f, "Mount", "Options", Doubled(MountOptions(marker)))
    BY <1>2, <1>3, <1>4, <1>5 DEF Assigns
  <1>9. InMount(f, "What") = Doubled(unc) /\ InMount(f, "Where") = Doubled(where)
    <2>1. InMount(f, f[12].key) = f[12].value /\ InMount(f, f[13].key) = f[13].value
      BY <1>1, <1>4, <1>5, <1>6, InMountPlace
    <2> QED
      BY <1>2, <1>3, <2>1
  <1>10. WhatOf(f) = unc /\ Undoubled(InMount(f, "Where")) = where
    BY <1>9, UndoubledDoubled DEF WhatOf
  <1>11. ValidMountBody(f, marker, where)
    <2>1. ~HasLineContinuation(f)
      BY MountContinues
    <2> QED
      BY <1>6, <1>7, <1>8, <1>10, <2>1 DEF ValidMountBody
  <1>12. HasMarker(f) /\ MarkerParses(f) /\ ParsedMarker(f) = marker
    <2>1. Len(f) >= 8
      BY <1>1
    <2> QED
      BY <1>1, <1>4, <2>1, MarkerOf
  <1>13. OnlyInPlace(f, "Mount")
    <2>1. ASSUME NEW key \in {"What", "Where"} PROVE AssignsOf(f, key) \subseteq 12..16
      BY <1>2, <1>4 DEF AssignsOf
    <2> QED
      BY <1>4, <2>1 DEF OnlyInPlace
  <1>14. f # Missing
    <2>1. Len(Missing) = 1
      BY DEF Missing
    <2>2. Len(f) # Len(Missing)
      BY <1>1, <2>1
    <2> QED
      BY <2>2, Zenon
  <1> QED
    BY <1>1, <1>4, <1>6, <1>8, <1>10, <1>11, <1>12, <1>13, <1>14

\* So is the automount half.
LEMMA AutomountHolds ==
    ASSUME NEW marker \in Marks, NEW where \in Text, Encodable(where), NEW f, f = AutomountUnit(marker, where)
    PROVE  /\ f # Missing /\ f \in Seq(Lines)
           /\ HasMarker(f) /\ MarkerParses(f) /\ ParsedMarker(f) = marker
           /\ ValidAutomountBody(f, where) /\ OnlyInPlace(f, "Automount")
  <1>1. /\ f \in Seq(Lines) /\ Len(f) = 15 /\ Marked(f, marker)
        /\ f[9] = Assign("Description", <<"nasmount">>)
        /\ f[10] = Assign("ConditionPathIsDirectory", Doubled(where))
        /\ f[13] = Assign("Where", Doubled(where))
        /\ f[14] = Assign("TimeoutIdleSec", <<"60">>) /\ f[15] = Assign("DirectoryMode", <<"0700">>)
    BY AutomountLayout
  <1>2. /\ f[9].key = "Description" /\ f[10].key = "ConditionPathIsDirectory" /\ f[13].key = "Where"
        /\ f[14].key = "TimeoutIdleSec" /\ f[15].key = "DirectoryMode"
    BY <1>1, LineParts
  <1>3. /\ f[10].value = Doubled(where) /\ f[13].value = Doubled(where)
        /\ f[14].value = <<"60">> /\ f[15].value = <<"0700">>
    BY <1>1, LineParts
  <1>4. /\ \A i \in 8..Len(f) : f[i].kind # "field"
        /\ Kind(f, "assign") = {9, 10} \cup 13..15
        /\ Within(f, "Unit") = 9..10 /\ \E i \in Kind(f, "header") : f[i].key = "Unit"
        /\ Within(f, "Automount") = 13..15 /\ \E i \in Kind(f, "header") : f[i].key = "Automount"
    BY AutomountSections
  <1>5. 13..15 = {13, 14, 15} /\ 9..10 = {9, 10}
    OBVIOUS
  <1>6. \A i \in {9, 10, 13, 14, 15} : f[i].kind = "assign"
    BY <1>4, <1>5 DEF Kind
  <1>7. SectionParses(f, "Automount", AutomountKeys)
    <2>1. \A i \in 13..15 : f[i].kind = "assign"
      BY <1>5, <1>6
    <2>2. \A i \in 13..15 : f[i].key \in AutomountKeys
      BY <1>2, <1>5 DEF AutomountKeys
    <2>3. \A i, j \in 13..15 : f[j].key = f[i].key => i = j
      BY <1>2, <1>5
    <2> QED
      BY <1>4, <2>1, <2>2, <2>3 DEF SectionParses
  <1>8. SectionParses(f, "Unit", {"Description", "ConditionPathIsDirectory"})
    <2>1. \A i \in 9..10 : f[i].kind = "assign" /\ f[i].key \in {"Description", "ConditionPathIsDirectory"}
      BY <1>2, <1>5, <1>6
    <2>2. \A i, j \in 9..10 : f[j].key = f[i].key => i = j
      BY <1>2, <1>5
    <2> QED
      BY <1>4, <2>1, <2>2 DEF SectionParses
  <1>9. /\ Assigns(f, "Automount", "Where", Doubled(where))
        /\ Assigns(f, "Unit", "ConditionPathIsDirectory", Doubled(where))
        /\ Assigns(f, "Automount", "TimeoutIdleSec", <<"60">>)
        /\ Assigns(f, "Automount", "DirectoryMode", <<"0700">>)
    BY <1>2, <1>3, <1>4, <1>5 DEF Assigns
  <1>10. ValidAutomountBody(f, where)
    <2>1. ~HasLineContinuation(f)
      BY AutomountContinues
    <2> QED
      BY <1>7, <1>8, <1>9, <2>1 DEF ValidAutomountBody
  <1>11. HasMarker(f) /\ MarkerParses(f) /\ ParsedMarker(f) = marker
    <2>1. Len(f) >= 8
      BY <1>1
    <2> QED
      BY <1>1, <1>4, <2>1, MarkerOf
  <1>12. OnlyInPlace(f, "Automount")
    <2>1. ASSUME NEW key \in {"What", "Where"} PROVE AssignsOf(f, key) \subseteq 13..15
      BY <1>2, <1>4 DEF AssignsOf
    <2> QED
      BY <1>4, <2>1 DEF OnlyInPlace
  <1>13. f # Missing
    <2>1. Len(Missing) = 1
      BY DEF Missing
    <2>2. Len(f) # Len(Missing)
      BY <1>1, <2>1
    <2> QED
      BY <2>2, Zenon
  <1> QED
    BY <1>1, <1>10, <1>11, <1>12, <1>13

-------------------------------------------------------------------------------
(* What is written and not edited.                                         *)

\* The pair as define wrote it, for a UNC it had accepted.
Written ==
    mountFile # Missing /\ autoFile # Missing /\ edits = 0 =>
        /\ mountFile = MountUnit(asked.marker, asked.unc, asked.where)
        /\ autoFile = AutomountUnit(asked.marker, asked.where)
        /\ ValidUnc(asked.unc) /\ Buildable(asked.unc, asked.where)

\* A UNC without trailing slashes is not changed again.
LEMMA NormalisedTwice ==
    ASSUME NEW unc \in Text PROVE Normalised(Normalised(unc)) = Normalised(unc)
  <1>1. PICK n \in 0..Len(unc) : (n = 0 \/ unc[n] # "/") /\ Normalised(unc) = SubSeq(unc, 1, n)
    BY Trailing
  <1>2. PICK v \in Text : v = SubSeq(unc, 1, n)
    BY Parts
  <1>3. Len(unc) \in Nat /\ Len(v) = n /\ \A i \in 1..n : v[i] = unc[i]
    BY <1>2 DEF Text
  <1>4. PICK m \in 0..n : (\A k \in 1..n : v[k] # "/" => k <= m) /\ Normalised(v) = SubSeq(v, 1, m)
    BY <1>2, <1>3, Trailing
  <1>5. m = n
    <2>1. n = 0 \/ (n \in 1..n /\ v[n] # "/")
      BY <1>1, <1>3
    <2> QED
      BY <1>3, <1>4, <2>1
  <1>6. SubSeq(v, 1, n) = v
    BY <1>2, <1>3 DEF Text
  <1> QED
    BY <1>1, <1>2, <1>4, <1>5, <1>6

\* Every step keeps what is written and not edited.
LEMMA WrittenKept == ASSUME UnitTypes, Written, [Next]_vars PROVE Written'
  <1>1. CASE WritePair
    <2>1. PICK ask \in Asks :
              /\ ValidUnc(ask.unc) /\ Buildable(Normalised(ask.unc), ask.where)
              /\ asked' = [ask EXCEPT !.unc = Normalised(ask.unc)]
              /\ mountFile' = MountUnit(ask.marker, Normalised(ask.unc), ask.where)
              /\ autoFile' = AutomountUnit(ask.marker, ask.where)
      BY <1>1 DEF WritePair
    <2>2. ask \in [unc : Text, where : Text, marker : Marks]
      BY TextAssumption DEF Marks
    <2>3. asked'.unc = Normalised(ask.unc) /\ asked'.marker = ask.marker /\ asked'.where = ask.where
      BY <2>1, <2>2
    <2>4. ValidUnc(Normalised(ask.unc))
      <3>1. Normalised(Normalised(ask.unc)) = Normalised(ask.unc)
        BY <2>2, NormalisedTwice
      <3> QED
        BY <2>1, <3>1 DEF ValidUnc
    <2> QED
      BY <2>1, <2>3, <2>4 DEF Written
  <1>2. CASE Edit
    <2>1. edits' # 0
      BY <1>2 DEF Edit, UnitTypes
    <2> QED
      BY <2>1 DEF Written
  <1>3. CASE Discard
    BY <1>3 DEF Discard, Written
  <1>4. CASE UNCHANGED vars
    BY <1>4 DEF vars, Written
  <1> QED
    BY <1>1, <1>2, <1>3, <1>4 DEF Next

\* What is written and not edited is understood by all its readers.
LEMMA WrittenRoundTrips == ASSUME UnitTypes, Written PROVE RoundTrips
  <1> SUFFICES ASSUME mountFile # Missing, autoFile # Missing, edits = 0 PROVE RoundTrips
    BY DEF RoundTrips
  <1>1. PICK marker, unc, where : marker = asked.marker /\ unc = asked.unc /\ where = asked.where
    OBVIOUS
  <1>2. marker \in Marks /\ unc \in Text /\ where \in Text
    BY <1>1 DEF UnitTypes
  <1>3. /\ mountFile = MountUnit(marker, unc, where) /\ autoFile = AutomountUnit(marker, where)
        /\ ValidUnc(unc) /\ Encodable(unc) /\ Encodable(where)
    BY <1>1 DEF Written, Buildable
  <1>4. /\ mountFile \in Seq(Lines) /\ ~IndentedHeader(mountFile)
        /\ HasMarker(mountFile) /\ MarkerParses(mountFile) /\ ParsedMarker(mountFile) = marker
        /\ ValidMountBody(mountFile, marker, where) /\ WhatOf(mountFile) = unc
        /\ SectionParses(mountFile, "Mount", MountKeys)
        /\ Assigns(mountFile, "Mount", "What", Doubled(unc))
        /\ Assigns(mountFile, "Mount", "Where", Doubled(where))
        /\ OnlyInPlace(mountFile, "Mount")
    BY <1>2, <1>3, MountHolds DEF Buildable
  <1>5. /\ HasMarker(autoFile) /\ MarkerParses(autoFile) /\ ParsedMarker(autoFile) = marker
        /\ ValidAutomountBody(autoFile, where) /\ OnlyInPlace(autoFile, "Automount")
    BY <1>2, <1>3, AutomountHolds
  <1>6. marker.uid = CallerUid
    BY <1>2 DEF Marks
  <1>7. MountSide(where) = "Valid" /\ AutomountSide(where) = "Valid"
    <2>1. ASSUME NEW file, NEW valid, file # Missing, HasMarker(file), MarkerParses(file),
                 ParsedMarker(file).uid = CallerUid, valid
          PROVE  Side(file, valid) = "Valid"
      BY <2>1 DEF Side
    <2> QED
      BY <1>4, <1>5, <1>6, <2>1 DEF MountSide, AutomountSide
  <1>8. Verdict(asked.where) = "Pair"
    <2>1. Verdict(where) = Decided(MountSide(where), AutomountSide(where),
                                   ParsedMarker(mountFile) = ParsedMarker(autoFile))
      BY Zenon DEF Verdict, Decided
    <2>2. PICK same \in BOOLEAN : same = (ParsedMarker(mountFile) = ParsedMarker(autoFile))
      OBVIOUS
    <2>3. same
      BY <1>4, <1>5, <2>2
    <2>4. Decided("Valid", "Valid", same) = "Pair"
      BY <2>3 DEF Decided
    <2> QED
      BY <1>1, <1>7, <2>1, <2>2, <2>4
  <1>9. TrustedMarker = marker /\ TrustedWhat = unc
    BY <1>4 DEF TrustedMarker, TrustedWhat
  <1>10. Listed = [state |-> "Pair", marker |-> marker, where |-> where, what |-> unc]
    <2>1. Listed = [state |-> Verdict(asked.where), marker |-> TrustedMarker,
                    where |-> asked.where, what |-> TrustedWhat]
      BY <1>4, <1>5, <1>8, ListingHolds DEF TrustedIsListed, Trusted
    <2> QED
      BY <1>1, <1>8, <1>9, <2>1
  <1>11. ASSUME \A i \in DOMAIN unc : unc[i] # "#" PROVE Recognised(where, unc)
    <2>1. Reads(mountFile, "Mount", "Where") = where
      BY <1>2, <1>3, <1>4, EncodableTrimmed, ReadsDoubled
    <2>2. Reads(mountFile, "Mount", "What") = unc
      BY <1>2, <1>3, <1>4, EncodableTrimmed, ReadsDoubled
    <2>3. Reads(mountFile, "Mount", "Type") = <<"cifs">>
      <3>1. "cifs" \in Pieces
        BY TextAssumption DEF Literals
      <3>2. Assigns(mountFile, "Mount", "Type", <<"cifs">>)
        BY <1>4 DEF ValidMountBody
      <3> QED
        BY <1>4, <3>1, <3>2, ReadsOne
    <2>4. Unescaped(Escaped(where, {"space", "\\"})) = where
      <3>1. PICK special \in Specials : special = {"space", "\\"}
        BY DEF Specials
      <3>2. \A i \in 1..Len(where) : Blanks(where[i], special)
        BY <3>1 DEF Blanks
      <3> QED
        BY <1>2, <3>1, <3>2, UnescapedEscaped
    <2>5. Unescaped(Escaped(unc, {"space", "\\", "#"})) = unc
      <3>1. PICK special \in Specials : special = {"space", "\\", "#"}
        BY DEF Specials
      <3>2. DOMAIN unc = 1..Len(unc)
        BY <1>2 DEF Text
      <3>3. \A i \in 1..Len(unc) : Blanks(unc[i], special)
        BY <1>11, <3>1, <3>2 DEF Blanks
      <3> QED
        BY <1>2, <3>1, <3>3, UnescapedEscaped
    <2> QED
      BY <2>1, <2>2, <2>3, <2>4, <2>5 DEF Recognised
  <1> QED
    BY <1>1, <1>8, <1>9, <1>10, <1>11 DEF RoundTrips

\* What define writes for any UNC, mount point and marker it accepts is read
\* back as it was asked for by the validators, the listing, systemd and the
\* match against mountinfo, until somebody edits it.
THEOREM WrittenIsUnderstood == Spec => []RoundTrips
  <1>1. Init => UnitTypes /\ Written
    BY TextAssumption DEF Init, UnitTypes, Files, Marks, Written
  <1>2. UnitTypes /\ Written /\ [Next]_vars => UnitTypes' /\ Written'
    BY TypesKept, WrittenKept
  <1>3. UnitTypes /\ Written => RoundTrips
    BY WrittenRoundTrips
  <1> QED
    BY <1>1, <1>2, <1>3, PTL DEF Spec

===============================================================================
