------------------------- MODULE ShellInput_proofs -------------------------
(* Theorems about ShellInput, for all sets of characters and every limit of *)
(* a line, a token, a list of tokens and an argument vector: no memory is   *)
(* lost, and the line buffer, the lexer and build_command implement         *)
(* CommandStream.                                                           *)
EXTENDS ShellInput, FiniteSetTheorems, WellFoundedInduction, TLAPS

---------------------------------------------------------------------------
(* Sets of naturals have a least element.  It stands for induction: what   *)
(* fails for some number fails for a least one.                            *)

Below == {ss \in Nat \X Nat : ss[1] < ss[2]}

\* The order of the naturals, as the library has it.
LEMMA BelowWellFounded == IsWellFoundedOn(Below, Nat)
  BY NatLessThanWellFounded DEF OpToRel, Below

\* The least element exists.
LEMMA LeastNatural ==
    ASSUME NEW T \in SUBSET Nat, T # {}
    PROVE  \E x \in T : \A y \in T : x <= y
  <1>1. PICK x \in T : \A y \in T : ~ (<<y, x>> \in Below)
    BY BelowWellFounded, WFMin
  <1>2. ASSUME NEW y \in T PROVE x <= y
    <2>1. x \in Nat /\ y \in Nat
      OBVIOUS
    <2>2. ~ (y < x)
      BY <1>1, <2>1 DEF Below
    <2> QED
      BY <2>1, <2>2
  <1> QED
    BY <1>2

\* Min finds it.
LEMMA MinIsLeast ==
    ASSUME NEW T \in SUBSET Nat, T # {}
    PROVE  /\ Min(T) \in T /\ \A y \in T : Min(T) <= y
           /\ Stream!Min(T) = Min(T)
  <1>1. \E x \in T : \A y \in T : x <= y
    BY LeastNatural
  <1>2. Min(T) \in T /\ \A y \in T : Min(T) <= y
    BY <1>1 DEF Min
  <1>3. Stream!Min(T) = Min(T)
    BY DEF Stream!Min, Min
  <1> QED
    BY <1>2, <1>3

\* CommandStream counts as everyone does.
LEMMA SameCardinality == \A S : Stream!Cardinality(S) = Cardinality(S)
  BY DEF Stream!Cardinality, Cardinality

---------------------------------------------------------------------------
(* InOrder lists a set of positions from the lowest to the highest.        *)

\* How many elements of S are not above x.
Rank(S, x) == Cardinality({j \in S : j <= x})

\* Each rank is taken.
Ranked(S) == \A k \in 1..Cardinality(S) : \E x \in S : Rank(S, x) = k

\* A set of positions of some line.
Positions(S) == \E n \in Nat : S \subseteq 1..n

\* Sets of positions are finite sets of naturals, and so are their parts.
LEMMA PositionsFinite ==
    ASSUME NEW S, Positions(S)
    PROVE  /\ IsFiniteSet(S) /\ Cardinality(S) \in Nat
           /\ \A x \in S : x \in Nat /\ x > 0
           /\ \A T : T \subseteq S => Positions(T)
  <1>1. PICK n \in Nat : S \subseteq 1..n
    BY DEF Positions
  <1>2. IsFiniteSet(1..n)
    BY FS_Interval
  <1>3. IsFiniteSet(S)
    BY <1>1, <1>2, FS_Subset
  <1>4. \A x \in S : x \in Nat /\ x > 0
    BY <1>1
  <1>5. ASSUME NEW T, T \subseteq S PROVE Positions(T)
    BY <1>1, <1>5 DEF Positions
  <1> QED
    BY <1>3, <1>4, <1>5, FS_CardinalityType

\* A rank is a position in the list.
LEMMA RankType ==
    ASSUME NEW S, Positions(S), NEW x \in S
    PROVE  Rank(S, x) \in 1..Cardinality(S)
  <1> DEFINE T == {j \in S : j <= x}
  <1>1. IsFiniteSet(S) /\ Cardinality(S) \in Nat
    BY PositionsFinite
  <1>2. IsFiniteSet(T) /\ Cardinality(T) <= Cardinality(S)
    BY <1>1, FS_Subset
  <1>3. Cardinality(T) \in Nat
    BY <1>2, FS_CardinalityType
  <1>4. x \in T
    BY PositionsFinite
  <1>5. Cardinality(T) # 0
    BY <1>2, <1>4, FS_EmptySet
  <1> QED
    BY <1>1, <1>2, <1>3, <1>5 DEF Rank

\* The higher position has the higher rank.
LEMMA RankGrows ==
    ASSUME NEW S, Positions(S), NEW x \in S, NEW y \in S, x < y
    PROVE  Rank(S, x) < Rank(S, y)
  <1> DEFINE T == {j \in S : j <= x}
             U == {j \in S : j <= y}
  <1>1. x \in Int /\ y \in Int /\ \A j \in S : j \in Int
    BY PositionsFinite
  <1>2. T \subseteq U
    <2> SUFFICES ASSUME NEW j \in S, j <= x PROVE j <= y
      OBVIOUS
    <2> QED
      BY <1>1
  <1>2a. y \in U
    BY <1>1
  <1>2b. y \notin T
    BY <1>1
  <1>3. IsFiniteSet(U)
    BY PositionsFinite
  <1>4. IsFiniteSet(T) /\ Cardinality(T) <= Cardinality(U) /\ Cardinality(T) # Cardinality(U)
    BY <1>2, <1>2a, <1>2b, <1>3, FS_Subset
  <1>5. Cardinality(T) \in Nat /\ Cardinality(U) \in Nat
    BY <1>3, <1>4, FS_CardinalityType
  <1> QED
    BY <1>4, <1>5 DEF Rank

\* Two positions have two ranks.
LEMMA RankUnique ==
    ASSUME NEW S, Positions(S), NEW x \in S, NEW y \in S,
           Rank(S, x) = Rank(S, y)
    PROVE  x = y
  <1>1. x \in Int /\ y \in Int
    BY PositionsFinite
  <1>2. Rank(S, x) \in Int
    <2>1. Cardinality(S) \in Nat
      BY PositionsFinite
    <2> QED
      BY <2>1, RankType
  <1>3. ~ (x < y)
    BY <1>2, RankGrows
  <1>4. ~ (y < x)
    BY <1>2, RankGrows
  <1> QED
    BY <1>1, <1>3, <1>4

\* A new highest position comes last and changes no other rank.
LEMMA RankAdd ==
    ASSUME NEW S, Positions(S), NEW m \in Nat \ {0}, \A x \in S : x < m
    PROVE  /\ Cardinality(S \cup {m}) = Cardinality(S) + 1
           /\ \A x \in S : Rank(S \cup {m}, x) = Rank(S, x)
           /\ Rank(S \cup {m}, m) = Cardinality(S) + 1
  <1>0. IsFiniteSet(S)
    BY PositionsFinite
  <1>1. m \notin S /\ \A x \in S : x \in Nat /\ x < m
    BY PositionsFinite
  <1>2. Cardinality(S \cup {m}) = Cardinality(S) + 1
    BY <1>0, <1>1, FS_AddElement
  <1>3. ASSUME NEW x \in S PROVE Rank(S \cup {m}, x) = Rank(S, x)
    <2>1. x \in Nat /\ ~ (m <= x)
      BY <1>1
    <2>2. {j \in S \cup {m} : j <= x} = {j \in S : j <= x}
      BY <2>1
    <2> QED
      BY <2>2 DEF Rank
  <1>4. {j \in S \cup {m} : j <= m} = S \cup {m}
    <2>1. \A j \in S \cup {m} : j <= m
      BY <1>1
    <2> QED
      BY <2>1
  <1> QED
    BY <1>2, <1>3, <1>4 DEF Rank

\* ... so that each rank is taken still.
LEMMA RankedAdd ==
    ASSUME NEW S, Positions(S), NEW m \in Nat \ {0}, \A x \in S : x < m,
           Ranked(S)
    PROVE  Ranked(S \cup {m})
  <1> SUFFICES ASSUME NEW k \in 1..Cardinality(S \cup {m})
               PROVE  \E x \in S \cup {m} : Rank(S \cup {m}, x) = k
    BY DEF Ranked
  <1>1. Cardinality(S) \in Nat
    BY PositionsFinite
  <1>2. CASE k = Cardinality(S) + 1
    BY <1>2, RankAdd
  <1>3. CASE k # Cardinality(S) + 1
    <2>0. Cardinality(S \cup {m}) = Cardinality(S) + 1
      BY RankAdd
    <2>1. k \in 1..Cardinality(S)
      BY <1>1, <1>3, <2>0
    <2>2. PICK x \in S : Rank(S, x) = k
      BY <2>1 DEF Ranked
    <2> QED
      BY <2>2, RankAdd
  <1> QED
    BY <1>2, <1>3

\* Every set of positions is ranked: the least n for which 1..n had a subset
\* that is not would contain n, and without n it would be ranked.
LEMMA AllRanked == ASSUME NEW S, Positions(S) PROVE Ranked(S)
  <1> DEFINE T == {n \in Nat : \E P \in SUBSET (1..n) : ~Ranked(P)}
  <1> SUFFICES ASSUME ~Ranked(S) PROVE FALSE
    OBVIOUS
  <1>0. T # {}
    BY DEF Positions
  <1>1. PICK n \in T : \A y \in T : n <= y
    BY <1>0, LeastNatural
  <1>2. PICK P \in SUBSET (1..n) : ~Ranked(P)
    BY <1>1
  <1>3. n \in Nat
    OBVIOUS
  <1>4. P # {}
    <2>1. Ranked({})
      BY FS_EmptySet DEF Ranked
    <2> QED
      BY <1>2, <2>1
  <1>5. n > 0
    <2>1. PICK x : x \in P
      BY <1>4
    <2>2. x \in 1..n
      BY <2>1
    <2> QED
      BY <1>3, <2>2
  <1>6. n - 1 \in Nat /\ n - 1 \notin T
    BY <1>1, <1>3, <1>5
  <1>7. ASSUME NEW U \in SUBSET (1..(n - 1)) PROVE Ranked(U)
    BY <1>6
  <1>8. CASE n \in P
    <2>1. P \ {n} \in SUBSET (1..(n - 1))
      BY <1>3
    <2>2. Ranked(P \ {n})
      BY <1>7, <2>1
    <2>3. Ranked((P \ {n}) \cup {n})
      <3>1. \A x \in P \ {n} : x < n
        BY <1>3
      <3>2. Positions(P \ {n})
        BY <1>6, <2>1 DEF Positions
      <3>3. n \in Nat \ {0}
        BY <1>3, <1>5
      <3> QED
        BY <2>2, <3>1, <3>2, <3>3, RankedAdd
    <2>4. (P \ {n}) \cup {n} = P
      BY <1>8
    <2> QED
      BY <1>2, <2>3, <2>4
  <1>9. CASE n \notin P
    <2>1. P \in SUBSET (1..(n - 1))
      BY <1>3, <1>9
    <2> QED
      BY <1>2, <1>7, <2>1
  <1> QED
    BY <1>8, <1>9

\* The list has each position once, in its rank.
LEMMA InOrderType ==
    ASSUME NEW S, Positions(S)
    PROVE  /\ Stream!InOrder(S) \in [1..Cardinality(S) -> S]
           /\ Stream!InOrder(S) \in Seq(S)
           /\ Len(Stream!InOrder(S)) = Cardinality(S)
           /\ \A k \in 1..Cardinality(S) : Rank(S, Stream!InOrder(S)[k]) = k
           /\ \A x \in S : Stream!InOrder(S)[Rank(S, x)] = x
  <1>0. Cardinality(S) \in Nat
    BY PositionsFinite
  <1>1. ASSUME NEW k \in 1..Cardinality(S)
        PROVE  Stream!InOrder(S)[k] \in S /\ Rank(S, Stream!InOrder(S)[k]) = k
    <2>1. \E x \in S : Rank(S, x) = k
      BY AllRanked DEF Ranked
    <2>2. Stream!InOrder(S)[k] = CHOOSE x \in S : Rank(S, x) = k
      BY SameCardinality, Zenon DEF Stream!InOrder, Rank
    <2> QED
      BY <2>1, <2>2
  <1>2. Stream!InOrder(S) \in [1..Cardinality(S) -> S]
    <2>0. Stream!Cardinality(S) = Cardinality(S)
      BY SameCardinality
    <2>1. Stream!InOrder(S) = [k \in 1..Stream!Cardinality(S) |-> Stream!InOrder(S)[k]]
      BY SMTT(40) DEF Stream!InOrder
    <2> QED
      BY <1>1, <2>0, <2>1
  <1>3. Stream!InOrder(S) \in Seq(S) /\ Len(Stream!InOrder(S)) = Cardinality(S)
    BY <1>0, <1>2
  <1>4. ASSUME NEW x \in S PROVE Stream!InOrder(S)[Rank(S, x)] = x
    <2>1. Rank(S, x) \in 1..Cardinality(S)
      BY RankType
    <2>2. Rank(S, Stream!InOrder(S)[Rank(S, x)]) = Rank(S, x)
          /\ Stream!InOrder(S)[Rank(S, x)] \in S
      BY <1>1, <2>1
    <2> QED
      BY <2>2, RankUnique
  <1> QED
    BY <1>1, <1>2, <1>3, <1>4

\* A new highest position comes last in the list.
LEMMA InOrderAdd ==
    ASSUME NEW S, Positions(S), NEW m \in Nat \ {0}, \A x \in S : x < m
    PROVE  /\ Cardinality(S \cup {m}) = Cardinality(S) + 1
           /\ \A k \in 1..Cardinality(S) :
                Stream!InOrder(S \cup {m})[k] = Stream!InOrder(S)[k]
           /\ Stream!InOrder(S \cup {m})[Cardinality(S) + 1] = m
  <1> DEFINE U == S \cup {m}
  <1>1. Positions(U)
    <2>1. \A x \in S : x \in Nat /\ x > 0
      BY PositionsFinite
    <2>2. U \subseteq 1..m
      BY <2>1
    <2> QED
      BY <2>2 DEF Positions
  <1>2. \A x \in U : Stream!InOrder(U)[Rank(U, x)] = x
    BY <1>1, InOrderType
  <1>3. ASSUME NEW k \in 1..Cardinality(S)
        PROVE  Stream!InOrder(U)[k] = Stream!InOrder(S)[k]
    <2>1. Stream!InOrder(S)[k] \in S /\ Rank(S, Stream!InOrder(S)[k]) = k
      BY InOrderType
    <2>2. Rank(U, Stream!InOrder(S)[k]) = k
      BY <2>1, RankAdd
    <2> QED
      BY <1>2, <2>1, <2>2
  <1>4. Stream!InOrder(U)[Cardinality(S) + 1] = m
    BY <1>2, RankAdd
  <1> QED
    BY <1>3, <1>4, RankAdd

---------------------------------------------------------------------------
(* The text of a line.                                                     *)

\* What may be typed, and the same text in both modules.
Chars == UNION Keyboards

\* The lexer and the grammar have the same classes of characters.
LEMMA Classes ==
    /\ \A c : IsSpace(c) <=> c \in Stream!Blank
    /\ \A c : Stream!Letter(c) <=> ~IsSpace(c) /\ ~IsSpecial(c)
    /\ \A c \in Chars : c # ">>" /\ c # "too_long"
  <1>1. \A c : IsSpace(c) <=> c \in Stream!Blank
    BY Zenon DEF IsSpace, Stream!Blank
  <1>2. \A c : IsSpecial(c) <=> c \in Stream!Special
    BY Zenon DEF IsSpecial, Stream!Special
  <1>3. \A c : Stream!Letter(c) <=> ~IsSpace(c) /\ ~IsSpecial(c)
    BY <1>1, <1>2, Zenon DEF Stream!Letter
  <1>4. \A c \in Chars : c # ">>" /\ c # "too_long"
    BY KeyboardsAssumption DEF Chars
  <1> QED
    BY <1>1, <1>3, <1>4

\* parse_line sees the visible text, less a carriage return at its end.
LEMMA VisibleLine ==
    ASSUME NEW C, NEW b \in Seq(C)
    PROVE  /\ CString(b) \in Seq(C) /\ Stream!Visible(b) \in Seq(C)
           /\ Len(CString(b)) <= Len(Stream!Visible(b))
           /\ Len(CString(b)) <= Len(b)
           /\ \A k \in 1..Len(CString(b)) : Stream!Visible(b)[k] = CString(b)[k]
           /\ \A k \in (Len(CString(b)) + 1)..Len(Stream!Visible(b)) :
                Stream!Visible(b)[k] = "CR"
  <1> DEFINE a == Append(b, "NUL")
             I == {k \in 1..Len(a) : a[k] = "NUL"}
             m == Min(I)
             n == IF b # <<>> /\ b[Len(b)] = "CR" THEN Len(b) - 1 ELSE Len(b)
             nuls == {k \in 1..n : b[k] = "NUL"}
  <1>0. Len(a) = Len(b) + 1 /\ a[Len(b) + 1] = "NUL"
        /\ \A k \in 1..Len(b) : a[k] = b[k]
    OBVIOUS
  <1>1. I \in SUBSET Nat /\ I # {}
    BY <1>0
  <1>2. m \in I /\ \A k \in I : m <= k
    BY <1>1, MinIsLeast
  <1>3. Stream!Visible(b) = SubSeq(b, 1, m - 1)
    <2>1. Stream!Min(I) = m
      BY <1>1, MinIsLeast
    <2>2. Stream!Visible(b) = SubSeq(b, 1, (IF I # {} THEN Stream!Min(I) ELSE 0) - 1)
      BY DEF Stream!Visible, Stream!SelectInSeq
    <2> QED
      BY <1>1, <2>1, <2>2
  <1>4. m \in 1..(Len(b) + 1)
    BY <1>0, <1>2
  <1>5. m <= Len(b) => b[m] = "NUL"
    <2>1. a[m] = "NUL"
      BY <1>2
    <2> HIDE DEF m, a
    <2> QED
      BY <1>0, <1>4, <2>1
  <1>6. n \in Nat /\ n <= Len(b) /\ (n = Len(b) \/ (n = Len(b) - 1 /\ b[Len(b)] = "CR"))
    <2>1. b # <<>> => Len(b) > 0
      OBVIOUS
    <2>2. CASE b # <<>> /\ b[Len(b)] = "CR"
      BY <2>1, <2>2
    <2>3. CASE ~ (b # <<>> /\ b[Len(b)] = "CR")
      BY <2>3
    <2> QED
      BY <2>2, <2>3
  <1>7. CString(b) = SubSeq(b, 1, IF nuls = {} THEN n ELSE Min(nuls) - 1)
    BY DEF CString
  <1> HIDE DEF m, n, a
  <1>8. CASE nuls = {}
    <2>1. ~ (m <= n)
      BY <1>4, <1>5, <1>6, <1>8
    <2>2. m = Len(b) + 1
      <3>1. m # Len(b)
        BY <1>4, <1>5, <1>6, <2>1
      <3> QED
        BY <1>4, <1>6, <2>1, <3>1
    <2>3. Stream!Visible(b) = SubSeq(b, 1, Len(b)) /\ CString(b) = SubSeq(b, 1, n)
      <3>1. m - 1 = Len(b)
        BY <2>2
      <3> QED
        BY <1>3, <1>7, <1>8, <3>1
    <2>4. Len(CString(b)) = n /\ Len(Stream!Visible(b)) = Len(b)
      BY <1>6, <2>3
    <2>5. \A k \in 1..n : CString(b)[k] = b[k]
      BY <1>6, <2>3
    <2>6. \A k \in 1..Len(b) : Stream!Visible(b)[k] = b[k]
      BY <2>3
    <2>7. CString(b) \in Seq(C) /\ Stream!Visible(b) \in Seq(C)
      BY <1>6, <2>3
    <2> QED
      BY <1>6, <2>4, <2>5, <2>6, <2>7
  <1>9. CASE nuls # {}
    <2>1. nuls \in SUBSET Nat
      OBVIOUS
    <2>2. Min(nuls) \in nuls /\ \A k \in nuls : Min(nuls) <= k
      BY <1>9, <2>1, MinIsLeast
    <2>3. m <= Min(nuls)
      <3>1. Min(nuls) \in I
        BY <1>0, <1>6, <2>2
      <3> QED
        BY <1>2, <3>1
    <2>4. m \in nuls
      <3>1. m \in 1..n
        BY <1>4, <1>6, <2>2, <2>3
      <3> QED
        BY <1>5, <1>6, <3>1
    <2>5. Min(nuls) = m
      BY <1>4, <2>2, <2>3, <2>4
    <2>6. Stream!Visible(b) = SubSeq(b, 1, m - 1) /\ CString(b) = SubSeq(b, 1, m - 1)
      BY <1>3, <1>7, <1>9, <2>5
    <2>7. Len(CString(b)) = m - 1 /\ CString(b) \in Seq(C)
      BY <1>4, <2>6
    <2> QED
      BY <1>4, <2>6, <2>7
  <1> QED
    BY <1>8, <1>9

\* Two sequences with the same elements are the same.
LEMMA SeqEqual ==
    ASSUME NEW C, NEW s \in Seq(C), NEW t \in Seq(C), Len(s) = Len(t),
           \A k \in 1..Len(s) : s[k] = t[k]
    PROVE  s = t
  OBVIOUS

---------------------------------------------------------------------------
(* Where tokens start and end.                                             *)

\* The positions of an unbroken run of ">" up to x, with x itself.
Run(t, x) == {j \in 1..x : \A k \in j..(x - 1) : t[k] = ">"}

\* The run grows by one with each ">".
LEMMA RunLength ==
    ASSUME NEW t, NEW x \in Nat \ {0}
    PROVE  /\ Cardinality(Run(t, x)) \in Nat
           /\ x = 1 \/ t[x - 1] # ">" => Cardinality(Run(t, x)) = 1
           /\ x > 1 /\ t[x - 1] = ">" =>
                Cardinality(Run(t, x)) = Cardinality(Run(t, x - 1)) + 1
  <1>1. ASSUME NEW y \in Nat PROVE Positions(Run(t, y))
    BY DEF Positions, Run
  <1>2. ASSUME x = 1 \/ t[x - 1] # ">" PROVE Cardinality(Run(t, x)) = 1
    <2>1. Run(t, x) = {x}
      <3>1. x \in Run(t, x)
        BY DEF Run
      <3>2. ASSUME NEW j \in Run(t, x) PROVE j = x
        <4>1. j \in 1..x
          BY DEF Run
        <4>2. CASE j < x
          <5>1. x - 1 \in j..(x - 1) /\ x # 1
            BY <4>1, <4>2
          <5>2. t[x - 1] = ">"
            BY <5>1 DEF Run
          <5> QED
            BY <1>2, <5>1, <5>2
        <4> QED
          BY <4>1, <4>2
      <3> QED
        BY <3>1, <3>2
    <2> QED
      BY <2>1, FS_Singleton
  <1>3. ASSUME x > 1, t[x - 1] = ">"
        PROVE  Cardinality(Run(t, x)) = Cardinality(Run(t, x - 1)) + 1
    <2>1. Run(t, x) = Run(t, x - 1) \cup {x}
      <3>1. ASSUME NEW j \in Run(t, x), j # x PROVE j \in Run(t, x - 1)
        BY <3>1 DEF Run
      <3>2. ASSUME NEW j \in Run(t, x - 1) PROVE j \in Run(t, x)
        <4>1. j \in 1..x
          BY DEF Run
        <4>2. ASSUME NEW k \in j..(x - 1) PROVE t[k] = ">"
          <5>1. CASE k = x - 1
            BY <1>3, <5>1
          <5>2. CASE k # x - 1
            <6>1. k \in j..((x - 1) - 1)
              BY <4>1, <5>2
            <6> QED
              BY <6>1 DEF Run
          <5> QED
            BY <5>1, <5>2
        <4> QED
          BY <4>1, <4>2 DEF Run
      <3>3. x \in Run(t, x)
        BY DEF Run
      <3> QED
        BY <3>1, <3>2, <3>3
    <2>2. x \notin Run(t, x - 1)
      BY DEF Run
    <2>3. IsFiniteSet(Run(t, x - 1))
      <3>1. x - 1 \in Nat
        OBVIOUS
      <3> QED
        BY <1>1, <3>1, PositionsFinite
    <2> QED
      BY <2>1, <2>2, <2>3, FS_AddElement
  <1>4. Cardinality(Run(t, x)) \in Nat
    BY <1>1, PositionsFinite
  <1> QED
    BY <1>2, <1>3, <1>4

\* What it takes for a token to start at x.
LEMMA TokenStarts ==
    ASSUME NEW t, NEW x \in Nat \ {0}
    PROVE  /\ IsSpace(t[x]) => ~Stream!StartsAt(t, x)
           /\ t[x] = ">" =>
                (Stream!StartsAt(t, x) <=> Cardinality(Run(t, x)) % 2 = 1)
           /\ IsSpecial(t[x]) /\ t[x] # ">" => Stream!StartsAt(t, x)
           /\ Stream!Letter(t[x]) =>
                (Stream!StartsAt(t, x) <=> x = 1 \/ ~Stream!Letter(t[x - 1]))
  <1>1. Stream!StartsAt(t, x) =
          CASE t[x] \in Stream!Blank -> FALSE
            [] t[x] = ">" -> Cardinality(Run(t, x)) % 2 = 1
            [] t[x] \in Stream!Special \ {">"} -> TRUE
            [] OTHER -> x = 1 \/ ~Stream!Letter(t[x - 1])
    BY SameCardinality, Zenon DEF Stream!StartsAt, Run
  <1>2. IsSpace(t[x]) <=> t[x] \in Stream!Blank
    BY Classes
  <1>3. IsSpecial(t[x]) <=> t[x] \in Stream!Special
    BY Zenon DEF IsSpecial, Stream!Special
  <1>4. t[x] = ">" => ~IsSpace(t[x]) /\ IsSpecial(t[x])
    BY DEF IsSpace, IsSpecial
  <1>5. Stream!Letter(t[x]) <=> ~IsSpace(t[x]) /\ ~IsSpecial(t[x])
    BY Classes
  <1>6. IsSpecial(t[x]) => ~IsSpace(t[x])
    BY DEF IsSpace, IsSpecial
  <1> QED
    BY <1>1, <1>2, <1>3, <1>4, <1>5, <1>6

\* The lexer's word runs to the end of the letters.
LEMMA EndOfWord ==
    ASSUME NEW C, NEW t \in Seq(C), NEW x \in 1..Len(t), Stream!Letter(t[x])
    PROVE  /\ TypeAt(t, x) = "WORD"
           /\ EndAt(t, x) \in x..Len(t)
           /\ \A k \in x..EndAt(t, x) : Stream!Letter(t[k])
           /\ EndAt(t, x) = Len(t) \/ ~Stream!Letter(t[EndAt(t, x) + 1])
  <1> DEFINE W == {j \in x..Len(t) :
                     j = Len(t) \/ IsSpace(t[j + 1]) \/ IsSpecial(t[j + 1])}
             e == Min(W)
  <1>1. TypeAt(t, x) = "WORD"
    BY Classes DEF TypeAt, IsSpecial
  <1>2. EndAt(t, x) = e
    BY <1>1, Zenon DEF EndAt
  <1>3. W \in SUBSET Nat /\ Len(t) \in W
    OBVIOUS
  <1>4. e \in W /\ \A y \in W : e <= y
    BY <1>3, MinIsLeast
  <1> HIDE DEF e
  <1>5. e \in x..Len(t)
    BY <1>4
  <1>6. e = Len(t) \/ ~Stream!Letter(t[e + 1])
    BY <1>4, Classes
  <1>7. ASSUME NEW k \in x..e PROVE Stream!Letter(t[k])
    <2> SUFFICES ASSUME k # x, ~Stream!Letter(t[k]) PROVE FALSE
      OBVIOUS
    <2>1. k - 1 \in x..Len(t) /\ (k - 1) + 1 = k
      BY <1>5
    <2>2. k - 1 \in W
      BY <2>1, Classes
    <2> QED
      BY <1>4, <1>5, <2>1, <2>2
  <1> QED
    BY <1>1, <1>2, <1>5, <1>6, <1>7

\* The grammar's word is the same.
LEMMA WordIs ==
    ASSUME NEW C, NEW t \in Seq(C), NEW x \in 1..Len(t), NEW e \in x..Len(t),
           \A k \in x..e : Stream!Letter(t[k]),
           e = Len(t) \/ ~Stream!Letter(t[e + 1])
    PROVE  Stream!TokenAt(t, x) = SubSeq(t, x, e)
  <1> DEFINE Ends(j) == /\ \A k \in x..j : Stream!Letter(t[k])
                        /\ j = Len(t) \/ ~Stream!Letter(t[j + 1])
  <1>1. \A j \in x..Len(t) : Ends(j) => j = e
    <2> TAKE j \in x..Len(t)
    <2> HAVE Ends(j)
    <2>1. ~ (j < e)
      <3> SUFFICES ASSUME j < e PROVE FALSE
        OBVIOUS
      <3>1. j + 1 \in x..e /\ j # Len(t)
        OBVIOUS
      <3> QED
        BY <3>1
    <2>2. ~ (e < j)
      <3> SUFFICES ASSUME e < j PROVE FALSE
        OBVIOUS
      <3>1. e + 1 \in x..j /\ e # Len(t)
        OBVIOUS
      <3> QED
        BY <3>1
    <2> QED
      BY <2>1, <2>2
  <1>2. Ends(e)
    OBVIOUS
  <1> HIDE DEF Ends
  <1>3. (CHOOSE j \in x..Len(t) : Ends(j)) = e
    BY <1>1, <1>2
  <1>4. Stream!Letter(t[x])
    OBVIOUS
  <1>5. Stream!TokenAt(t, x) = SubSeq(t, x, CHOOSE j \in x..Len(t) : Ends(j))
    BY <1>4, Zenon DEF Stream!TokenAt, Ends
  <1> QED
    BY <1>3, <1>5

\* Blanks at the end of a line change no token.
LEMMA SameTokens ==
    ASSUME NEW C, NEW t \in Seq(C), NEW v \in Seq(C), Len(t) <= Len(v),
           \A k \in 1..Len(t) : v[k] = t[k],
           \A k \in (Len(t) + 1)..Len(v) : IsSpace(v[k])
    PROVE  Stream!TokensOf(v) = Stream!TokensOf(t)
  <1> DEFINE S(u) == {x \in 1..Len(u) : Stream!StartsAt(u, x)}
  <1>1. ASSUME NEW x \in 1..Len(t)
        PROVE  Stream!StartsAt(v, x) <=> Stream!StartsAt(t, x)
    <2>1. v[x] = t[x] /\ (x > 1 => v[x - 1] = t[x - 1])
      OBVIOUS
    <2>2. Run(v, x) = Run(t, x)
      <3>1. ASSUME NEW j \in 1..x
            PROVE  (\A k \in j..(x - 1) : v[k] = ">") <=> (\A k \in j..(x - 1) : t[k] = ">")
        OBVIOUS
      <3> QED
        BY <3>1 DEF Run
    <2>3. x \in Nat \ {0}
      OBVIOUS
    <2>4. IsSpace(t[x]) \/ t[x] = ">" \/ (IsSpecial(t[x]) /\ t[x] # ">") \/ Stream!Letter(t[x])
      BY Classes
    <2> QED
      BY <2>1, <2>2, <2>3, <2>4, TokenStarts
  <1>2. ASSUME NEW x \in 1..Len(v), x > Len(t) PROVE ~Stream!StartsAt(v, x)
    <2>1. x \in Nat \ {0} /\ x \in (Len(t) + 1)..Len(v)
      BY <1>2
    <2> QED
      BY <2>1, TokenStarts
  <1>3. S(v) = S(t)
    BY <1>1, <1>2
  <1>4. ASSUME NEW x \in 1..Len(t) PROVE Stream!TokenAt(v, x) = Stream!TokenAt(t, x)
    <2>1. CASE ~Stream!Letter(t[x])
      <3>1. x < Len(v) /\ v[x + 1] = ">" <=> x < Len(t) /\ t[x + 1] = ">"
        <4>1. CASE x < Len(t)
          BY <4>1
        <4>2. CASE x = Len(t)
          <5>1. ASSUME x < Len(v) PROVE IsSpace(v[x + 1])
            <6>1. x + 1 \in (Len(t) + 1)..Len(v)
              BY <4>2, <5>1
            <6> QED
              BY <6>1
          <5>2. x < Len(v) => v[x + 1] # ">"
            BY <5>1, Zenon DEF IsSpace
          <5> QED
            BY <4>2, <5>2
        <4> QED
          BY <4>1, <4>2
      <3>2. v[x] = t[x]
        OBVIOUS
      <3> QED
        BY <2>1, <3>1, <3>2 DEF Stream!TokenAt
    <2>2. CASE Stream!Letter(t[x])
      <3> DEFINE e == EndAt(t, x)
      <3>1. /\ e \in x..Len(t)
            /\ \A k \in x..e : Stream!Letter(t[k])
            /\ e = Len(t) \/ ~Stream!Letter(t[e + 1])
        BY <2>2, EndOfWord
      <3> HIDE DEF e
      <3>2. Stream!TokenAt(t, x) = SubSeq(t, x, e)
        BY <3>1, WordIs
      <3>3. x \in 1..Len(v) /\ e \in x..Len(v) /\ \A k \in x..e : Stream!Letter(v[k])
        BY <3>1
      <3>4. e = Len(v) \/ ~Stream!Letter(v[e + 1])
        <4>1. CASE e = Len(t) /\ e # Len(v)
          <5>1. e + 1 \in (Len(t) + 1)..Len(v)
            BY <4>1
          <5>2. IsSpace(v[e + 1])
            BY <5>1
          <5> QED
            BY <5>2, Classes
        <4>2. CASE e # Len(t)
          BY <3>1, <4>2
        <4> QED
          BY <4>1, <4>2
      <3>5. Stream!TokenAt(v, x) = SubSeq(v, x, e)
        BY <3>3, <3>4, WordIs
      <3>6. SubSeq(v, x, e) = SubSeq(t, x, e)
        <4>1. /\ SubSeq(v, x, e) \in Seq(C) /\ Len(SubSeq(v, x, e)) = e - x + 1
              /\ SubSeq(t, x, e) \in Seq(C) /\ Len(SubSeq(t, x, e)) = e - x + 1
          BY <3>1, <3>3
        <4>2. ASSUME NEW k \in 1..(e - x + 1)
              PROVE  SubSeq(v, x, e)[k] = SubSeq(t, x, e)[k]
          <5>1. x + k - 1 \in 1..Len(t)
            BY <3>1
          <5>2. SubSeq(v, x, e)[k] = v[x + k - 1] /\ SubSeq(t, x, e)[k] = t[x + k - 1]
            BY <3>1, <3>3
          <5> QED
            BY <5>1, <5>2
        <4> QED
          BY <4>1, <4>2
      <3> QED
        BY <3>2, <3>5, <3>6
    <2> QED
      BY <2>1, <2>2
  <1>5. Positions(S(t))
    <2>1. Len(t) \in Nat /\ S(t) \subseteq 1..Len(t)
      OBVIOUS
    <2> QED
      BY <2>1 DEF Positions
  <1>6. /\ Stream!InOrder(S(t)) \in [1..Cardinality(S(t)) -> S(t)]
        /\ Len(Stream!InOrder(S(t))) = Cardinality(S(t))
    BY <1>5, InOrderType
  <1>7. \A k \in 1..Len(Stream!InOrder(S(t))) :
          Stream!TokenAt(v, Stream!InOrder(S(t))[k]) = Stream!TokenAt(t, Stream!InOrder(S(t))[k])
    <2> TAKE k \in 1..Len(Stream!InOrder(S(t)))
    <2>1. Stream!InOrder(S(t))[k] \in S(t)
      BY <1>6
    <2>2. Stream!InOrder(S(t))[k] \in 1..Len(t)
      BY <2>1
    <2> QED
      BY <1>4, <2>2
  <1>8. \A u : Stream!TokensOf(u) =
                 [k \in 1..Len(Stream!InOrder(S(u))) |->
                    Stream!TokenAt(u, Stream!InOrder(S(u))[k])]
    BY Zenon DEF Stream!TokensOf
  <1> HIDE DEF S
  <1> QED
    BY <1>3, <1>7, <1>8

---------------------------------------------------------------------------
(* One step of tokenize.                                                   *)

\* The token of the grammar that a token of the lexer stands for.
Meant(tok) == IF tok.type = "APPEND" THEN <<">>">> ELSE tok.text

Symbols ==
    {<<"WORD", "word">>, <<"IN", "<">>, <<"OUT", ">">>, <<"APPEND", ">>">>,
     <<"PIPE", "|">>, <<"BACKGROUND", "&">>}

\* The type says what kind of token it is, and only a word may be long.
Proper(tok) ==
    /\ <<tok.type, Stream!Symbol(Meant(tok))>> \in Symbols
    /\ tok.type = "WORD" <=> Stream!IsWord(Meant(tok))
    /\ Len(tok.text) > 0
    /\ tok.type # "WORD" => Len(tok.text) <= 2

\* Where the tokens before x start.
Starts(t, x) == {j \in 1..(x - 1) : Stream!StartsAt(t, j)}

\* Nothing is open at x: what is there is blank or starts a token.
Boundary(t, x) ==
    /\ x \in 1..(Len(t) + 1)
    /\ x <= Len(t) => IsSpace(t[x]) \/ Stream!StartsAt(t, x)

\* A line begins at a boundary.
LEMMA FirstBoundary ==
    ASSUME NEW C, NEW t \in Seq(C)
    PROVE  Boundary(t, 1) /\ Starts(t, 1) = {}
  <1>1. 1 \in Nat \ {0} /\ 1 \in 1..(Len(t) + 1)
    OBVIOUS
  <1>2. Cardinality(Run(t, 1)) = 1
    BY <1>1, RunLength
  <1>3. IsSpace(t[1]) \/ t[1] = ">" \/ (IsSpecial(t[1]) /\ t[1] # ">") \/ Stream!Letter(t[1])
    BY Classes
  <1>4. IsSpace(t[1]) \/ Stream!StartsAt(t, 1)
    BY <1>1, <1>2, <1>3, TokenStarts
  <1> QED
    BY <1>1, <1>4 DEF Boundary, Starts

\* A boundary follows each character after which nothing stays open: a letter
\* with no letter behind it, or a ">" that is not the first of a pair.
LEMMA NextBoundary ==
    ASSUME NEW C, NEW t \in Seq(C), NEW x \in 1..Len(t),
           t[x] = ">" => x = Len(t) \/ t[x + 1] # ">" \/ ~Stream!StartsAt(t, x),
           Stream!Letter(t[x]) => x = Len(t) \/ ~Stream!Letter(t[x + 1])
    PROVE  Boundary(t, x + 1)
  <1>0. x + 1 \in Nat \ {0} /\ (x + 1) - 1 = x /\ x + 1 \in 1..(Len(t) + 1)
        /\ x \in Nat \ {0} /\ x + 1 > 1
    OBVIOUS
  <1> SUFFICES ASSUME x + 1 <= Len(t), ~IsSpace(t[x + 1])
               PROVE  Stream!StartsAt(t, x + 1)
    BY <1>0 DEF Boundary
  <1>1. CASE t[x + 1] = ">" /\ t[x] # ">"
    <2>1. Cardinality(Run(t, x + 1)) = 1
      BY <1>0, <1>1, RunLength
    <2> QED
      BY <1>0, <1>1, <2>1, TokenStarts
  <1>2. CASE t[x + 1] = ">" /\ t[x] = ">"
    <2>1. Cardinality(Run(t, x + 1)) = Cardinality(Run(t, x)) + 1
      BY <1>0, <1>2, RunLength
    <2>2. Cardinality(Run(t, x)) \in Nat
      BY <1>0, RunLength
    <2>3. Cardinality(Run(t, x)) % 2 # 1
      BY <1>0, <1>2, TokenStarts
    <2>4. Cardinality(Run(t, x + 1)) % 2 = 1
      BY <2>1, <2>2, <2>3
    <2> QED
      BY <1>0, <1>2, <2>4, TokenStarts
  <1>3. CASE t[x + 1] # ">"
    <2>1. (IsSpecial(t[x + 1]) /\ t[x + 1] # ">") \/ Stream!Letter(t[x + 1])
      BY <1>3, Classes
    <2> QED
      BY <1>0, <2>1, TokenStarts
  <1> QED
    BY <1>1, <1>2, <1>3

\* A blank ends nothing and starts nothing.
LEMMA SpaceStep ==
    ASSUME NEW C, NEW t \in Seq(C), NEW x \in 1..Len(t), IsSpace(t[x])
    PROVE  Boundary(t, x + 1) /\ Starts(t, x + 1) = Starts(t, x)
  <1>1. t[x] # ">" /\ ~Stream!Letter(t[x])
    BY Classes DEF IsSpace
  <1>2. Boundary(t, x + 1)
    BY <1>1, NextBoundary
  <1>3. ~Stream!StartsAt(t, x)
    <2>1. x \in Nat \ {0}
      OBVIOUS
    <2> QED
      BY <2>1, TokenStarts
  <1>4. 1..((x + 1) - 1) = (1..(x - 1)) \cup {x}
    OBVIOUS
  <1> QED
    BY <1>2, <1>3, <1>4 DEF Starts

\* The starts up to the end of a token are those before it and its own.
LEMMA StartsUpTo ==
    ASSUME NEW t, NEW x \in Nat \ {0}, NEW e \in Nat, x <= e,
           Stream!StartsAt(t, x), \A k \in (x + 1)..e : ~Stream!StartsAt(t, k)
    PROVE  Starts(t, e + 1) = Starts(t, x) \cup {x}
  <1>1. ASSUME NEW j \in Starts(t, e + 1) PROVE j \in Starts(t, x) \cup {x}
    <2>1. j \in 1..e /\ Stream!StartsAt(t, j)
      BY DEF Starts
    <2>2. j \notin (x + 1)..e
      BY <2>1
    <2>3. j = x \/ j \in 1..(x - 1)
      BY <2>1, <2>2
    <2> QED
      BY <2>1, <2>3 DEF Starts
  <1>2. ASSUME NEW j \in Starts(t, x) \cup {x} PROVE j \in Starts(t, e + 1)
    <2>1. j \in 1..((e + 1) - 1)
      BY DEF Starts
    <2> QED
      BY <2>1 DEF Starts
  <1> QED
    BY <1>1, <1>2

\* A word.
LEMMA WordStep ==
    ASSUME NEW C \in SUBSET Chars, NEW t \in Seq(C), NEW x \in 1..Len(t), Stream!StartsAt(t, x),
           Stream!Letter(t[x])
    PROVE  /\ EndAt(t, x) \in x..Len(t)
           /\ Boundary(t, EndAt(t, x) + 1)
           /\ Starts(t, EndAt(t, x) + 1) = Starts(t, x) \cup {x}
           /\ Meant(TokenFrom(t, x)) = Stream!TokenAt(t, x)
           /\ Proper(TokenFrom(t, x))
           /\ TokenFrom(t, x) \in [type : TokenTypes, text : Seq(C)]
  <1> DEFINE e == EndAt(t, x)
             w == SubSeq(t, x, e)
  <1>1. /\ TypeAt(t, x) = "WORD" /\ e \in x..Len(t)
        /\ \A k \in x..e : Stream!Letter(t[k])
        /\ e = Len(t) \/ ~Stream!Letter(t[e + 1])
    BY EndOfWord
  <1>1a. TokenFrom(t, x) = [type |-> "WORD", text |-> w]
    BY <1>1 DEF TokenFrom, Token
  <1> HIDE DEF e
  <1>2. w \in Seq(C) /\ Len(w) = e - x + 1 /\ w[1] = t[x]
    BY <1>1
  <1> HIDE DEF w
  <1>3. Boundary(t, e + 1)
    <2>1. e \in 1..Len(t) /\ Stream!Letter(t[e])
      BY <1>1
    <2>2. t[e] # ">"
      BY <2>1, Classes DEF IsSpecial
    <2> QED
      BY <1>1, <2>1, <2>2, NextBoundary
  <1>4. Starts(t, e + 1) = Starts(t, x) \cup {x}
    <2>1. ASSUME NEW k \in (x + 1)..e PROVE ~Stream!StartsAt(t, k)
      <3>1. k \in Nat \ {0} /\ k # 1 /\ k \in x..e /\ k - 1 \in x..e
        BY <1>1
      <3> QED
        BY <1>1, <3>1, TokenStarts
    <2>2. x \in Nat \ {0} /\ e \in Nat /\ x <= e
      BY <1>1
    <2> QED
      BY <2>1, <2>2, StartsUpTo
  <1>5. Meant(TokenFrom(t, x)) = w
    BY <1>1a DEF Meant
  <1>6. Stream!TokenAt(t, x) = w
    BY <1>1, WordIs DEF w
  <1>7. Proper(TokenFrom(t, x))
    <2>1. w # <<">>">>
      <3>1. t[x] \in Chars
        OBVIOUS
      <3>2. t[x] # ">>"
        BY <3>1, Classes
      <3> QED
        BY <1>2, <3>2
    <2>2. Stream!IsWord(w)
      BY <1>2, <2>1 DEF Stream!IsWord
    <2>3. Stream!Symbol(w) = "word"
      BY <2>2 DEF Stream!Symbol
    <2>4. Len(w) > 0
      BY <1>1, <1>2
    <2> QED
      BY <1>1a, <1>5, <2>2, <2>3, <2>4 DEF Proper, Symbols
  <1>8. TokenFrom(t, x) \in [type : TokenTypes, text : Seq(C)]
    BY <1>1a, <1>2 DEF TokenTypes
  <1> QED
    BY <1>1, <1>3, <1>4, <1>5, <1>6, <1>7, <1>8 DEF e

\* A pair ">>".
LEMMA PairStep ==
    ASSUME NEW C \in SUBSET Chars, NEW t \in Seq(C), NEW x \in 1..Len(t), Stream!StartsAt(t, x),
           t[x] = ">", x < Len(t), t[x + 1] = ">"
    PROVE  /\ EndAt(t, x) \in x..Len(t)
           /\ Boundary(t, EndAt(t, x) + 1)
           /\ Starts(t, EndAt(t, x) + 1) = Starts(t, x) \cup {x}
           /\ Meant(TokenFrom(t, x)) = Stream!TokenAt(t, x)
           /\ Proper(TokenFrom(t, x))
           /\ TokenFrom(t, x) \in [type : TokenTypes, text : Seq(C)]
  <1>1. TypeAt(t, x) = "APPEND" /\ EndAt(t, x) = x + 1
    BY DEF TypeAt, EndAt
  <1>2. /\ x \in Nat \ {0} /\ x + 1 \in Nat \ {0} /\ (x + 1) - 1 = x /\ x + 1 > 1
        /\ x + 1 \in 1..Len(t)
    OBVIOUS
  <1>3. ~Stream!StartsAt(t, x + 1)
    <2>1. Cardinality(Run(t, x)) % 2 = 1 /\ Cardinality(Run(t, x)) \in Nat
      BY <1>2, TokenStarts, RunLength
    <2>2. Cardinality(Run(t, x + 1)) = Cardinality(Run(t, x)) + 1
      BY <1>2, RunLength
    <2>3. Cardinality(Run(t, x + 1)) % 2 # 1
      BY <2>1, <2>2
    <2> QED
      BY <1>2, <2>3, TokenStarts
  <1>4. ~Stream!Letter(">")
    BY Classes DEF IsSpecial
  <1>5. Boundary(t, (x + 1) + 1)
    BY <1>2, <1>3, <1>4, NextBoundary
  <1>6. Starts(t, (x + 1) + 1) = Starts(t, x) \cup {x}
    <2>1. \A k \in (x + 1)..(x + 1) : ~Stream!StartsAt(t, k)
      BY <1>3
    <2>2. x + 1 \in Nat /\ x <= x + 1
      OBVIOUS
    <2> QED
      BY <1>2, <2>1, <2>2, StartsUpTo
  <1>7. TokenFrom(t, x) = [type |-> "APPEND", text |-> SubSeq(t, x, x + 1)]
    BY <1>1 DEF TokenFrom, Token
  <1>8. SubSeq(t, x, x + 1) \in Seq(C) /\ Len(SubSeq(t, x, x + 1)) = 2
    BY <1>2
  <1>9. Meant(TokenFrom(t, x)) = <<">>">>
    BY <1>7 DEF Meant
  <1>10. Stream!TokenAt(t, x) = <<">>">>
    BY <1>4 DEF Stream!TokenAt
  <1>11. Proper(TokenFrom(t, x))
    <2>1. ~Stream!IsWord(<<">>">>)
      BY DEF Stream!IsWord
    <2>2. Stream!Symbol(<<">>">>) = ">>"
      BY <2>1 DEF Stream!Symbol
    <2> QED
      BY <1>7, <1>8, <1>9, <2>1, <2>2 DEF Proper, Symbols
  <1> QED
    BY <1>1, <1>2, <1>5, <1>6, <1>7, <1>8, <1>9, <1>10, <1>11 DEF TokenTypes

\* A special character on its own.
LEMMA SymbolStep ==
    ASSUME NEW C \in SUBSET Chars, NEW t \in Seq(C), NEW x \in 1..Len(t), Stream!StartsAt(t, x),
           IsSpecial(t[x]), t[x] = ">" /\ x < Len(t) => t[x + 1] # ">"
    PROVE  /\ EndAt(t, x) \in x..Len(t)
           /\ Boundary(t, EndAt(t, x) + 1)
           /\ Starts(t, EndAt(t, x) + 1) = Starts(t, x) \cup {x}
           /\ Meant(TokenFrom(t, x)) = Stream!TokenAt(t, x)
           /\ Proper(TokenFrom(t, x))
           /\ TokenFrom(t, x) \in [type : TokenTypes, text : Seq(C)]
  <1>0. x \in Nat \ {0} /\ x <= x /\ x + 1 > x
    OBVIOUS
  <1>1. ~Stream!Letter(t[x])
    BY Classes
  <1>2. <<TypeAt(t, x), t[x]>> \in Symbols /\ TypeAt(t, x) \notin {"WORD", "APPEND"}
    BY DEF TypeAt, IsSpecial, Symbols
  <1>3. EndAt(t, x) = x
    BY <1>2 DEF EndAt
  <1>4. Boundary(t, x + 1)
    BY <1>1, NextBoundary
  <1>5. Starts(t, x + 1) = Starts(t, x) \cup {x}
    BY <1>0, StartsUpTo
  <1>6. TokenFrom(t, x) = [type |-> TypeAt(t, x), text |-> SubSeq(t, x, x)]
    BY <1>3 DEF TokenFrom, Token
  <1>7. SubSeq(t, x, x) = <<t[x]>>
    <2>1. Len(SubSeq(t, x, x)) = 1 /\ SubSeq(t, x, x)[1] = t[x]
      OBVIOUS
    <2>2. SubSeq(t, x, x) \in Seq(C) /\ <<t[x]>> \in Seq(C)
      OBVIOUS
    <2>3. Len(<<t[x]>>) = 1 /\ <<t[x]>>[1] = t[x]
      OBVIOUS
    <2>4. \A k \in 1..1 : SubSeq(t, x, x)[k] = <<t[x]>>[k]
      BY <2>1, <2>3
    <2> QED
      BY <2>1, <2>2, <2>3, <2>4, SeqEqual
  <1>8. Meant(TokenFrom(t, x)) = <<t[x]>>
    BY <1>2, <1>6, <1>7 DEF Meant
  <1>9. Stream!TokenAt(t, x) = <<t[x]>>
    BY <1>1 DEF Stream!TokenAt
  <1>10. Proper(TokenFrom(t, x))
    <2>1. ~Stream!IsWord(<<t[x]>>)
      BY <1>1 DEF Stream!IsWord
    <2>2. Stream!Symbol(<<t[x]>>) = t[x]
      BY <2>1 DEF Stream!Symbol
    <2> QED
      BY <1>2, <1>6, <1>7, <1>8, <2>1, <2>2 DEF Proper
  <1>11. TypeAt(t, x) \in TokenTypes
    BY <1>2 DEF Symbols, TokenTypes
  <1>12. x \in x..Len(t)
    OBVIOUS
  <1> QED
    BY <1>3, <1>4, <1>5, <1>6, <1>7, <1>8, <1>9, <1>10, <1>11, <1>12

\* The lexer's next token is the one the grammar has there.
LEMMA TokenStep ==
    ASSUME NEW C \in SUBSET Chars, NEW t \in Seq(C), NEW x \in 1..Len(t), Boundary(t, x),
           ~IsSpace(t[x])
    PROVE  /\ EndAt(t, x) \in x..Len(t)
           /\ Boundary(t, EndAt(t, x) + 1)
           /\ Starts(t, EndAt(t, x) + 1) = Starts(t, x) \cup {x}
           /\ Meant(TokenFrom(t, x)) = Stream!TokenAt(t, x)
           /\ Proper(TokenFrom(t, x))
           /\ TokenFrom(t, x) \in [type : TokenTypes, text : Seq(C)]
  <1>1. Stream!StartsAt(t, x)
    BY DEF Boundary
  <1>2. CASE Stream!Letter(t[x])
    BY <1>1, <1>2, WordStep
  <1>3. CASE ~Stream!Letter(t[x])
    <2>1. IsSpecial(t[x])
      BY <1>3, Classes
    <2>2. CASE t[x] = ">" /\ x < Len(t) /\ t[x + 1] = ">"
      BY <1>1, <2>2, PairStep
    <2>3. CASE ~ (t[x] = ">" /\ x < Len(t) /\ t[x + 1] = ">")
      BY <1>1, <2>1, <2>3, SymbolStep
    <2> QED
      BY <2>2, <2>3
  <1> QED
    BY <1>2, <1>3

---------------------------------------------------------------------------
(* What build_command has read.                                            *)

\* The list of tokens, as the grammar sees it.
Meaning(tl) == [k \in 1..Len(tl) |-> Meant(tl[k])]

Upto(S, p) == {j \in S : j <= p}

\* How many commands the first p tokens begin.
Pipes(ts, p) == {j \in 1..p : Stream!Symbol(ts[j]) = "|"}
Started(ts, p) == 1 + Cardinality(Pipes(ts, p))

ArgsTo(ts, n, p) == Upto(Stream!Args(ts, n), p)
InTo(ts, n, p) == Upto(Stream!Part(ts, n, {"<"}), p)
OutTo(ts, n, p) == Upto(Stream!Part(ts, n, {">", ">>"}), p)
AppendTo(ts, n, p) == Upto(Stream!Part(ts, n, {">>"}), p)
AmpTo(ts, p) == {j \in 1..p : Stream!Symbol(ts[j]) = "&"}

ArgvOf(ts, S, st) ==
    [k \in 1..Cardinality(S) |-> Stream!Expand(ts[Stream!InOrder(S)[k]], st)]

Appends(ts, n, p) == AppendTo(ts, n, p) # {}
InBackground(ts, n, p) == n = 1 /\ AmpTo(ts, p) # {}

\* Command n, as far as the first p tokens tell.
CommandTo(ts, n, p, st) ==
    [argv |-> ArgvOf(ts, ArgsTo(ts, n, p), st),
     in |-> Stream!FileAfter(ts, InTo(ts, n, p)),
     out |-> Stream!FileAfter(ts, OutTo(ts, n, p)),
     append |-> Appends(ts, n, p),
     background |-> InBackground(ts, n, p)]

\* The grammar allows the token at j.
Allowed(ts, j) ==
    /\ Stream!Symbol(ts[j]) = "&" => j = Len(ts)
    /\ Stream!Symbol(ts[j]) \notin {"word", "&"} => Stream!Followed(ts, j)

\* The first p tokens are read, and none of them was an error.
Built(cl, ts, p, st) ==
    /\ p \in 0..Len(ts)
    /\ \A j \in 1..p : Allowed(ts, j)
    /\ ~Stream!IsFile(ts, p + 1)
    /\ Len(cl) = Started(ts, p)
    /\ \A n \in 1..Len(cl) :
         /\ cl[n] = CommandTo(ts, n, p, st)
         /\ ArgsTo(ts, n, p) = {} => n = Len(cl)
         /\ Cardinality(ArgsTo(ts, n, p)) <= MaxArgs - 1 \/ ArgsTo(ts, n, p) = {}
         /\ Cardinality(InTo(ts, n, p)) <= 1
         /\ Cardinality(OutTo(ts, n, p)) <= 1

\* The number of commands grows with each "|".
LEMMA StartedStep ==
    ASSUME NEW ts, NEW p \in Nat
    PROVE  /\ Started(ts, p) \in Nat \ {0}
           /\ Stream!CommandOf(ts, p + 1) = Started(ts, p)
           /\ Stream!Symbol(ts[p + 1]) = "|" => Started(ts, p + 1) = Started(ts, p) + 1
           /\ Stream!Symbol(ts[p + 1]) # "|" => Started(ts, p + 1) = Started(ts, p)
           /\ \A q \in Nat : q <= p => Started(ts, q) <= Started(ts, p)
  <1>1. ASSUME NEW q \in Nat
        PROVE  Positions(Pipes(ts, q)) /\ IsFiniteSet(Pipes(ts, q)) /\ Started(ts, q) \in Nat \ {0}
               /\ Cardinality(Pipes(ts, q)) \in Nat
    <2>1. Positions(Pipes(ts, q))
      BY DEF Positions, Pipes
    <2>2. IsFiniteSet(Pipes(ts, q)) /\ Cardinality(Pipes(ts, q)) \in Nat
      BY <2>1, PositionsFinite
    <2> QED
      BY <2>1, <2>2 DEF Started
  <1>2. Stream!CommandOf(ts, p + 1) = Started(ts, p)
    <2>1. {j \in 1..(p + 1) : j < p + 1 /\ Stream!Symbol(ts[j]) = "|"} = Pipes(ts, p)
      BY DEF Pipes
    <2>2. Stream!Cardinality(Pipes(ts, p)) = Cardinality(Pipes(ts, p))
      BY SameCardinality
    <2>3. Stream!CommandOf(ts, p + 1) =
            1 + Stream!Cardinality({j \in 1..(p + 1) : j < p + 1 /\ Stream!Symbol(ts[j]) = "|"})
      BY Zenon DEF Stream!CommandOf
    <2> QED
      BY <2>1, <2>2, <2>3 DEF Started
  <1>3. ASSUME Stream!Symbol(ts[p + 1]) = "|"
        PROVE  Started(ts, p + 1) = Started(ts, p) + 1
    <2>1. Pipes(ts, p + 1) = Pipes(ts, p) \cup {p + 1}
      BY <1>3 DEF Pipes
    <2>2. p + 1 \notin Pipes(ts, p)
      BY DEF Pipes
    <2>3. Cardinality(Pipes(ts, p + 1)) = Cardinality(Pipes(ts, p)) + 1
      BY <1>1, <2>1, <2>2, FS_AddElement
    <2> QED
      BY <1>1, <2>3 DEF Started
  <1>4. ASSUME Stream!Symbol(ts[p + 1]) # "|"
        PROVE  Started(ts, p + 1) = Started(ts, p)
    <2>1. Pipes(ts, p + 1) = Pipes(ts, p)
      BY <1>4 DEF Pipes
    <2> QED
      BY <2>1 DEF Started
  <1>5. ASSUME NEW q \in Nat, q <= p PROVE Started(ts, q) <= Started(ts, p)
    <2>1. Pipes(ts, q) \subseteq Pipes(ts, p)
      BY <1>5 DEF Pipes
    <2>2. Cardinality(Pipes(ts, q)) <= Cardinality(Pipes(ts, p))
      BY <1>1, <2>1, FS_Subset
    <2> QED
      BY <1>1, <2>2 DEF Started
  <1> QED
    BY <1>1, <1>2, <1>3, <1>4, <1>5

\* Upto, one position on ...
LEMMA NextUpto ==
    ASSUME NEW S, \A j \in S : j \in Nat, NEW p \in Nat
    PROVE  /\ p + 1 \in S => Upto(S, p + 1) = Upto(S, p) \cup {p + 1}
           /\ p + 1 \notin S => Upto(S, p + 1) = Upto(S, p)
  <1>1. p + 1 \in S => Upto(S, p + 1) = Upto(S, p) \cup {p + 1}
    <2> SUFFICES ASSUME p + 1 \in S, NEW j \in S
                 PROVE  j <= p + 1 <=> j <= p \/ j = p + 1
      BY DEF Upto
    <2> QED
      OBVIOUS
  <1>2. p + 1 \notin S => Upto(S, p + 1) = Upto(S, p)
    <2> SUFFICES ASSUME p + 1 \notin S, NEW j \in S
                 PROVE  j <= p + 1 <=> j <= p
      BY DEF Upto
    <2> QED
      OBVIOUS
  <1> QED
    BY <1>1, <1>2

\* ... and all the way.
LEMMA UptoStep ==
    ASSUME NEW n \in Nat, NEW S, S \subseteq 1..n, NEW p \in Nat
    PROVE  /\ Positions(Upto(S, p)) /\ Upto(S, p) \subseteq 1..p
           /\ Upto(S, 0) = {} /\ Upto(S, n) = S
  <1>1. \A j \in S : j \in Nat /\ j > 0 /\ j <= n
    OBVIOUS
  <1>2. Upto(S, p) \subseteq 1..p
    <2> SUFFICES ASSUME NEW j \in S, j <= p PROVE j \in 1..p
      BY DEF Upto
    <2> QED
      BY <1>1
  <1>3. Positions(Upto(S, p))
    BY <1>2 DEF Positions
  <1>6. Upto(S, 0) = {} /\ Upto(S, n) = S
    <2>1. \A j \in S : ~ (j <= 0) /\ j <= n
      BY <1>1
    <2> QED
      BY <2>1, Zenon DEF Upto
  <1> QED
    BY <1>2, <1>3, <1>6

\* What the token behind the first p adds to command n.
LEMMA StepSets ==
    ASSUME NEW ts, Len(ts) \in Nat, NEW p \in Nat, p < Len(ts), NEW n
    PROVE  /\ Stream!Symbol(ts[p + 1]) = "word" /\ ~Stream!IsFile(ts, p + 1) /\ n = Started(ts, p) =>
                ArgsTo(ts, n, p + 1) = ArgsTo(ts, n, p) \cup {p + 1}
           /\ ~ (Stream!Symbol(ts[p + 1]) = "word" /\ ~Stream!IsFile(ts, p + 1) /\ n = Started(ts, p)) =>
                ArgsTo(ts, n, p + 1) = ArgsTo(ts, n, p)
           /\ Stream!Symbol(ts[p + 1]) = "<" /\ n = Started(ts, p) =>
                InTo(ts, n, p + 1) = InTo(ts, n, p) \cup {p + 1}
           /\ ~ (Stream!Symbol(ts[p + 1]) = "<" /\ n = Started(ts, p)) =>
                InTo(ts, n, p + 1) = InTo(ts, n, p)
           /\ Stream!Symbol(ts[p + 1]) \in {">", ">>"} /\ n = Started(ts, p) =>
                OutTo(ts, n, p + 1) = OutTo(ts, n, p) \cup {p + 1}
           /\ ~ (Stream!Symbol(ts[p + 1]) \in {">", ">>"} /\ n = Started(ts, p)) =>
                OutTo(ts, n, p + 1) = OutTo(ts, n, p)
           /\ Stream!Symbol(ts[p + 1]) = ">>" /\ n = Started(ts, p) =>
                AppendTo(ts, n, p + 1) = AppendTo(ts, n, p) \cup {p + 1}
           /\ ~ (Stream!Symbol(ts[p + 1]) = ">>" /\ n = Started(ts, p)) =>
                AppendTo(ts, n, p + 1) = AppendTo(ts, n, p)
  <1>0. Stream!CommandOf(ts, p + 1) = Started(ts, p) /\ p + 1 \in 1..Len(ts)
    BY StartedStep
  <1>1. ASSUME NEW symbols
        PROVE  /\ Stream!Part(ts, n, symbols) \subseteq 1..Len(ts)
               /\ p + 1 \in Stream!Part(ts, n, symbols) <=>
                    n = Started(ts, p) /\ Stream!Symbol(ts[p + 1]) \in symbols
    BY <1>0 DEF Stream!Part
  <1>2. /\ Stream!Args(ts, n) \subseteq 1..Len(ts)
        /\ p + 1 \in Stream!Args(ts, n) <=>
             /\ n = Started(ts, p) /\ Stream!Symbol(ts[p + 1]) = "word"
             /\ ~Stream!IsFile(ts, p + 1)
    BY <1>1 DEF Stream!Args
  <1>3. ASSUME NEW S, S \subseteq 1..Len(ts)
        PROVE  /\ p + 1 \in S => Upto(S, p + 1) = Upto(S, p) \cup {p + 1}
               /\ p + 1 \notin S => Upto(S, p + 1) = Upto(S, p)
    <2>1. \A j \in S : j \in Nat
      BY <1>3
    <2> HIDE <1>3
    <2> QED
      BY <2>1, NextUpto
  <1>4. /\ p + 1 \in Stream!Args(ts, n) => ArgsTo(ts, n, p + 1) = ArgsTo(ts, n, p) \cup {p + 1}
        /\ p + 1 \notin Stream!Args(ts, n) => ArgsTo(ts, n, p + 1) = ArgsTo(ts, n, p)
    BY <1>2, <1>3 DEF ArgsTo
  <1>5. /\ p + 1 \in Stream!Part(ts, n, {"<"}) => InTo(ts, n, p + 1) = InTo(ts, n, p) \cup {p + 1}
        /\ p + 1 \notin Stream!Part(ts, n, {"<"}) => InTo(ts, n, p + 1) = InTo(ts, n, p)
    BY <1>1, <1>3 DEF InTo
  <1>6. /\ p + 1 \in Stream!Part(ts, n, {">", ">>"}) => OutTo(ts, n, p + 1) = OutTo(ts, n, p) \cup {p + 1}
        /\ p + 1 \notin Stream!Part(ts, n, {">", ">>"}) => OutTo(ts, n, p + 1) = OutTo(ts, n, p)
    BY <1>1, <1>3 DEF OutTo
  <1>7. /\ p + 1 \in Stream!Part(ts, n, {">>"}) => AppendTo(ts, n, p + 1) = AppendTo(ts, n, p) \cup {p + 1}
        /\ p + 1 \notin Stream!Part(ts, n, {">>"}) => AppendTo(ts, n, p + 1) = AppendTo(ts, n, p)
    BY <1>1, <1>3 DEF AppendTo
  <1>8. \A s : /\ s \in {"<"} <=> s = "<"
               /\ s \in {">>"} <=> s = ">>"
    OBVIOUS
  <1> QED
    BY <1>1, <1>2, <1>4, <1>5, <1>6, <1>7, <1>8

\* A word that is no file name is an argument of the command begun last.
LEMMA ArgumentStep ==
    ASSUME NEW ts, Len(ts) \in Nat, NEW p \in Nat, p < Len(ts),
           Stream!Symbol(ts[p + 1]) = "word", ~Stream!IsFile(ts, p + 1)
    PROVE  ArgsTo(ts, Started(ts, p), p + 1) = ArgsTo(ts, Started(ts, p), p) \cup {p + 1}
  <1>1. ASSUME NEW n, n = Started(ts, p)
        PROVE  ArgsTo(ts, n, p + 1) = ArgsTo(ts, n, p) \cup {p + 1}
    BY <1>1, StepSets
  <1> QED
    BY <1>1

\* A part of a line is a set of positions that are not above p.
LEMMA PartsType ==
    ASSUME NEW ts, Len(ts) \in Nat, NEW p \in Nat, NEW n
    PROVE  /\ Positions(ArgsTo(ts, n, p)) /\ ArgsTo(ts, n, p) \subseteq 1..p
           /\ Positions(InTo(ts, n, p)) /\ InTo(ts, n, p) \subseteq 1..p
           /\ Positions(OutTo(ts, n, p)) /\ OutTo(ts, n, p) \subseteq 1..p
           /\ AppendTo(ts, n, p) \subseteq 1..p /\ AppendTo(ts, n, p) \subseteq OutTo(ts, n, p)
           /\ ArgsTo(ts, n, Len(ts)) = Stream!Args(ts, n)
           /\ InTo(ts, n, Len(ts)) = Stream!Part(ts, n, {"<"})
           /\ OutTo(ts, n, Len(ts)) = Stream!Part(ts, n, {">", ">>"})
           /\ AppendTo(ts, n, Len(ts)) = Stream!Part(ts, n, {">>"})
           /\ ArgsTo(ts, n, 0) = {} /\ InTo(ts, n, 0) = {}
           /\ OutTo(ts, n, 0) = {} /\ AppendTo(ts, n, 0) = {}
  <1>1. \A symbols : Stream!Part(ts, n, symbols) \subseteq 1..Len(ts)
    BY DEF Stream!Part
  <1>2. Stream!Args(ts, n) \subseteq 1..Len(ts)
    BY <1>1 DEF Stream!Args
  <1>3. ASSUME NEW S, S \subseteq 1..Len(ts)
        PROVE  /\ Positions(Upto(S, p)) /\ Upto(S, p) \subseteq 1..p
               /\ Upto(S, 0) = {} /\ Upto(S, Len(ts)) = S
    BY <1>3, UptoStep
  <1>4. Positions(ArgsTo(ts, n, p)) /\ ArgsTo(ts, n, p) \subseteq 1..p
        /\ ArgsTo(ts, n, 0) = {} /\ ArgsTo(ts, n, Len(ts)) = Stream!Args(ts, n)
    BY <1>2, <1>3 DEF ArgsTo
  <1>5. Positions(InTo(ts, n, p)) /\ InTo(ts, n, p) \subseteq 1..p
        /\ InTo(ts, n, 0) = {} /\ InTo(ts, n, Len(ts)) = Stream!Part(ts, n, {"<"})
    BY <1>1, <1>3 DEF InTo
  <1>6. Positions(OutTo(ts, n, p)) /\ OutTo(ts, n, p) \subseteq 1..p
        /\ OutTo(ts, n, 0) = {} /\ OutTo(ts, n, Len(ts)) = Stream!Part(ts, n, {">", ">>"})
    BY <1>1, <1>3 DEF OutTo
  <1>7. AppendTo(ts, n, p) \subseteq 1..p
        /\ AppendTo(ts, n, 0) = {} /\ AppendTo(ts, n, Len(ts)) = Stream!Part(ts, n, {">>"})
    BY <1>1, <1>3 DEF AppendTo
  <1>8. AppendTo(ts, n, p) \subseteq OutTo(ts, n, p)
    BY DEF AppendTo, OutTo, Upto, Stream!Part
  <1> QED
    BY <1>4, <1>5, <1>6, <1>7, <1>8

\* An argument behind the others is appended to argv.
LEMMA ArgvAdd ==
    ASSUME NEW ts, NEW st, NEW S, Positions(S), NEW m \in Nat \ {0}, \A x \in S : x < m
    PROVE  /\ ArgvOf(ts, S \cup {m}, st) =
                Append(ArgvOf(ts, S, st), Stream!Expand(ts[m], st))
           /\ Len(ArgvOf(ts, S, st)) = Cardinality(S) /\ Cardinality(S) \in Nat
  <1> DEFINE f == ArgvOf(ts, S, st)
             g == ArgvOf(ts, S \cup {m}, st)
             h == Append(f, Stream!Expand(ts[m], st))
             N == Cardinality(S)
  <1>1. N \in Nat
    BY PositionsFinite
  <1>2. Cardinality(S \cup {m}) = N + 1
    BY RankAdd
  <1>3. /\ \A k \in 1..N : Stream!InOrder(S \cup {m})[k] = Stream!InOrder(S)[k]
        /\ Stream!InOrder(S \cup {m})[N + 1] = m
    BY InOrderAdd
  <1>4. f = [k \in 1..N |-> Stream!Expand(ts[Stream!InOrder(S)[k]], st)]
    BY DEF ArgvOf
  <1>5. g = [k \in 1..(N + 1) |-> Stream!Expand(ts[Stream!InOrder(S \cup {m})[k]], st)]
    BY <1>2 DEF ArgvOf
  <1> HIDE DEF f, g, N
  <1>6. Len(f) = N /\ DOMAIN f = 1..N
    BY <1>1, <1>4
  <1>7. h = [k \in 1..(N + 1) |-> IF k <= N THEN f[k] ELSE Stream!Expand(ts[m], st)]
    <2> DEFINE W == {f[k] : k \in 1..N} \cup {Stream!Expand(ts[m], st)}
    <2>1. f \in Seq(W)
      <3>1. f \in [1..N -> W]
        BY <1>4
      <3> QED
        BY <1>1, <3>1
    <2>2. Stream!Expand(ts[m], st) \in W
      OBVIOUS
    <2> HIDE DEF W
    <2> QED
      BY <1>1, <1>6, <2>1, <2>2
  <1>8. g = h
    <2>1. ASSUME NEW k \in 1..(N + 1)
          PROVE  Stream!Expand(ts[Stream!InOrder(S \cup {m})[k]], st)
                   = IF k <= N THEN f[k] ELSE Stream!Expand(ts[m], st)
      <3>1. CASE k \in 1..N
        <4>1. Stream!InOrder(S \cup {m})[k] = Stream!InOrder(S)[k] /\ k <= N
          BY <1>1, <1>3, <3>1
        <4>2. f[k] = Stream!Expand(ts[Stream!InOrder(S)[k]], st)
          BY <1>4, <3>1
        <4> QED
          BY <4>1, <4>2
      <3>2. CASE k = N + 1
        BY <1>1, <1>3, <3>2
      <3> QED
        BY <1>1, <3>1, <3>2
    <2> HIDE DEF h
    <2> QED
      BY <1>5, <1>7, <2>1, Zenon
  <1> QED
    BY <1>1, <1>6, <1>8 DEF f, g, N

\* A command that has not begun has nothing.
LEMMA NotBegun ==
    ASSUME NEW ts, Len(ts) \in Nat, NEW p \in Nat, NEW n \in Nat, n > Started(ts, p)
    PROVE  /\ ArgsTo(ts, n, p + 1) = {} /\ InTo(ts, n, p + 1) = {}
           /\ OutTo(ts, n, p + 1) = {} /\ AppendTo(ts, n, p + 1) = {}
  <1>1. ASSUME NEW symbols, NEW j \in Stream!Part(ts, n, symbols), j <= p + 1
        PROVE  FALSE
    <2>1. j \in 1..Len(ts) /\ Stream!CommandOf(ts, j) = n
      BY DEF Stream!Part
    <2>2. j - 1 \in Nat /\ j - 1 <= p /\ (j - 1) + 1 = j
      BY <1>1, <2>1
    <2>3. Stream!CommandOf(ts, (j - 1) + 1) = Started(ts, j - 1)
      BY <2>2, StartedStep
    <2>4. Started(ts, j - 1) <= Started(ts, p)
      BY <2>2, StartedStep
    <2>5. Started(ts, p) \in Nat /\ Started(ts, j - 1) \in Nat
      BY <2>2, StartedStep
    <2>6. Started(ts, j - 1) = n
      BY <2>1, <2>2, <2>3
    <2> QED
      BY <2>4, <2>5, <2>6
  <1>2. \A symbols : Upto(Stream!Part(ts, n, symbols), p + 1) = {}
    BY <1>1 DEF Upto
  <1>3. ArgsTo(ts, n, p + 1) = {}
    BY <1>1 DEF ArgsTo, Upto, Stream!Args
  <1> QED
    BY <1>2, <1>3 DEF InTo, OutTo, AppendTo

\* The "&" among the first tokens.
LEMMA AmpStep ==
    ASSUME NEW ts, NEW p \in Nat
    PROVE  /\ Stream!Symbol(ts[p + 1]) = "&" => p + 1 \in AmpTo(ts, p + 1)
           /\ Stream!Symbol(ts[p + 1]) # "&" => AmpTo(ts, p + 1) = AmpTo(ts, p)
           /\ AmpTo(ts, 0) = {}
  BY DEF AmpTo

\* A command is what its parts make it.
LEMMA SameCommand ==
    ASSUME NEW ts, NEW st, NEW n, NEW p, NEW q,
           ArgsTo(ts, n, q) = ArgsTo(ts, n, p), InTo(ts, n, q) = InTo(ts, n, p),
           OutTo(ts, n, q) = OutTo(ts, n, p), AppendTo(ts, n, q) = AppendTo(ts, n, p),
           n = 1 => AmpTo(ts, q) = AmpTo(ts, p)
    PROVE  /\ CommandTo(ts, n, q, st) = CommandTo(ts, n, p, st)
           /\ Appends(ts, n, q) = Appends(ts, n, p)
           /\ InBackground(ts, n, q) = InBackground(ts, n, p)
  <1>1. Appends(ts, n, q) = Appends(ts, n, p)
    BY Zenon DEF Appends
  <1>2. InBackground(ts, n, q) = InBackground(ts, n, p)
    <2>1. CASE n = 1
      BY <2>1, Zenon DEF InBackground
    <2>2. CASE n # 1
      BY <2>2, Zenon DEF InBackground
    <2> QED
      BY <2>1, <2>2
  <1> QED
    BY <1>1, <1>2, Zenon DEF CommandTo

\* A token leaves every command alone but the last one begun.
LEMMA OtherCommands ==
    ASSUME NEW ts, Len(ts) \in Nat, NEW p \in Nat, p < Len(ts), NEW st, NEW n,
           n # Started(ts, p), Stream!Symbol(ts[p + 1]) # "&"
    PROVE  /\ ArgsTo(ts, n, p + 1) = ArgsTo(ts, n, p)
           /\ InTo(ts, n, p + 1) = InTo(ts, n, p)
           /\ OutTo(ts, n, p + 1) = OutTo(ts, n, p)
           /\ CommandTo(ts, n, p + 1, st) = CommandTo(ts, n, p, st)
  <1>1. /\ ArgsTo(ts, n, p + 1) = ArgsTo(ts, n, p)
        /\ InTo(ts, n, p + 1) = InTo(ts, n, p)
        /\ OutTo(ts, n, p + 1) = OutTo(ts, n, p)
        /\ AppendTo(ts, n, p + 1) = AppendTo(ts, n, p)
    BY StepSets
  <1>2. AmpTo(ts, p + 1) = AmpTo(ts, p)
    BY AmpStep
  <1> QED
    BY <1>1, <1>2, SameCommand

\* The file name of a part with one position at most.
LEMMA FileIs ==
    ASSUME NEW ts
    PROVE  /\ Stream!FileAfter(ts, {}) = <<>>
           /\ \A x : Stream!FileAfter(ts, {x}) = ts[1 + x]
  <1>1. ASSUME NEW x PROVE (CHOOSE y \in {x} : TRUE) = x
    OBVIOUS
  <1>2. ASSUME NEW x PROVE Stream!FileAfter(ts, {x}) = ts[1 + x]
    <2>1. Stream!FileAfter(ts, {x}) = ts[1 + CHOOSE y \in {x} : TRUE]
      BY Zenon DEF Stream!FileAfter
    <2> QED
      BY <1>1, <2>1
  <1> QED
    BY <1>2 DEF Stream!FileAfter

---------------------------------------------------------------------------
(* build_command keeps to the grammar.                                     *)

\* The first command, before the first token.
LEMMA NothingRead ==
    ASSUME NEW ts, Len(ts) \in Nat, NEW st
    PROVE  Built(<<NewCommand>>, ts, 0, st)
  <1>1. Started(ts, 0) = 1
    <2>1. Pipes(ts, 0) = {}
      BY DEF Pipes
    <2> QED
      BY <2>1, FS_EmptySet DEF Started
  <1>2. ~Stream!IsFile(ts, 0 + 1)
    BY DEF Stream!IsFile
  <1>3. \A n : /\ ArgsTo(ts, n, 0) = {} /\ InTo(ts, n, 0) = {}
               /\ OutTo(ts, n, 0) = {} /\ AppendTo(ts, n, 0) = {}
    BY PartsType
  <1>4. AmpTo(ts, 0) = {}
    BY DEF AmpTo
  <1>5. CommandTo(ts, 1, 0, st) = NewCommand
    <2>1. ArgvOf(ts, {}, st) = <<>>
      BY FS_EmptySet DEF ArgvOf
    <2>2. Appends(ts, 1, 0) = FALSE /\ InBackground(ts, 1, 0) = FALSE
      BY <1>3, <1>4 DEF Appends, InBackground
    <2> QED
      BY <1>3, <2>1, <2>2, FileIs DEF CommandTo, NewCommand
  <1>6. Cardinality({}) = 0
    BY FS_EmptySet
  <1>7. Len(<<NewCommand>>) = 1 /\ <<NewCommand>>[1] = NewCommand
    OBVIOUS
  <1>8. ASSUME NEW n \in 1..1
        PROVE  /\ <<NewCommand>>[n] = CommandTo(ts, n, 0, st)
               /\ Cardinality(InTo(ts, n, 0)) <= 1 /\ Cardinality(OutTo(ts, n, 0)) <= 1
               /\ ArgsTo(ts, n, 0) = {} /\ n = Len(<<NewCommand>>)
    <2>1. n = 1
      OBVIOUS
    <2>2. InTo(ts, n, 0) = {} /\ OutTo(ts, n, 0) = {} /\ ArgsTo(ts, n, 0) = {}
      BY <1>3
    <2>3. <<NewCommand>>[n] = CommandTo(ts, n, 0, st)
      BY <1>5, <1>7, <2>1
    <2>4. n = Len(<<NewCommand>>)
      BY <1>7, <2>1
    <2>5. Cardinality({}) <= 1
      BY <1>6
    <2> QED
      BY <2>2, <2>3, <2>4, <2>5, Zenon
  <1>9. 0 \in 0..Len(ts) /\ \A j \in 1..0 : Allowed(ts, j)
    OBVIOUS
  <1> QED
    BY <1>1, <1>2, <1>7, <1>8, <1>9 DEF Built

\* Replacing one command of a list.
LEMMA Replaced ==
    ASSUME NEW X, NEW cl \in Seq(X), NEW m \in 1..Len(cl), NEW v
    PROVE  /\ Len([cl EXCEPT ![m] = v]) = Len(cl)
           /\ [cl EXCEPT ![m] = v][m] = v
           /\ \A n \in 1..Len(cl) : n # m => [cl EXCEPT ![m] = v][n] = cl[n]
  <1>1. [cl EXCEPT ![m] = v] \in Seq(X \cup {v})
    OBVIOUS
  <1> QED
    BY <1>1

\* The argument behind the first p tokens.
LEMMA ArgvStep ==
    ASSUME NEW ts, Len(ts) \in Nat, NEW p \in Nat, NEW n, NEW st,
           ArgsTo(ts, n, p + 1) = ArgsTo(ts, n, p) \cup {p + 1}
    PROVE  /\ ArgvOf(ts, ArgsTo(ts, n, p + 1), st) =
                Append(ArgvOf(ts, ArgsTo(ts, n, p), st), Stream!Expand(ts[p + 1], st))
           /\ Len(ArgvOf(ts, ArgsTo(ts, n, p), st)) = Cardinality(ArgsTo(ts, n, p))
           /\ Cardinality(ArgsTo(ts, n, p)) \in Nat
           /\ Cardinality(ArgsTo(ts, n, p + 1)) = Cardinality(ArgsTo(ts, n, p)) + 1
  <1> DEFINE S == ArgsTo(ts, n, p)
             x == p + 1
  <1>1. Positions(S) /\ S \subseteq 1..p
    BY PartsType
  <1>2. x \in Nat \ {0} /\ \A y \in S : y < x
    BY <1>1
  <1>3. ArgsTo(ts, n, p + 1) = S \cup {x}
    OBVIOUS
  <1> HIDE DEF S, x
  <1>4. Cardinality(S \cup {x}) = Cardinality(S) + 1
    BY <1>1, <1>2, RankAdd
  <1>5. /\ ArgvOf(ts, S \cup {x}, st) = Append(ArgvOf(ts, S, st), Stream!Expand(ts[x], st))
        /\ Len(ArgvOf(ts, S, st)) = Cardinality(S) /\ Cardinality(S) \in Nat
    BY <1>1, <1>2, ArgvAdd, Zenon
  <1> QED
    BY <1>3, <1>4, <1>5 DEF S, x

\* An argument.
LEMMA WordBuilt ==
    ASSUME NEW ts, Len(ts) \in Nat, NEW p \in Nat, p < Len(ts), NEW st,
           NEW cl, NEW dl, Built(cl, ts, p, st),
           Stream!Symbol(ts[p + 1]) = "word",
           Len(cl[Len(cl)].argv) < MaxArgs - 1,
           Len(dl) = Len(cl), \A n \in 1..Len(cl) : n # Len(cl) => dl[n] = cl[n],
           dl[Len(cl)] = [cl[Len(cl)] EXCEPT
                            !.argv = Append(@, Stream!Expand(ts[p + 1], st))]
    PROVE  Built(dl, ts, p + 1, st)
  <1> DEFINE m == Len(cl)
  <1>1. /\ p \in 0..Len(ts) /\ \A j \in 1..p : Allowed(ts, j)
        /\ ~Stream!IsFile(ts, p + 1) /\ m = Started(ts, p)
        /\ \A n \in 1..m :
             /\ cl[n] = CommandTo(ts, n, p, st)
             /\ ArgsTo(ts, n, p) = {} => n = m
             /\ Cardinality(ArgsTo(ts, n, p)) <= MaxArgs - 1 \/ ArgsTo(ts, n, p) = {}
             /\ Cardinality(InTo(ts, n, p)) <= 1
             /\ Cardinality(OutTo(ts, n, p)) <= 1
    BY DEF Built
  <1>2. m \in Nat \ {0} /\ Started(ts, p + 1) = m
    BY <1>1, StartedStep
  <1>3. /\ ArgsTo(ts, m, p + 1) = ArgsTo(ts, m, p) \cup {p + 1}
        /\ InTo(ts, m, p + 1) = InTo(ts, m, p) /\ OutTo(ts, m, p + 1) = OutTo(ts, m, p)
        /\ AppendTo(ts, m, p + 1) = AppendTo(ts, m, p)
    BY <1>1, StepSets
  <1>4. AmpTo(ts, p + 1) = AmpTo(ts, p)
    BY AmpStep
  <1>5. /\ ArgvOf(ts, ArgsTo(ts, m, p + 1), st) =
             Append(ArgvOf(ts, ArgsTo(ts, m, p), st), Stream!Expand(ts[p + 1], st))
        /\ Len(ArgvOf(ts, ArgsTo(ts, m, p), st)) = Cardinality(ArgsTo(ts, m, p))
        /\ Cardinality(ArgsTo(ts, m, p)) \in Nat
        /\ Cardinality(ArgsTo(ts, m, p + 1)) = Cardinality(ArgsTo(ts, m, p)) + 1
    BY <1>3, ArgvStep
  <1>6. Appends(ts, m, p + 1) = Appends(ts, m, p)
        /\ InBackground(ts, m, p + 1) = InBackground(ts, m, p)
    BY <1>3, <1>4, Zenon DEF Appends, InBackground
  <1>7. dl[m] = CommandTo(ts, m, p + 1, st)
    <2>1. cl[m] = CommandTo(ts, m, p, st)
      BY <1>1, <1>2
    <2>2. dl[m] = [CommandTo(ts, m, p, st) EXCEPT
                     !.argv = Append(@, Stream!Expand(ts[p + 1], st))]
      BY <2>1
    <2>3. dl[m] = [argv |-> Append(ArgvOf(ts, ArgsTo(ts, m, p), st), Stream!Expand(ts[p + 1], st)),
                   in |-> Stream!FileAfter(ts, InTo(ts, m, p)),
                   out |-> Stream!FileAfter(ts, OutTo(ts, m, p)),
                   append |-> Appends(ts, m, p),
                   background |-> InBackground(ts, m, p)]
      BY <2>2 DEF CommandTo
    <2> QED
      BY <1>3, <1>5, <1>6, <2>3, Zenon DEF CommandTo
  <1>8. Cardinality(ArgsTo(ts, m, p + 1)) <= MaxArgs - 1 /\ ArgsTo(ts, m, p + 1) # {}
    <2>1. cl[m].argv = ArgvOf(ts, ArgsTo(ts, m, p), st)
      BY <1>1, <1>2 DEF CommandTo
    <2>2. Cardinality(ArgsTo(ts, m, p)) < MaxArgs - 1
      BY <1>5, <2>1
    <2>3. MaxArgs \in Nat
      BY ParserAssumption
    <2>4. Cardinality(ArgsTo(ts, m, p + 1)) <= MaxArgs - 1
      BY <1>5, <2>2, <2>3
    <2> QED
      BY <1>3, <2>4
  <1>9. Cardinality(InTo(ts, m, p + 1)) <= 1 /\ Cardinality(OutTo(ts, m, p + 1)) <= 1
    BY <1>1, <1>2, <1>3
  <1>10. ASSUME NEW n \in 1..m, n # m
         PROVE  /\ dl[n] = CommandTo(ts, n, p + 1, st)
                /\ ArgsTo(ts, n, p + 1) = ArgsTo(ts, n, p)
                /\ InTo(ts, n, p + 1) = InTo(ts, n, p)
                /\ OutTo(ts, n, p + 1) = OutTo(ts, n, p)
    BY <1>1, <1>10, OtherCommands
  <1>11. \A j \in 1..(p + 1) : Allowed(ts, j)
    <2>1. Allowed(ts, p + 1)
      BY DEF Allowed
    <2> QED
      BY <1>1, <2>1
  <1>12. ~Stream!IsFile(ts, (p + 1) + 1)
    BY DEF Stream!IsFile, Stream!Redirect
  <1>13. p + 1 \in 0..Len(ts)
    OBVIOUS
  <1> HIDE DEF m
  <1>14. ASSUME NEW n \in 1..m
         PROVE  /\ dl[n] = CommandTo(ts, n, p + 1, st)
                /\ ArgsTo(ts, n, p + 1) = {} => n = m
                /\ Cardinality(ArgsTo(ts, n, p + 1)) <= MaxArgs - 1 \/ ArgsTo(ts, n, p + 1) = {}
                /\ Cardinality(InTo(ts, n, p + 1)) <= 1
                /\ Cardinality(OutTo(ts, n, p + 1)) <= 1
    <2>1. CASE n = m
      BY <1>7, <1>8, <1>9, <2>1
    <2>2. CASE n # m
      BY <1>1, <1>10, <2>2
    <2> QED
      BY <2>1, <2>2
  <1>15. Len(dl) = m /\ m = Started(ts, p + 1)
    BY <1>2 DEF m
  <1> QED
    BY <1>11, <1>12, <1>13, <1>14, <1>15 DEF Built

\* A redirection and its file name leave the arguments as they are.
LEMMA FileSkipped ==
    ASSUME NEW ts, Len(ts) \in Nat, NEW p \in Nat, p < Len(ts),
           Stream!Symbol(ts[p + 1]) \in {"<", ">", ">>"}, Stream!Followed(ts, p + 1)
    PROVE  /\ p + 2 \in 0..Len(ts)
           /\ Allowed(ts, p + 1) /\ Allowed(ts, p + 2) /\ ~Stream!IsFile(ts, p + 3)
           /\ Started(ts, p + 2) = Started(ts, p)
           /\ \A n : /\ ArgsTo(ts, n, p + 2) = ArgsTo(ts, n, p)
                     /\ InTo(ts, n, p + 2) = InTo(ts, n, p + 1)
                     /\ OutTo(ts, n, p + 2) = OutTo(ts, n, p + 1)
                     /\ AppendTo(ts, n, p + 2) = AppendTo(ts, n, p + 1)
           /\ AmpTo(ts, p + 2) = AmpTo(ts, p)
  <1> DEFINE q == p + 1
  <1>1. q \in Nat /\ q < Len(ts) /\ q + 1 = p + 2 /\ (q + 1) + 1 = p + 3 /\ p + 2 \in 0..Len(ts)
        /\ p + 2 > 1 /\ (p + 2) - 1 = p + 1 /\ (p + 3) - 1 = p + 2
    BY DEF Stream!Followed
  <1>2. Stream!Symbol(ts[p + 2]) = "word"
    BY <1>1 DEF Stream!Followed, Stream!Symbol
  <1>3. Stream!IsFile(ts, p + 2)
    BY <1>1 DEF Stream!IsFile, Stream!Redirect
  <1>4. ~Stream!IsFile(ts, p + 3)
    BY <1>1, <1>2 DEF Stream!IsFile, Stream!Redirect
  <1>5. Allowed(ts, p + 1) /\ Allowed(ts, p + 2)
    BY <1>2 DEF Allowed
  <1>6. Started(ts, p + 2) = Started(ts, p)
    <2>1. Started(ts, p + 1) = Started(ts, p)
      BY StartedStep
    <2>2. Started(ts, q + 1) = Started(ts, q)
      BY <1>1, <1>2, StartedStep
    <2> QED
      BY <1>1, <2>1, <2>2
  <1>7. AmpTo(ts, p + 2) = AmpTo(ts, p)
    <2>1. AmpTo(ts, p + 1) = AmpTo(ts, p)
      BY AmpStep
    <2>2. AmpTo(ts, q + 1) = AmpTo(ts, q)
      BY <1>1, <1>2, AmpStep
    <2> QED
      BY <1>1, <2>1, <2>2
  <1>8. ASSUME NEW n
        PROVE  /\ ArgsTo(ts, n, p + 2) = ArgsTo(ts, n, p)
               /\ InTo(ts, n, p + 2) = InTo(ts, n, p + 1)
               /\ OutTo(ts, n, p + 2) = OutTo(ts, n, p + 1)
               /\ AppendTo(ts, n, p + 2) = AppendTo(ts, n, p + 1)
    <2>1. ArgsTo(ts, n, p + 1) = ArgsTo(ts, n, p)
      BY StepSets
    <2>2. Stream!Symbol(ts[q + 1]) = "word" /\ Stream!IsFile(ts, q + 1)
      BY <1>1, <1>2, <1>3
    <2> HIDE DEF q
    <2>3. /\ ArgsTo(ts, n, q + 1) = ArgsTo(ts, n, q)
          /\ InTo(ts, n, q + 1) = InTo(ts, n, q)
          /\ OutTo(ts, n, q + 1) = OutTo(ts, n, q)
          /\ AppendTo(ts, n, q + 1) = AppendTo(ts, n, q)
      BY <1>1, <2>2, StepSets
    <2>4. q + 1 = p + 2
      BY <1>1
    <2> QED
      BY <2>1, <2>3, <2>4 DEF q
  <1> QED
    BY <1>1, <1>4, <1>5, <1>6, <1>7, <1>8

\* A redirection of the input.
LEMMA InputBuilt ==
    ASSUME NEW ts, Len(ts) \in Nat, NEW p \in Nat, p < Len(ts), NEW st,
           NEW cl, NEW dl, Built(cl, ts, p, st),
           Stream!Symbol(ts[p + 1]) = "<", Stream!Followed(ts, p + 1),
           InTo(ts, Len(cl), p) = {},
           Len(dl) = Len(cl), \A n \in 1..Len(cl) : n # Len(cl) => dl[n] = cl[n],
           dl[Len(cl)] = [cl[Len(cl)] EXCEPT !.in = ts[p + 2]]
    PROVE  Built(dl, ts, p + 2, st)
  <1> DEFINE m == Len(cl)
  <1>1. /\ p \in 0..Len(ts) /\ \A j \in 1..p : Allowed(ts, j)
        /\ ~Stream!IsFile(ts, p + 1) /\ m = Started(ts, p)
        /\ \A n \in 1..m :
             /\ cl[n] = CommandTo(ts, n, p, st)
             /\ ArgsTo(ts, n, p) = {} => n = m
             /\ Cardinality(ArgsTo(ts, n, p)) <= MaxArgs - 1 \/ ArgsTo(ts, n, p) = {}
             /\ Cardinality(InTo(ts, n, p)) <= 1
             /\ Cardinality(OutTo(ts, n, p)) <= 1
    BY DEF Built
  <1>2. m \in Nat \ {0}
    BY <1>1, StartedStep
  <1>3. /\ p + 2 \in 0..Len(ts) /\ Allowed(ts, p + 1) /\ Allowed(ts, p + 2)
        /\ ~Stream!IsFile(ts, p + 3) /\ Started(ts, p + 2) = m
        /\ AmpTo(ts, p + 2) = AmpTo(ts, p)
        /\ \A n : /\ ArgsTo(ts, n, p + 2) = ArgsTo(ts, n, p)
                  /\ InTo(ts, n, p + 2) = InTo(ts, n, p + 1)
                  /\ OutTo(ts, n, p + 2) = OutTo(ts, n, p + 1)
                  /\ AppendTo(ts, n, p + 2) = AppendTo(ts, n, p + 1)
    BY <1>1, FileSkipped
  <1>4. /\ InTo(ts, m, p + 1) = InTo(ts, m, p) \cup {p + 1}
        /\ OutTo(ts, m, p + 1) = OutTo(ts, m, p) /\ AppendTo(ts, m, p + 1) = AppendTo(ts, m, p)
    BY <1>1, StepSets
  <1>5. /\ InTo(ts, m, p + 2) = {p + 1} /\ ArgsTo(ts, m, p + 2) = ArgsTo(ts, m, p)
        /\ OutTo(ts, m, p + 2) = OutTo(ts, m, p) /\ AppendTo(ts, m, p + 2) = AppendTo(ts, m, p)
    BY <1>3, <1>4
  <1>6. Appends(ts, m, p + 2) = Appends(ts, m, p)
        /\ InBackground(ts, m, p + 2) = InBackground(ts, m, p)
    BY <1>3, <1>5, Zenon DEF Appends, InBackground
  <1>7. Stream!FileAfter(ts, InTo(ts, m, p + 2)) = ts[p + 2]
    <2>1. 1 + (p + 1) = p + 2
      OBVIOUS
    <2> QED
      BY <1>5, <2>1, FileIs
  <1>8. cl[m] = CommandTo(ts, m, p, st)
    BY <1>1, <1>2
  <1>9. dl[m] = [CommandTo(ts, m, p, st) EXCEPT !.in = ts[p + 2]]
    BY <1>8
  <1>10. ASSUME NEW n \in 1..m, n # m
         PROVE  /\ dl[n] = CommandTo(ts, n, p + 2, st)
                /\ InTo(ts, n, p + 2) = InTo(ts, n, p)
                /\ OutTo(ts, n, p + 2) = OutTo(ts, n, p)
    <2>1. dl[n] = CommandTo(ts, n, p, st)
      BY <1>1, <1>10
    <2>2. /\ InTo(ts, n, p + 1) = InTo(ts, n, p)
          /\ OutTo(ts, n, p + 1) = OutTo(ts, n, p)
          /\ AppendTo(ts, n, p + 1) = AppendTo(ts, n, p)
      BY <1>1, <1>10, StepSets
    <2>3. /\ InTo(ts, n, p + 2) = InTo(ts, n, p)
          /\ OutTo(ts, n, p + 2) = OutTo(ts, n, p)
          /\ AppendTo(ts, n, p + 2) = AppendTo(ts, n, p)
          /\ ArgsTo(ts, n, p + 2) = ArgsTo(ts, n, p)
      BY <1>3, <2>2
    <2>4. CommandTo(ts, n, p + 2, st) = CommandTo(ts, n, p, st)
      BY <1>3, <2>3, SameCommand
    <2> QED
      BY <2>1, <2>3, <2>4
  <1> HIDE DEF m
  <1>11. dl[m] = CommandTo(ts, m, p + 2, st)
    <2>1. dl[m] = [argv |-> ArgvOf(ts, ArgsTo(ts, m, p), st),
                   in |-> ts[p + 2],
                   out |-> Stream!FileAfter(ts, OutTo(ts, m, p)),
                   append |-> Appends(ts, m, p),
                   background |-> InBackground(ts, m, p)]
      BY <1>9 DEF CommandTo
    <2> QED
      BY <1>5, <1>6, <1>7, <2>1, Zenon DEF CommandTo
  <1>12. Cardinality({p + 1}) = 1
    BY FS_Singleton
  <1>13. ASSUME NEW n \in 1..m
         PROVE  /\ dl[n] = CommandTo(ts, n, p + 2, st)
                /\ Cardinality(InTo(ts, n, p + 2)) <= 1
                /\ Cardinality(OutTo(ts, n, p + 2)) <= 1
    <2>1. CASE n = m
      <3>1. Cardinality(InTo(ts, m, p + 2)) <= 1
        <4>1. Cardinality(InTo(ts, m, p + 2)) = 1
          BY <1>5, <1>12, Zenon
        <4> QED
          BY <4>1
      <3>2. Cardinality(OutTo(ts, m, p + 2)) <= 1
        BY <1>1, <1>2, <1>5
      <3> QED
        BY <1>11, <2>1, <3>1, <3>2
    <2>2. CASE n # m
      BY <1>1, <1>10, <2>2
    <2> QED
      BY <2>1, <2>2
  <1>14. \A j \in 1..(p + 2) : Allowed(ts, j)
    BY <1>1, <1>3
  <1>15. Len(dl) = m /\ m = Started(ts, p + 2) /\ ~Stream!IsFile(ts, (p + 2) + 1)
    BY <1>3 DEF m
  <1>16. \A n \in 1..m :
           /\ ArgsTo(ts, n, p + 2) = {} => n = m
           /\ Cardinality(ArgsTo(ts, n, p + 2)) <= MaxArgs - 1 \/ ArgsTo(ts, n, p + 2) = {}
    BY <1>1, <1>3
  <1> QED
    BY <1>3, <1>13, <1>14, <1>15, <1>16 DEF Built

\* A redirection of the output.
LEMMA OutputBuilt ==
    ASSUME NEW ts, Len(ts) \in Nat, NEW p \in Nat, p < Len(ts), NEW st,
           NEW cl, NEW dl, Built(cl, ts, p, st),
           NEW symbol \in {">", ">>"}, Stream!Symbol(ts[p + 1]) = symbol,
           Stream!Followed(ts, p + 1), OutTo(ts, Len(cl), p) = {},
           Len(dl) = Len(cl), \A n \in 1..Len(cl) : n # Len(cl) => dl[n] = cl[n],
           dl[Len(cl)] = [cl[Len(cl)] EXCEPT !.out = ts[p + 2],
                                             !.append = symbol = ">>"]
    PROVE  Built(dl, ts, p + 2, st)
  <1> DEFINE m == Len(cl)
  <1>1. /\ p \in 0..Len(ts) /\ \A j \in 1..p : Allowed(ts, j)
        /\ ~Stream!IsFile(ts, p + 1) /\ m = Started(ts, p)
        /\ \A n \in 1..m :
             /\ cl[n] = CommandTo(ts, n, p, st)
             /\ ArgsTo(ts, n, p) = {} => n = m
             /\ Cardinality(ArgsTo(ts, n, p)) <= MaxArgs - 1 \/ ArgsTo(ts, n, p) = {}
             /\ Cardinality(InTo(ts, n, p)) <= 1
             /\ Cardinality(OutTo(ts, n, p)) <= 1
    BY DEF Built
  <1>2. m \in Nat \ {0}
    BY <1>1, StartedStep
  <1>3. /\ p + 2 \in 0..Len(ts) /\ Allowed(ts, p + 1) /\ Allowed(ts, p + 2)
        /\ ~Stream!IsFile(ts, p + 3) /\ Started(ts, p + 2) = m
        /\ AmpTo(ts, p + 2) = AmpTo(ts, p)
        /\ \A n : /\ ArgsTo(ts, n, p + 2) = ArgsTo(ts, n, p)
                  /\ InTo(ts, n, p + 2) = InTo(ts, n, p + 1)
                  /\ OutTo(ts, n, p + 2) = OutTo(ts, n, p + 1)
                  /\ AppendTo(ts, n, p + 2) = AppendTo(ts, n, p + 1)
    BY <1>1, FileSkipped
  <1>4. /\ OutTo(ts, m, p + 1) = OutTo(ts, m, p) \cup {p + 1}
        /\ InTo(ts, m, p + 1) = InTo(ts, m, p)
        /\ symbol = ">>" => AppendTo(ts, m, p + 1) = AppendTo(ts, m, p) \cup {p + 1}
        /\ symbol # ">>" => AppendTo(ts, m, p + 1) = AppendTo(ts, m, p)
    BY <1>1, StepSets
  <1>5. AppendTo(ts, m, p) = {}
    BY PartsType
  <1>6. /\ OutTo(ts, m, p + 2) = {p + 1} /\ ArgsTo(ts, m, p + 2) = ArgsTo(ts, m, p)
        /\ InTo(ts, m, p + 2) = InTo(ts, m, p)
        /\ symbol = ">>" => AppendTo(ts, m, p + 2) = {p + 1}
        /\ symbol # ">>" => AppendTo(ts, m, p + 2) = {}
    BY <1>3, <1>4, <1>5
  <1>7. InBackground(ts, m, p + 2) = InBackground(ts, m, p)
    BY <1>3, Zenon DEF InBackground
  <1>8. (symbol = ">>") = Appends(ts, m, p + 2)
    <2>1. {p + 1} # {}
      OBVIOUS
    <2> QED
      BY <1>6, <2>1, Zenon DEF Appends
  <1>9. Stream!FileAfter(ts, OutTo(ts, m, p + 2)) = ts[p + 2]
    <2>1. 1 + (p + 1) = p + 2
      OBVIOUS
    <2> QED
      BY <1>6, <2>1, FileIs
  <1>10. cl[m] = CommandTo(ts, m, p, st)
    BY <1>1, <1>2
  <1>11. dl[m] = [CommandTo(ts, m, p, st) EXCEPT !.out = ts[p + 2],
                                                 !.append = Appends(ts, m, p + 2)]
    BY <1>8, <1>10, Zenon
  <1>12. ASSUME NEW n \in 1..m, n # m
         PROVE  /\ dl[n] = CommandTo(ts, n, p + 2, st)
                /\ InTo(ts, n, p + 2) = InTo(ts, n, p)
                /\ OutTo(ts, n, p + 2) = OutTo(ts, n, p)
    <2>1. dl[n] = CommandTo(ts, n, p, st)
      BY <1>1, <1>12
    <2>2. /\ InTo(ts, n, p + 1) = InTo(ts, n, p)
          /\ OutTo(ts, n, p + 1) = OutTo(ts, n, p)
          /\ AppendTo(ts, n, p + 1) = AppendTo(ts, n, p)
      BY <1>1, <1>12, StepSets
    <2>3. /\ InTo(ts, n, p + 2) = InTo(ts, n, p)
          /\ OutTo(ts, n, p + 2) = OutTo(ts, n, p)
          /\ AppendTo(ts, n, p + 2) = AppendTo(ts, n, p)
          /\ ArgsTo(ts, n, p + 2) = ArgsTo(ts, n, p)
      BY <1>3, <2>2
    <2>4. CommandTo(ts, n, p + 2, st) = CommandTo(ts, n, p, st)
      BY <1>3, <2>3, SameCommand
    <2> QED
      BY <2>1, <2>3, <2>4
  <1> HIDE DEF m
  <1>13. dl[m] = CommandTo(ts, m, p + 2, st)
    <2>1. dl[m] = [argv |-> ArgvOf(ts, ArgsTo(ts, m, p), st),
                   in |-> Stream!FileAfter(ts, InTo(ts, m, p)),
                   out |-> ts[p + 2],
                   append |-> Appends(ts, m, p + 2),
                   background |-> InBackground(ts, m, p)]
      BY <1>11 DEF CommandTo
    <2> QED
      BY <1>6, <1>7, <1>9, <2>1, Zenon DEF CommandTo
  <1>14. Cardinality({p + 1}) = 1
    BY FS_Singleton
  <1>15. ASSUME NEW n \in 1..m
         PROVE  /\ dl[n] = CommandTo(ts, n, p + 2, st)
                /\ Cardinality(InTo(ts, n, p + 2)) <= 1
                /\ Cardinality(OutTo(ts, n, p + 2)) <= 1
    <2>1. CASE n = m
      <3>1. Cardinality(OutTo(ts, m, p + 2)) <= 1
        <4>1. Cardinality(OutTo(ts, m, p + 2)) = 1
          BY <1>6, <1>14, Zenon
        <4> QED
          BY <4>1
      <3>2. Cardinality(InTo(ts, m, p + 2)) <= 1
        BY <1>1, <1>2, <1>6
      <3> QED
        BY <1>13, <2>1, <3>1, <3>2
    <2>2. CASE n # m
      BY <1>1, <1>12, <2>2
    <2> QED
      BY <2>1, <2>2
  <1>16. \A j \in 1..(p + 2) : Allowed(ts, j)
    BY <1>1, <1>3
  <1>17. Len(dl) = m /\ m = Started(ts, p + 2) /\ ~Stream!IsFile(ts, (p + 2) + 1)
    BY <1>3 DEF m
  <1>18. \A n \in 1..m :
           /\ ArgsTo(ts, n, p + 2) = {} => n = m
           /\ Cardinality(ArgsTo(ts, n, p + 2)) <= MaxArgs - 1 \/ ArgsTo(ts, n, p + 2) = {}
    BY <1>1, <1>3
  <1> QED
    BY <1>3, <1>15, <1>16, <1>17, <1>18 DEF Built

\* The next command of a pipeline.
LEMMA PipeBuilt ==
    ASSUME NEW ts, Len(ts) \in Nat, NEW p \in Nat, p < Len(ts), NEW st,
           NEW cl, NEW dl, Built(cl, ts, p, st),
           Stream!Symbol(ts[p + 1]) = "|", Stream!Followed(ts, p + 1),
           ArgsTo(ts, Len(cl), p) # {},
           Len(dl) = Len(cl) + 1, \A n \in 1..Len(cl) : dl[n] = cl[n],
           dl[Len(cl) + 1] = NewCommand
    PROVE  Built(dl, ts, p + 1, st)
  <1> DEFINE m == Len(cl)
  <1>1. /\ p \in 0..Len(ts) /\ \A j \in 1..p : Allowed(ts, j)
        /\ ~Stream!IsFile(ts, p + 1) /\ m = Started(ts, p)
        /\ \A n \in 1..m :
             /\ cl[n] = CommandTo(ts, n, p, st)
             /\ ArgsTo(ts, n, p) = {} => n = m
             /\ Cardinality(ArgsTo(ts, n, p)) <= MaxArgs - 1 \/ ArgsTo(ts, n, p) = {}
             /\ Cardinality(InTo(ts, n, p)) <= 1
             /\ Cardinality(OutTo(ts, n, p)) <= 1
    BY DEF Built
  <1>2. m \in Nat \ {0} /\ Started(ts, p + 1) = m + 1 /\ m + 1 \in Nat
    BY <1>1, StartedStep
  <1>3. /\ ArgsTo(ts, m + 1, p + 1) = {} /\ InTo(ts, m + 1, p + 1) = {}
        /\ OutTo(ts, m + 1, p + 1) = {} /\ AppendTo(ts, m + 1, p + 1) = {}
    <2>1. m + 1 > Started(ts, p)
      BY <1>1, <1>2
    <2> HIDE DEF m
    <2> QED
      BY <1>2, <2>1, NotBegun
  <1>4. AmpTo(ts, p + 1) = AmpTo(ts, p)
    BY AmpStep
  <1>5. CommandTo(ts, m + 1, p + 1, st) = NewCommand
    <2>1. ArgvOf(ts, {}, st) = <<>>
      BY FS_EmptySet DEF ArgvOf
    <2>2. Appends(ts, m + 1, p + 1) = FALSE
      BY <1>3 DEF Appends
    <2>3. InBackground(ts, m + 1, p + 1) = FALSE
      BY <1>2 DEF InBackground
    <2> QED
      BY <1>3, <2>1, <2>2, <2>3, FileIs DEF CommandTo, NewCommand
  <1>6. ASSUME NEW n
        PROVE  /\ ArgsTo(ts, n, p + 1) = ArgsTo(ts, n, p)
               /\ InTo(ts, n, p + 1) = InTo(ts, n, p)
               /\ OutTo(ts, n, p + 1) = OutTo(ts, n, p)
               /\ AppendTo(ts, n, p + 1) = AppendTo(ts, n, p)
    BY StepSets
  <1>7. ASSUME NEW n PROVE CommandTo(ts, n, p + 1, st) = CommandTo(ts, n, p, st)
    BY <1>4, <1>6, SameCommand
  <1>8. Cardinality({}) = 0
    BY FS_EmptySet
  <1>9. ArgsTo(ts, m, p) # {} /\ dl[m + 1] = NewCommand /\ \A n \in 1..m : dl[n] = cl[n]
    OBVIOUS
  <1>10. Len(dl) = m + 1
    OBVIOUS
  <1> HIDE DEF m
  <1>11. ASSUME NEW n \in 1..(m + 1)
         PROVE  /\ dl[n] = CommandTo(ts, n, p + 1, st)
                /\ ArgsTo(ts, n, p + 1) = {} => n = m + 1
                /\ Cardinality(ArgsTo(ts, n, p + 1)) <= MaxArgs - 1 \/ ArgsTo(ts, n, p + 1) = {}
                /\ Cardinality(InTo(ts, n, p + 1)) <= 1
                /\ Cardinality(OutTo(ts, n, p + 1)) <= 1
    <2>1. CASE n = m + 1
      <3>1. Cardinality(InTo(ts, n, p + 1)) <= 1 /\ Cardinality(OutTo(ts, n, p + 1)) <= 1
        <4>1. Cardinality(InTo(ts, n, p + 1)) = 0 /\ Cardinality(OutTo(ts, n, p + 1)) = 0
          BY <1>3, <1>8, <2>1, Zenon
        <4> QED
          BY <4>1
      <3> QED
        BY <1>3, <1>5, <1>9, <2>1, <3>1
    <2>2. CASE n # m + 1
      <3>1. n \in 1..m
        BY <1>2, <2>2
      <3> QED
        BY <1>1, <1>6, <1>7, <1>9, <3>1
    <2> QED
      BY <2>1, <2>2
  <1>12. \A j \in 1..(p + 1) : Allowed(ts, j)
    <2>1. Allowed(ts, p + 1)
      BY DEF Allowed
    <2> QED
      BY <1>1, <2>1
  <1>13. ~Stream!IsFile(ts, (p + 1) + 1) /\ p + 1 \in 0..Len(ts)
    BY DEF Stream!IsFile, Stream!Redirect
  <1> QED
    BY <1>2, <1>10, <1>11, <1>12, <1>13 DEF Built

\* The "&" at the end.
LEMMA BackgroundBuilt ==
    ASSUME NEW ts, Len(ts) \in Nat, NEW p \in Nat, p + 1 = Len(ts), NEW st,
           NEW cl, NEW dl, Built(cl, ts, p, st),
           Stream!Symbol(ts[p + 1]) = "&",
           Len(dl) = Len(cl), \A n \in 1..Len(cl) : n # 1 => dl[n] = cl[n],
           dl[1] = [cl[1] EXCEPT !.background = TRUE]
    PROVE  Built(dl, ts, p + 1, st)
  <1> DEFINE m == Len(cl)
  <1>1. /\ p \in 0..Len(ts) /\ \A j \in 1..p : Allowed(ts, j)
        /\ ~Stream!IsFile(ts, p + 1) /\ m = Started(ts, p)
        /\ \A n \in 1..m :
             /\ cl[n] = CommandTo(ts, n, p, st)
             /\ ArgsTo(ts, n, p) = {} => n = m
             /\ Cardinality(ArgsTo(ts, n, p)) <= MaxArgs - 1 \/ ArgsTo(ts, n, p) = {}
             /\ Cardinality(InTo(ts, n, p)) <= 1
             /\ Cardinality(OutTo(ts, n, p)) <= 1
    BY DEF Built
  <1>2. m \in Nat \ {0} /\ Started(ts, p + 1) = m
    BY <1>1, StartedStep
  <1>3. ASSUME NEW n
        PROVE  /\ ArgsTo(ts, n, p + 1) = ArgsTo(ts, n, p)
               /\ InTo(ts, n, p + 1) = InTo(ts, n, p)
               /\ OutTo(ts, n, p + 1) = OutTo(ts, n, p)
               /\ AppendTo(ts, n, p + 1) = AppendTo(ts, n, p)
    <2>1. p < Len(ts)
      OBVIOUS
    <2> QED
      BY <2>1, StepSets
  <1>4. InBackground(ts, 1, p + 1) = TRUE
    <2>1. p + 1 \in AmpTo(ts, p + 1)
      BY AmpStep
    <2> QED
      BY <2>1 DEF InBackground
  <1>5. Appends(ts, 1, p + 1) = Appends(ts, 1, p)
    BY <1>3, Zenon DEF Appends
  <1>6. dl[1] = CommandTo(ts, 1, p + 1, st)
    <2>0. 1 \in 1..m
      BY <1>2
    <2>00. cl[1] = CommandTo(ts, 1, p, st)
      BY <1>1, <2>0
    <2>1. dl[1] = [CommandTo(ts, 1, p, st) EXCEPT !.background = TRUE]
      BY <2>00
    <2>2. dl[1] = [argv |-> ArgvOf(ts, ArgsTo(ts, 1, p), st),
                   in |-> Stream!FileAfter(ts, InTo(ts, 1, p)),
                   out |-> Stream!FileAfter(ts, OutTo(ts, 1, p)),
                   append |-> Appends(ts, 1, p),
                   background |-> TRUE]
      BY <2>1 DEF CommandTo
    <2> QED
      BY <1>3, <1>4, <1>5, <2>2, Zenon DEF CommandTo
  <1>7. ASSUME NEW n \in 1..m PROVE dl[n] = CommandTo(ts, n, p + 1, st)
    <2>1. CASE n = 1
      BY <1>6, <2>1
    <2>2. CASE n # 1
      <3>1. CommandTo(ts, n, p + 1, st) = CommandTo(ts, n, p, st)
        BY <1>3, <2>2, SameCommand
      <3> QED
        BY <1>1, <2>2, <3>1
    <2> QED
      BY <2>1, <2>2
  <1>8. \A n \in 1..m :
          /\ ArgsTo(ts, n, p + 1) = {} => n = m
          /\ Cardinality(ArgsTo(ts, n, p + 1)) <= MaxArgs - 1 \/ ArgsTo(ts, n, p + 1) = {}
          /\ Cardinality(InTo(ts, n, p + 1)) <= 1
          /\ Cardinality(OutTo(ts, n, p + 1)) <= 1
    BY <1>1, <1>3
  <1>9. \A j \in 1..(p + 1) : Allowed(ts, j)
    <2>1. Allowed(ts, p + 1)
      BY DEF Allowed
    <2> QED
      BY <1>1, <2>1
  <1>10. ~Stream!IsFile(ts, (p + 1) + 1) /\ p + 1 \in 0..Len(ts)
    BY DEF Stream!IsFile, Stream!Redirect
  <1>11. Len(dl) = m
    OBVIOUS
  <1> HIDE DEF m
  <1> QED
    BY <1>2, <1>7, <1>8, <1>9, <1>10, <1>11 DEF Built

---------------------------------------------------------------------------
(* What the grammar asks of the tokens.                                    *)

\* WellFormed, with the names used here.
LEMMA WellFormedIs ==
    ASSUME NEW ts, Len(ts) \in Nat \ {0}
    PROVE  Stream!WellFormed(ts) <=>
             /\ Len(ts) <= MaxToken
             /\ \A j \in 1..Len(ts) :
                  Allowed(ts, j) /\ (Stream!Symbol(ts[j]) = "word" => Len(ts[j]) < TokenSize)
             /\ \A n \in 1..Started(ts, Len(ts) - 1) :
                  /\ Cardinality(Stream!Args(ts, n)) \in 1..(MaxArgs - 1)
                  /\ Cardinality(Stream!Part(ts, n, {"<"})) <= 1
                  /\ Cardinality(Stream!Part(ts, n, {">", ">>"})) <= 1
  <1> DEFINE Fine(j) == CASE Stream!Symbol(ts[j]) = "word" -> Len(ts[j]) < TokenSize
                          [] Stream!Symbol(ts[j]) = "&" -> j = Len(ts)
                          [] OTHER -> Stream!Followed(ts, j)
  <1>1. ts # <<>>
    OBVIOUS
  <1>2. Stream!CommandOf(ts, Len(ts)) = Started(ts, Len(ts) - 1)
    <2>1. Len(ts) - 1 \in Nat /\ (Len(ts) - 1) + 1 = Len(ts)
      OBVIOUS
    <2>2. Stream!CommandOf(ts, (Len(ts) - 1) + 1) = Started(ts, Len(ts) - 1)
      BY <2>1, StartedStep
    <2> QED
      BY <2>1, <2>2
  <1>3. ASSUME NEW j
        PROVE  Fine(j) <=> /\ Allowed(ts, j)
                           /\ Stream!Symbol(ts[j]) = "word" => Len(ts[j]) < TokenSize
    <2>1. CASE Stream!Symbol(ts[j]) = "word"
      BY <2>1 DEF Allowed
    <2>2. CASE Stream!Symbol(ts[j]) = "&"
      BY <2>2 DEF Allowed
    <2>3. CASE Stream!Symbol(ts[j]) \notin {"word", "&"}
      BY <2>3 DEF Allowed
    <2> QED
      BY <2>1, <2>2, <2>3
  <1>4. Stream!WellFormed(ts) <=>
          /\ ts # <<>> /\ Len(ts) <= MaxToken
          /\ \A j \in 1..Len(ts) : Fine(j)
          /\ \A n \in 1..Stream!CommandOf(ts, Len(ts)) :
               /\ Stream!Cardinality(Stream!Args(ts, n)) \in 1..(MaxArgs - 1)
               /\ Stream!Cardinality(Stream!Part(ts, n, {"<"})) <= 1
               /\ Stream!Cardinality(Stream!Part(ts, n, {">", ">>"})) <= 1
    BY Zenon DEF Stream!WellFormed
  <1> HIDE DEF Fine
  <1>5. (\A j \in 1..Len(ts) : Fine(j)) <=>
        \A j \in 1..Len(ts) :
          Allowed(ts, j) /\ (Stream!Symbol(ts[j]) = "word" => Len(ts[j]) < TokenSize)
    BY <1>3, Zenon
  <1>6. \A n : /\ Stream!Cardinality(Stream!Args(ts, n)) = Cardinality(Stream!Args(ts, n))
               /\ Stream!Cardinality(Stream!Part(ts, n, {"<"})) =
                    Cardinality(Stream!Part(ts, n, {"<"}))
               /\ Stream!Cardinality(Stream!Part(ts, n, {">", ">>"})) =
                    Cardinality(Stream!Part(ts, n, {">", ">>"}))
    BY SameCardinality, Zenon
  <1> QED
    BY <1>1, <1>2, <1>4, <1>5, <1>6, Zenon

\* The list of arguments is as long as there are arguments.
LEMMA ArgvLength ==
    ASSUME NEW ts, NEW st, NEW S, Positions(S)
    PROVE  /\ Len(ArgvOf(ts, S, st)) = Cardinality(S) /\ Cardinality(S) \in Nat
           /\ ArgvOf(ts, S, st) = <<>> <=> S = {}
  <1>1. Cardinality(S) \in Nat /\ IsFiniteSet(S)
    BY PositionsFinite
  <1>2. Len(ArgvOf(ts, S, st)) = Cardinality(S)
    BY <1>1 DEF ArgvOf
  <1>3. Cardinality(S) = 0 <=> S = {}
    BY <1>1, FS_EmptySet
  <1>4. ASSUME S = {} PROVE ArgvOf(ts, S, st) = <<>>
    <2>1. 1..Cardinality(S) = {}
      BY <1>3, <1>4
    <2> QED
      BY <2>1 DEF ArgvOf
  <1>5. ASSUME ArgvOf(ts, S, st) = <<>> PROVE S = {}
    <2>1. Len(ArgvOf(ts, S, st)) = 0
      BY <1>5
    <2> QED
      BY <1>2, <1>3, <2>1
  <1> QED
    BY <1>1, <1>2, <1>4, <1>5

\* A file name is missing only if nothing asked for it.
LEMMA FileNull ==
    ASSUME NEW ts, Len(ts) \in Nat, \A j \in 1..Len(ts) : ts[j] # <<>>,
           NEW p \in 0..Len(ts), \A j \in 1..p : Allowed(ts, j), NEW n
    PROVE  /\ Stream!FileAfter(ts, InTo(ts, n, p)) = <<>> <=> InTo(ts, n, p) = {}
           /\ Stream!FileAfter(ts, OutTo(ts, n, p)) = <<>> <=> OutTo(ts, n, p) = {}
  <1>1. ASSUME NEW S, S \subseteq 1..p, S # {},
               \A j \in S : Stream!Symbol(ts[j]) \in {"<", ">", ">>"}
        PROVE  Stream!FileAfter(ts, S) # <<>>
    <2> DEFINE c == CHOOSE j \in S : TRUE
    <2>1. Stream!FileAfter(ts, S) = ts[1 + c]
      BY <1>1, Zenon DEF Stream!FileAfter
    <2>2. c \in S
      BY <1>1
    <2> HIDE DEF c
    <2>3. c \in 1..p /\ Stream!Followed(ts, c)
      BY <1>1, <2>2 DEF Allowed
    <2>4. 1 + c \in 1..Len(ts)
      BY <2>3 DEF Stream!Followed
    <2> QED
      BY <2>1, <2>4
  <1>2. \A j \in InTo(ts, n, p) : Stream!Symbol(ts[j]) \in {"<", ">", ">>"}
    BY DEF InTo, Upto, Stream!Part
  <1>3. \A j \in OutTo(ts, n, p) : Stream!Symbol(ts[j]) \in {"<", ">", ">>"}
    BY DEF OutTo, Upto, Stream!Part
  <1>4. InTo(ts, n, p) \subseteq 1..p /\ OutTo(ts, n, p) \subseteq 1..p
    BY PartsType
  <1> QED
    BY <1>1, <1>2, <1>3, <1>4, FileIs

\* One part of a command, up to p, has no more positions than the whole.
LEMMA PartGrows ==
    ASSUME NEW ts, Len(ts) \in Nat, NEW p \in Nat, NEW n
    PROVE  /\ Cardinality(ArgsTo(ts, n, p)) <= Cardinality(Stream!Args(ts, n))
           /\ Cardinality(InTo(ts, n, p)) <= Cardinality(Stream!Part(ts, n, {"<"}))
           /\ Cardinality(OutTo(ts, n, p)) <= Cardinality(Stream!Part(ts, n, {">", ">>"}))
           /\ Cardinality(Stream!Args(ts, n)) \in Nat
           /\ Cardinality(Stream!Part(ts, n, {"<"})) \in Nat
           /\ Cardinality(Stream!Part(ts, n, {">", ">>"})) \in Nat
  <1>1. /\ Positions(Stream!Args(ts, n)) /\ Positions(Stream!Part(ts, n, {"<"}))
        /\ Positions(Stream!Part(ts, n, {">", ">>"}))
    BY PartsType
  <1>2. /\ ArgsTo(ts, n, p) \subseteq Stream!Args(ts, n)
        /\ InTo(ts, n, p) \subseteq Stream!Part(ts, n, {"<"})
        /\ OutTo(ts, n, p) \subseteq Stream!Part(ts, n, {">", ">>"})
    BY DEF ArgsTo, InTo, OutTo, Upto
  <1>3. ASSUME NEW T, Positions(T), NEW S, S \subseteq T
        PROVE  Cardinality(S) <= Cardinality(T) /\ Cardinality(T) \in Nat
    BY <1>3, PositionsFinite, FS_Subset
  <1> QED
    BY <1>1, <1>2, <1>3

\* What the current command shows of its parts.
LEMMA CurrentIs ==
    ASSUME NEW ts, Len(ts) \in Nat, \A j \in 1..Len(ts) : ts[j] # <<>>,
           NEW p, NEW st, NEW cl, Built(cl, ts, p, st), NEW n \in 1..Len(cl)
    PROVE  /\ Len(cl[n].argv) = Cardinality(ArgsTo(ts, n, p))
           /\ cl[n].argv = <<>> <=> ArgsTo(ts, n, p) = {}
           /\ cl[n].in = <<>> <=> InTo(ts, n, p) = {}
           /\ cl[n].out = <<>> <=> OutTo(ts, n, p) = {}
  <1>1. cl[n] = CommandTo(ts, n, p, st) /\ p \in 0..Len(ts) /\ \A j \in 1..p : Allowed(ts, j)
    BY DEF Built
  <1>2. /\ cl[n].argv = ArgvOf(ts, ArgsTo(ts, n, p), st)
        /\ cl[n].in = Stream!FileAfter(ts, InTo(ts, n, p))
        /\ cl[n].out = Stream!FileAfter(ts, OutTo(ts, n, p))
    BY <1>1 DEF CommandTo
  <1>3. Positions(ArgsTo(ts, n, p))
    BY <1>1, PartsType
  <1>4. /\ Stream!FileAfter(ts, InTo(ts, n, p)) = <<>> <=> InTo(ts, n, p) = {}
        /\ Stream!FileAfter(ts, OutTo(ts, n, p)) = <<>> <=> OutTo(ts, n, p) = {}
    BY <1>1, FileNull
  <1>5. /\ Len(ArgvOf(ts, ArgsTo(ts, n, p), st)) = Cardinality(ArgsTo(ts, n, p))
        /\ ArgvOf(ts, ArgsTo(ts, n, p), st) = <<>> <=> ArgsTo(ts, n, p) = {}
    BY <1>3, ArgvLength
  <1> QED
    BY <1>2, <1>4, <1>5

\* A token that the grammar does not allow where it stands.
LEMMA NotAllowed ==
    ASSUME NEW ts, Len(ts) \in Nat \ {0}, NEW j \in 1..Len(ts), ~Allowed(ts, j)
    PROVE  ~Stream!WellFormed(ts)
  BY WellFormedIs

\* One argument too many.
LEMMA TooManyArgs ==
    ASSUME NEW ts, Len(ts) \in Nat, NEW p \in Nat, p < Len(ts), NEW st,
           NEW cl, Built(cl, ts, p, st), \A j \in 1..Len(ts) : ts[j] # <<>>,
           Stream!Symbol(ts[p + 1]) = "word",
           Len(cl[Len(cl)].argv) >= MaxArgs - 1
    PROVE  ~Stream!WellFormed(ts)
  <1> DEFINE m == Len(cl)
  <1>1. m = Started(ts, p) /\ ~Stream!IsFile(ts, p + 1)
    BY DEF Built
  <1>2. m \in Nat \ {0}
    BY <1>1, StartedStep
  <1>3. Len(cl[m].argv) = Cardinality(ArgsTo(ts, m, p))
    <2>1. m \in 1..Len(cl)
      BY <1>2
    <2> QED
      BY <2>1, CurrentIs
  <1>4. ArgsTo(ts, m, p + 1) = ArgsTo(ts, m, p) \cup {p + 1}
    BY <1>1, ArgumentStep
  <1>5. /\ Cardinality(ArgsTo(ts, m, p)) \in Nat
        /\ Cardinality(ArgsTo(ts, m, p + 1)) = Cardinality(ArgsTo(ts, m, p)) + 1
    BY <1>4, ArgvStep
  <1>6. /\ Cardinality(ArgsTo(ts, m, p + 1)) <= Cardinality(Stream!Args(ts, m))
        /\ Cardinality(Stream!Args(ts, m)) \in Nat
    <2>1. p + 1 \in Nat
      OBVIOUS
    <2> QED
      BY <2>1, PartGrows
  <1>7. Cardinality(Stream!Args(ts, m)) > MaxArgs - 1
    BY <1>3, <1>5, <1>6, ParserAssumption
  <1>8. m \in 1..Started(ts, Len(ts) - 1)
    <2>1. Len(ts) - 1 \in Nat /\ p <= Len(ts) - 1
      OBVIOUS
    <2>2. Started(ts, p) <= Started(ts, Len(ts) - 1) /\ Started(ts, Len(ts) - 1) \in Nat
      BY <2>1, StartedStep
    <2> QED
      BY <1>1, <1>2, <2>2
  <1>9. Cardinality(Stream!Args(ts, m)) \notin 1..(MaxArgs - 1)
    BY <1>6, <1>7, ParserAssumption
  <1>10. Len(ts) \in Nat \ {0}
    OBVIOUS
  <1> HIDE DEF m
  <1> QED
    BY <1>8, <1>9, <1>10, WellFormedIs

\* A second file for the same stream.
LEMMA TwoFiles ==
    ASSUME NEW ts, Len(ts) \in Nat, NEW p \in Nat, p < Len(ts), NEW st,
           NEW cl, Built(cl, ts, p, st),
           \/ Stream!Symbol(ts[p + 1]) = "<" /\ InTo(ts, Len(cl), p) # {}
           \/ Stream!Symbol(ts[p + 1]) \in {">", ">>"} /\ OutTo(ts, Len(cl), p) # {}
    PROVE  ~Stream!WellFormed(ts)
  <1> DEFINE m == Len(cl)
  <1>1. m = Started(ts, p)
    BY DEF Built
  <1>2. m \in Nat \ {0}
    BY <1>1, StartedStep
  <1>3. m \in 1..Started(ts, Len(ts) - 1)
    <2>1. Len(ts) - 1 \in Nat /\ p <= Len(ts) - 1
      OBVIOUS
    <2>2. Started(ts, p) <= Started(ts, Len(ts) - 1) /\ Started(ts, Len(ts) - 1) \in Nat
      BY <2>1, StartedStep
    <2> QED
      BY <1>1, <1>2, <2>2
  <1>4. Len(ts) \in Nat \ {0} /\ p + 1 \in Nat \ {0}
    OBVIOUS
  <1>5. ASSUME NEW S, Positions(S), S \subseteq 1..p, S # {}
        PROVE  Cardinality(S \cup {p + 1}) \in Nat /\ Cardinality(S \cup {p + 1}) > 1
    <2>1. Cardinality(S \cup {p + 1}) = Cardinality(S) + 1
      <3>1. \A x \in S : x < p + 1
        BY <1>5
      <3> QED
        BY <1>4, <1>5, <3>1, RankAdd
    <2>2. IsFiniteSet(S) /\ Cardinality(S) \in Nat
      BY <1>5, PositionsFinite
    <2>3. Cardinality(S) # 0
      BY <1>5, <2>2, FS_EmptySet
    <2> QED
      BY <2>1, <2>2, <2>3
  <1>6. /\ Positions(InTo(ts, m, p)) /\ InTo(ts, m, p) \subseteq 1..p
        /\ Positions(OutTo(ts, m, p)) /\ OutTo(ts, m, p) \subseteq 1..p
    BY PartsType
  <1>7. /\ Cardinality(InTo(ts, m, p + 1)) <= Cardinality(Stream!Part(ts, m, {"<"}))
        /\ Cardinality(OutTo(ts, m, p + 1)) <= Cardinality(Stream!Part(ts, m, {">", ">>"}))
        /\ Cardinality(Stream!Part(ts, m, {"<"})) \in Nat
        /\ Cardinality(Stream!Part(ts, m, {">", ">>"})) \in Nat
    <2> HIDE DEF m
    <2> QED
      BY <1>4, PartGrows
  <1>8. CASE Stream!Symbol(ts[p + 1]) = "<" /\ InTo(ts, m, p) # {}
    <2>1. InTo(ts, m, p + 1) = InTo(ts, m, p) \cup {p + 1}
      BY <1>1, <1>8, StepSets
    <2>2. Cardinality(InTo(ts, m, p + 1)) \in Nat /\ Cardinality(InTo(ts, m, p + 1)) > 1
      BY <1>5, <1>6, <1>8, <2>1
    <2>3. ~ (Cardinality(Stream!Part(ts, m, {"<"})) <= 1)
      BY <1>7, <2>2
    <2> HIDE DEF m
    <2> QED
      BY <1>3, <1>4, <2>3, WellFormedIs
  <1>9. CASE Stream!Symbol(ts[p + 1]) \in {">", ">>"} /\ OutTo(ts, m, p) # {}
    <2>1. OutTo(ts, m, p + 1) = OutTo(ts, m, p) \cup {p + 1}
      BY <1>1, <1>9, StepSets
    <2>2. Cardinality(OutTo(ts, m, p + 1)) \in Nat /\ Cardinality(OutTo(ts, m, p + 1)) > 1
      BY <1>5, <1>6, <1>9, <2>1
    <2>3. ~ (Cardinality(Stream!Part(ts, m, {">", ">>"})) <= 1)
      BY <1>7, <2>2
    <2> HIDE DEF m
    <2> QED
      BY <1>3, <1>4, <2>3, WellFormedIs
  <1> QED
    BY <1>8, <1>9

\* A pipeline with a command of no word.
LEMMA EmptyCommand ==
    ASSUME NEW ts, Len(ts) \in Nat \ {0}, NEW n \in 1..Started(ts, Len(ts) - 1),
           Stream!Args(ts, n) = {}
    PROVE  ~Stream!WellFormed(ts)
  <1>1. Cardinality(Stream!Args(ts, n)) = 0
    BY FS_EmptySet, Zenon
  <1>2. Cardinality(Stream!Args(ts, n)) \notin 1..(MaxArgs - 1)
    BY <1>1, ParserAssumption
  <1> QED
    BY <1>2, WellFormedIs

LEMMA PipeAfterNothing ==
    ASSUME NEW ts, Len(ts) \in Nat, NEW p \in Nat, p < Len(ts), NEW st,
           NEW cl, Built(cl, ts, p, st),
           Stream!Symbol(ts[p + 1]) = "|", ArgsTo(ts, Len(cl), p) = {}
    PROVE  ~Stream!WellFormed(ts)
  <1> DEFINE m == Len(cl)
  <1>1. m = Started(ts, p) /\ m \in Nat \ {0} /\ Started(ts, p + 1) = m + 1
    BY StartedStep DEF Built
  <1>2. ASSUME NEW j \in Stream!Args(ts, m) PROVE FALSE
    <2>1. j \in 1..Len(ts) /\ Stream!CommandOf(ts, j) = m /\ Stream!Symbol(ts[j]) \in {"word"}
      BY DEF Stream!Args, Stream!Part
    <2>2. CASE j <= p
      <3>1. j \in ArgsTo(ts, m, p)
        BY <2>2 DEF ArgsTo, Upto
      <3> QED
        BY <3>1
    <2>3. CASE j = p + 1
      BY <2>1, <2>3
    <2>4. CASE j > p + 1
      <3>1. j - 1 \in Nat /\ p + 1 \in Nat /\ p + 1 <= j - 1 /\ (j - 1) + 1 = j
        BY <2>1, <2>4
      <3>2. Started(ts, p + 1) <= Started(ts, j - 1) /\ Started(ts, j - 1) \in Nat
            /\ Stream!CommandOf(ts, (j - 1) + 1) = Started(ts, j - 1)
        BY <3>1, StartedStep
      <3> QED
        BY <1>1, <2>1, <3>1, <3>2
    <2> QED
      BY <2>1, <2>2, <2>3, <2>4
  <1>3. Stream!Args(ts, m) = {}
    BY <1>2
  <1>4. m \in 1..Started(ts, Len(ts) - 1)
    <2>1. Len(ts) - 1 \in Nat /\ p <= Len(ts) - 1
      OBVIOUS
    <2>2. Started(ts, p) <= Started(ts, Len(ts) - 1) /\ Started(ts, Len(ts) - 1) \in Nat
      BY <2>1, StartedStep
    <2> QED
      BY <1>1, <2>2
  <1>5. Len(ts) \in Nat \ {0}
    OBVIOUS
  <1> HIDE DEF m
  <1> QED
    BY <1>3, <1>4, <1>5, EmptyCommand

\* All tokens read, and each command has a word: this is the reading of the line.
LEMMA AllRead ==
    ASSUME NEW ts, Len(ts) \in Nat \ {0}, Len(ts) <= MaxToken, NEW st,
           NEW X, NEW cl \in Seq(X), Built(cl, ts, Len(ts), st),
           \A j \in 1..Len(ts) : ts[j] # <<>>,
           \A j \in 1..Len(ts) : Stream!Symbol(ts[j]) = "word" => Len(ts[j]) < TokenSize
    PROVE  /\ Len(cl) = Started(ts, Len(ts) - 1)
           /\ (\A n \in 1..Len(cl) : cl[n].argv # <<>>) =>
                Stream!WellFormed(ts) /\ cl = Stream!Reading(ts, st)
           /\ (\E n \in 1..Len(cl) : cl[n].argv = <<>>) => ~Stream!WellFormed(ts)
  <1> DEFINE N == Len(ts)
             m == Len(cl)
  <1>1. /\ \A j \in 1..N : Allowed(ts, j)
        /\ m = Started(ts, N)
        /\ \A n \in 1..m :
             /\ cl[n] = CommandTo(ts, n, N, st)
             /\ Cardinality(ArgsTo(ts, n, N)) <= MaxArgs - 1 \/ ArgsTo(ts, n, N) = {}
             /\ Cardinality(InTo(ts, n, N)) <= 1
             /\ Cardinality(OutTo(ts, n, N)) <= 1
    BY DEF Built
  <1>2. N - 1 \in Nat /\ (N - 1) + 1 = N /\ N \in 1..N
    OBVIOUS
  <1>3. Stream!Symbol(ts[N]) # "|"
    <2>1. ~Stream!Followed(ts, N)
      BY DEF Stream!Followed
    <2> QED
      BY <1>1, <1>2, <2>1 DEF Allowed
  <1>4. m = Started(ts, N - 1)
    <2>1. Started(ts, (N - 1) + 1) = Started(ts, N - 1)
      BY <1>2, <1>3, StartedStep
    <2> QED
      BY <1>1, <1>2, <2>1
  <1>5. ASSUME NEW n
        PROVE  /\ ArgsTo(ts, n, N) = Stream!Args(ts, n)
               /\ InTo(ts, n, N) = Stream!Part(ts, n, {"<"})
               /\ OutTo(ts, n, N) = Stream!Part(ts, n, {">", ">>"})
               /\ AppendTo(ts, n, N) = Stream!Part(ts, n, {">>"})
               /\ Positions(Stream!Args(ts, n))
    BY PartsType
  <1>6. ASSUME NEW n \in 1..m PROVE cl[n].argv = <<>> <=> ArgsTo(ts, n, N) = {}
    BY CurrentIs
  <1>7. ASSUME \E n \in 1..m : cl[n].argv = <<>> PROVE ~Stream!WellFormed(ts)
    <2>1. PICK n \in 1..m : cl[n].argv = <<>>
      BY <1>7
    <2>2. Stream!Args(ts, n) = {}
      BY <1>5, <1>6, <2>1
    <2> QED
      BY <1>4, <2>1, <2>2, EmptyCommand
  <1>8. ASSUME \A n \in 1..m : cl[n].argv # <<>> PROVE Stream!WellFormed(ts)
    <2>1. ASSUME NEW n \in 1..m
          PROVE  /\ Cardinality(Stream!Args(ts, n)) \in 1..(MaxArgs - 1)
                 /\ Cardinality(Stream!Part(ts, n, {"<"})) <= 1
                 /\ Cardinality(Stream!Part(ts, n, {">", ">>"})) <= 1
      <3>1. ArgsTo(ts, n, N) # {}
        BY <1>6, <1>8
      <3>2. Cardinality(ArgsTo(ts, n, N)) <= MaxArgs - 1
        BY <1>1, <3>1
      <3>3. Cardinality(ArgsTo(ts, n, N)) \in Nat /\ Cardinality(ArgsTo(ts, n, N)) # 0
        BY <1>5, <3>1, PositionsFinite, FS_EmptySet
      <3>4. Cardinality(ArgsTo(ts, n, N)) \in 1..(MaxArgs - 1)
        BY <3>2, <3>3, ParserAssumption
      <3> QED
        BY <1>1, <1>5, <3>4
    <2> HIDE DEF m
    <2> QED
      BY <1>1, <1>4, <2>1, WellFormedIs
  <1>9. cl = Stream!Reading(ts, st)
    <2>1. Stream!CommandOf(ts, N) = m
      <3>1. Stream!CommandOf(ts, (N - 1) + 1) = Started(ts, N - 1)
        BY <1>2, StartedStep
      <3> QED
        BY <1>2, <1>4, <3>1
    <2>2. Stream!Last(ts) = ts[N]
      BY DEF Stream!Last
    <2>3. AmpTo(ts, N) # {} <=> Stream!Symbol(ts[N]) = "&"
      <3>1. ASSUME Stream!Symbol(ts[N]) = "&" PROVE N \in AmpTo(ts, N)
        BY <1>2, <3>1 DEF AmpTo
      <3>2. ASSUME NEW j \in AmpTo(ts, N) PROVE Stream!Symbol(ts[N]) = "&"
        BY <1>1 DEF AmpTo, Allowed
      <3> QED
        BY <3>1, <3>2
    <2>4. ASSUME NEW n
          PROVE  InBackground(ts, n, N) = (n = 1 /\ Stream!Symbol(Stream!Last(ts)) = "&")
      BY <2>2, <2>3, Zenon DEF InBackground
    <2>5. ASSUME NEW n
          PROVE  Appends(ts, n, N) = (Stream!Part(ts, n, {">>"}) # {})
      BY <1>5, Zenon DEF Appends
    <2>6. ASSUME NEW n
          PROVE  ArgvOf(ts, ArgsTo(ts, n, N), st) =
                   [k \in 1..Len(Stream!InOrder(Stream!Args(ts, n))) |->
                      Stream!Expand(ts[Stream!InOrder(Stream!Args(ts, n))[k]], st)]
      <3>1. Len(Stream!InOrder(Stream!Args(ts, n))) = Cardinality(Stream!Args(ts, n))
        BY <1>5, InOrderType
      <3> QED
        <4>1. ArgsTo(ts, n, N) = Stream!Args(ts, n)
          BY <1>5
        <4> HIDE DEF N
        <4> QED
          BY <3>1, <4>1, Zenon DEF ArgvOf
    <2>7. ASSUME NEW n
          PROVE  CommandTo(ts, n, N, st) =
                   [argv |-> [k \in 1..Len(Stream!InOrder(Stream!Args(ts, n))) |->
                                Stream!Expand(ts[Stream!InOrder(Stream!Args(ts, n))[k]], st)],
                    in |-> Stream!FileAfter(ts, Stream!Part(ts, n, {"<"})),
                    out |-> Stream!FileAfter(ts, Stream!Part(ts, n, {">", ">>"})),
                    append |-> Stream!Part(ts, n, {">>"}) # {},
                    background |-> n = 1 /\ Stream!Symbol(Stream!Last(ts)) = "&"]
      BY <1>5, <2>4, <2>5, <2>6, Zenon DEF CommandTo
    <2>8. Stream!Reading(ts, st) = [n \in 1..m |-> CommandTo(ts, n, N, st)]
      BY <2>1, <2>7, Zenon DEF Stream!Reading
    <2>9. cl = [n \in 1..m |-> cl[n]]
      OBVIOUS
    <2> QED
      BY <1>1, <2>8, <2>9, Zenon
  <1> QED
    BY <1>4, <1>7, <1>8, <1>9

---------------------------------------------------------------------------
(* tokenize finds the tokens of the line.                                  *)

\* The tokens before x are on the list tl.
Lexed(tl, t, x) ==
    /\ Len(tl) = Cardinality(Starts(t, x))
    /\ \A k \in 1..Len(tl) :
         Meant(tl[k]) = Stream!TokenAt(t, Stream!InOrder(Starts(t, x))[k])

Accepted(tl) ==
    \A k \in 1..Len(tl) : Proper(tl[k]) /\ Len(tl[k].text) < TokenSize

\* The tokens of a text, one for each start.
LEMMA TokensAre ==
    ASSUME NEW C, NEW t \in Seq(C)
    PROVE  /\ Positions(Starts(t, Len(t) + 1))
           /\ Stream!TokensOf(t) =
                [k \in 1..Cardinality(Starts(t, Len(t) + 1)) |->
                   Stream!TokenAt(t, Stream!InOrder(Starts(t, Len(t) + 1))[k])]
  <1> DEFINE S == {x \in 1..Len(t) : Stream!StartsAt(t, x)}
  <1>1. Starts(t, Len(t) + 1) = S
    BY DEF Starts
  <1>2. Positions(S)
    <2>1. S \subseteq 1..Len(t) /\ Len(t) \in Nat
      OBVIOUS
    <2> QED
      BY <2>1 DEF Positions
  <1>3. Len(Stream!InOrder(S)) = Cardinality(S)
    BY <1>2, InOrderType
  <1>4. Stream!TokensOf(t) = [k \in 1..Len(Stream!InOrder(S)) |->
                                Stream!TokenAt(t, Stream!InOrder(S)[k])]
    BY Zenon DEF Stream!TokensOf
  <1> HIDE DEF S
  <1> QED
    BY <1>1, <1>2, <1>3, <1>4, Zenon

\* The starts before x are positions before x.
LEMMA StartsType ==
    ASSUME NEW t, NEW x \in Nat \ {0}
    PROVE  Positions(Starts(t, x)) /\ \A j \in Starts(t, x) : j \in 1..(x - 1)
  <1>1. Starts(t, x) \subseteq 1..(x - 1) /\ x - 1 \in Nat
    BY DEF Starts
  <1> QED
    BY <1>1 DEF Positions

\* At the end of the line the list is complete.
LEMMA AllLexed ==
    ASSUME NEW C, NEW t \in Seq(C), NEW tl, Lexed(tl, t, Len(t) + 1)
    PROVE  Meaning(tl) = Stream!TokensOf(t)
  <1>1. Len(tl) = Cardinality(Starts(t, Len(t) + 1))
        /\ \A k \in 1..Len(tl) :
             Meant(tl[k]) = Stream!TokenAt(t, Stream!InOrder(Starts(t, Len(t) + 1))[k])
    BY DEF Lexed
  <1> QED
    BY <1>1, TokensAre, Zenon DEF Meaning

\* One more token.
LEMMA LexStep ==
    ASSUME NEW C \in SUBSET Chars, NEW t \in Seq(C), NEW x \in 1..Len(t),
           NEW X, NEW tl \in Seq(X), Lexed(tl, t, x), Boundary(t, x), ~IsSpace(t[x])
    PROVE  Lexed(Append(tl, TokenFrom(t, x)), t, EndAt(t, x) + 1)
  <1> DEFINE S == Starts(t, x)
             U == Starts(t, EndAt(t, x) + 1)
             ul == Append(tl, TokenFrom(t, x))
  <1>1. U = S \cup {x} /\ Meant(TokenFrom(t, x)) = Stream!TokenAt(t, x)
    BY TokenStep
  <1>2. Positions(S) /\ x \in Nat \ {0} /\ \A j \in S : j < x
    <2>1. x \in Nat \ {0}
      OBVIOUS
    <2>2. Positions(S) /\ \A j \in S : j \in 1..(x - 1)
      BY <2>1, StartsType
    <2> QED
      BY <2>1, <2>2
  <1>3. /\ Len(tl) = Cardinality(S)
        /\ \A k \in 1..Len(tl) : Meant(tl[k]) = Stream!TokenAt(t, Stream!InOrder(S)[k])
    BY DEF Lexed
  <1>4. /\ Len(ul) = Len(tl) + 1 /\ ul[Len(tl) + 1] = TokenFrom(t, x)
        /\ \A k \in 1..Len(tl) : ul[k] = tl[k]
    OBVIOUS
  <1>5. Len(tl) \in Nat
    OBVIOUS
  <1> HIDE DEF S, U, ul
  <1>6. /\ Cardinality(U) = Cardinality(S) + 1
        /\ \A k \in 1..Cardinality(S) : Stream!InOrder(U)[k] = Stream!InOrder(S)[k]
        /\ Stream!InOrder(U)[Cardinality(S) + 1] = x
    BY <1>1, <1>2, InOrderAdd
  <1>7. ASSUME NEW k \in 1..Len(ul)
        PROVE  Meant(ul[k]) = Stream!TokenAt(t, Stream!InOrder(U)[k])
    <2>1. CASE k = Len(tl) + 1
      <3>1. ul[k] = TokenFrom(t, x) /\ Stream!InOrder(U)[k] = x
        BY <1>3, <1>4, <1>6, <2>1
      <3> QED
        BY <1>1, <3>1
    <2>2. CASE k # Len(tl) + 1
      <3>1. k \in 1..Len(tl)
        BY <1>4, <1>5, <2>2
      <3>2. ul[k] = tl[k] /\ Stream!InOrder(U)[k] = Stream!InOrder(S)[k]
        BY <1>3, <1>4, <1>6, <3>1
      <3> QED
        BY <1>3, <3>1, <3>2
    <2> QED
      BY <2>1, <2>2
  <1>8. Len(ul) = Cardinality(U)
    BY <1>3, <1>4, <1>6
  <1> QED
    BY <1>7, <1>8 DEF Lexed, U, ul

\* A type is a symbol of the grammar, and no token is empty.
LEMMA ProperToken ==
    ASSUME NEW tok, Proper(tok), NEW C, tok.text \in Seq(C)
    PROVE  /\ Meant(tok) # <<>>
           /\ tok.type = "WORD" <=> Stream!Symbol(Meant(tok)) = "word"
           /\ tok.type = "WORD" <=> Stream!IsWord(Meant(tok))
           /\ tok.type = "IN" <=> Stream!Symbol(Meant(tok)) = "<"
           /\ tok.type = "OUT" <=> Stream!Symbol(Meant(tok)) = ">"
           /\ tok.type = "APPEND" <=> Stream!Symbol(Meant(tok)) = ">>"
           /\ tok.type = "PIPE" <=> Stream!Symbol(Meant(tok)) = "|"
           /\ tok.type = "BACKGROUND" <=> Stream!Symbol(Meant(tok)) = "&"
           /\ tok.type # "APPEND" => Meant(tok) = tok.text
           /\ Len(tok.text) < TokenSize => (tok.type = "WORD" => Len(Meant(tok)) < TokenSize)
           /\ ~ (Len(tok.text) < TokenSize) => tok.type = "WORD"
  <1>1. /\ <<tok.type, Stream!Symbol(Meant(tok))>> \in Symbols
        /\ tok.type = "WORD" <=> Stream!IsWord(Meant(tok))
        /\ Len(tok.text) > 0
        /\ tok.type # "WORD" => Len(tok.text) <= 2
    BY DEF Proper
  <1>2. \/ tok.type = "WORD" /\ Stream!Symbol(Meant(tok)) = "word"
        \/ tok.type = "IN" /\ Stream!Symbol(Meant(tok)) = "<"
        \/ tok.type = "OUT" /\ Stream!Symbol(Meant(tok)) = ">"
        \/ tok.type = "APPEND" /\ Stream!Symbol(Meant(tok)) = ">>"
        \/ tok.type = "PIPE" /\ Stream!Symbol(Meant(tok)) = "|"
        \/ tok.type = "BACKGROUND" /\ Stream!Symbol(Meant(tok)) = "&"
    BY <1>1 DEF Symbols
  <1>3. tok.type # "APPEND" => Meant(tok) = tok.text
    BY DEF Meant
  <1>4. Meant(tok) # <<>>
    <2>1. CASE tok.type = "APPEND"
      BY <2>1 DEF Meant
    <2>2. CASE tok.type # "APPEND"
      BY <1>1, <1>3, <2>2
    <2> QED
      BY <2>1, <2>2
  <1>5. ~ (Len(tok.text) < TokenSize) => tok.type = "WORD"
    <2>1. Len(tok.text) \in Nat
      OBVIOUS
    <2> QED
      BY <1>1, <2>1, ParserAssumption
  <1>6. Len(tok.text) < TokenSize => (tok.type = "WORD" => Len(Meant(tok)) < TokenSize)
    BY <1>3
  <1> QED
    BY <1>1, <1>2, <1>3, <1>4, <1>5, <1>6

\* token_push refuses only lines that the grammar refuses.
LEMMA LexFail ==
    ASSUME NEW C \in SUBSET Chars, NEW t \in Seq(C), NEW x \in 1..Len(t),
           NEW X, NEW tl \in Seq(X), Lexed(tl, t, x), Boundary(t, x), ~IsSpace(t[x]),
           ~Fits(tl, TokenFrom(t, x))
    PROVE  Stream!TokensOf(t) # <<>> /\ ~Stream!WellFormed(Stream!TokensOf(t))
  <1> DEFINE S == Starts(t, Len(t) + 1)
             ts == Stream!TokensOf(t)
             tok == TokenFrom(t, x)
  <1>1. /\ Positions(S)
        /\ ts = [k \in 1..Cardinality(S) |-> Stream!TokenAt(t, Stream!InOrder(S)[k])]
    BY TokensAre
  <1>2. Cardinality(S) \in Nat /\ IsFiniteSet(S)
    BY <1>1, PositionsFinite
  <1>3. Len(ts) = Cardinality(S)
    BY <1>1, <1>2
  <1>4. x \in S
    BY DEF Boundary, Starts
  <1>5. Rank(S, x) \in 1..Cardinality(S) /\ Stream!InOrder(S)[Rank(S, x)] = x
    BY <1>1, <1>4, RankType, InOrderType
  <1>6. ts[Rank(S, x)] = Meant(tok) /\ Proper(tok)
        /\ tok \in [type : TokenTypes, text : Seq(C)]
    BY <1>1, <1>5, TokenStep
  <1>7. Len(ts) \in Nat \ {0}
    BY <1>2, <1>3, <1>5
  <1>8. CASE ~ (Len(tok.text) < TokenSize)
    <2>1. /\ tok.type = "WORD" /\ Stream!Symbol(Meant(tok)) = "word" /\ Meant(tok) = tok.text
      BY <1>6, <1>8, ProperToken
    <2>2. Rank(S, x) \in 1..Len(ts) /\ Stream!Symbol(ts[Rank(S, x)]) = "word"
          /\ ~ (Len(ts[Rank(S, x)]) < TokenSize)
      BY <1>3, <1>5, <1>6, <1>8, <2>1
    <2> HIDE DEF ts, S, tok
    <2>3. ~Stream!WellFormed(ts)
      BY <1>7, <2>2, WellFormedIs
    <2> QED
      BY <1>7, <2>3 DEF ts
  <1>9. CASE ~ (Len(tl) < MaxToken)
    <2>1. Starts(t, EndAt(t, x) + 1) = Starts(t, x) \cup {x} /\ EndAt(t, x) \in x..Len(t)
      BY TokenStep
    <2>2. Starts(t, x) \cup {x} \subseteq S
      BY <1>4 DEF Starts
    <2>3. Cardinality(Starts(t, x) \cup {x}) <= Cardinality(S)
      BY <1>2, <2>2, FS_Subset
    <2>4. Cardinality(Starts(t, x) \cup {x}) = Cardinality(Starts(t, x)) + 1
      <3>1. x \in Nat \ {0}
        OBVIOUS
      <3>2. Positions(Starts(t, x)) /\ \A j \in Starts(t, x) : j \in 1..(x - 1)
        BY <3>1, StartsType
      <3>3. \A j \in Starts(t, x) : j < x
        BY <3>2
      <3> QED
        BY <3>1, <3>2, <3>3, RankAdd
    <2>5. Len(tl) = Cardinality(Starts(t, x)) /\ Len(tl) \in Nat
      BY DEF Lexed
    <2>6. ~ (Len(ts) <= MaxToken)
      BY <1>2, <1>3, <1>9, <2>3, <2>4, <2>5, ParserAssumption
    <2> HIDE DEF ts, S, tok
    <2>7. ~Stream!WellFormed(ts)
      BY <1>7, <2>6, WellFormedIs
    <2> QED
      BY <1>7, <2>7 DEF ts
  <1> QED
    BY <1>8, <1>9 DEF Fits

---------------------------------------------------------------------------
(* The inductive invariant.                                                *)

Phases ==
    /\ pc \in {"read", "lex", "ended"} => cmds = <<>>
    /\ pc = "dispatch" => cmds # <<>>
    /\ pc \in {"lex", "build", "dispatch"} => ~discarding
    /\ discarding => buf = <<>>

LexOK == pc = "lex" => Boundary(Line, at) /\ Lexed(toks, Line, at) /\ Accepted(toks)

BuildOK ==
    pc = "build" =>
      /\ toks # <<>> /\ Accepted(toks)
      /\ Meaning(toks) = Stream!TokensOf(Line)
      /\ Built(cmds, Meaning(toks), i - 1, status)

InputInv == TypeOK /\ Phases /\ LexOK /\ BuildOK

---------------------------------------------------------------------------
(* Helpers for the steps.                                                  *)

\* The keyboard holds characters only, and the line is typed on it.
LEMMA LineIs ==
    ASSUME TypeOK
    PROVE  /\ keys \in SUBSET Chars /\ buf \in Seq(keys)
           /\ Line \in Seq(keys) /\ Len(Line) <= Len(buf) /\ Len(Line) \in Nat
           /\ Stream!TokensOf(Stream!Visible(buf)) = Stream!TokensOf(Line)
           /\ buf # Stream!TooLong
  <1>1. keys \in SUBSET Chars /\ buf \in Seq(keys)
    BY DEF TypeOK, Chars
  <1>2. /\ Line \in Seq(keys) /\ Stream!Visible(buf) \in Seq(keys)
        /\ Len(Line) <= Len(Stream!Visible(buf)) /\ Len(Line) <= Len(buf)
        /\ \A k \in 1..Len(Line) : Stream!Visible(buf)[k] = Line[k]
        /\ \A k \in (Len(Line) + 1)..Len(Stream!Visible(buf)) : Stream!Visible(buf)[k] = "CR"
    BY <1>1, VisibleLine DEF Line
  <1>3. \A k \in (Len(Line) + 1)..Len(Stream!Visible(buf)) : IsSpace(Stream!Visible(buf)[k])
    BY <1>2 DEF IsSpace
  <1>4. Stream!TokensOf(Stream!Visible(buf)) = Stream!TokensOf(Line)
    BY <1>2, <1>3, SameTokens
  <1>5. buf # Stream!TooLong
    <2> SUFFICES ASSUME buf = <<"too_long">> PROVE FALSE
      BY DEF Stream!TooLong
    <2>1. buf[1] = "too_long" /\ buf[1] \in keys
      BY <1>1
    <2> QED
      BY <1>1, <2>1, Classes
  <1>6. Len(Line) \in Nat
    BY <1>2
  <1> QED
    BY <1>1, <1>2, <1>4, <1>5, <1>6

\* After a line without commands the shell is ready for the next one.
LEMMA NoCommandKeeps ==
    ASSUME InputInv, NEW st \in Int, NEW atEof \in BOOLEAN, NoCommand(st, atEof),
           keys' = keys, heap' \subseteq heap
    PROVE  InputInv'
  <1>1. /\ status' = st /\ buf' = <<>> /\ discarding' = FALSE
        /\ pc' \in {"read", "ended"} /\ eof' = atEof
        /\ at' = 0 /\ toks' = <<>> /\ i' = 0 /\ cmds' = <<>>
    BY DEF NoCommand, ResetInput, NextLine
  <1>2. TypeOK'
    <2>1. keys' \in Keyboards /\ eof' \in BOOLEAN
      BY <1>1 DEF InputInv, TypeOK
    <2>2. buf' \in Seq(keys') /\ Len(buf') < InputSize
      BY <1>1, InputAssumption
    <2>3. heap' \subseteq 0..MaxToken
      BY DEF InputInv, TypeOK
    <2>4. at' \in 0..InputSize /\ i' \in 0..(MaxToken + 1)
      BY <1>1, ParserAssumption, InputAssumption
    <2>5. /\ toks' \in Seq([type : TokenTypes, text : Seq(keys')])
          /\ Len(toks') <= MaxToken
          /\ cmds' \in Seq(Commands(Seq(keys') \cup {"status"} \X Int, Seq(keys')))
          /\ Len(cmds') <= MaxToken
      BY <1>1, ParserAssumption
    <2> QED
      BY <1>1, <2>1, <2>2, <2>3, <2>4, <2>5 DEF TypeOK
  <1>3. Phases'
    BY <1>1 DEF Phases
  <1>4. LexOK' /\ BuildOK'
    BY <1>1 DEF LexOK, BuildOK
  <1> QED
    BY <1>2, <1>3, <1>4 DEF InputInv

\* What the environment of CommandStream sees of it.
LEMMA NoCommandShows ==
    ASSUME InputInv, NEW st, NEW atEof, NoCommand(st, atEof), pc \in {"lex", "build"},
           \/ Stream!TokensOf(Line) = <<>> /\ st = status
           \/ /\ Stream!TokensOf(Line) # <<>>
              /\ ~Stream!WellFormed(Stream!TokensOf(Line)) /\ st = 2
           \/ Stream!TokensOf(Line) # <<>> /\ st = 1
    PROVE  Stream!NothingToDo
  <1>1. /\ status' = st /\ buf' = <<>> /\ discarding' = FALSE /\ pc' # "dispatch"
    BY DEF NoCommand, ResetInput, NextLine
  <1>2. ~discarding /\ pc # "dispatch" /\ pc # "ended"
    BY DEF InputInv, Phases
  <1>3. buf # Stream!TooLong /\ Stream!TokensOf(Stream!Visible(buf)) = Stream!TokensOf(Line)
    BY LineIs DEF InputInv
  <1>4. \/ Stream!TokensOf(Stream!Visible(buf)) = <<>> /\ status' = status
        \/ /\ Stream!TokensOf(Stream!Visible(buf)) # <<>>
           /\ ~Stream!WellFormed(Stream!TokensOf(Stream!Visible(buf))) /\ status' = 2
        \/ Stream!TokensOf(Stream!Visible(buf)) # <<>> /\ status' = 1
    BY <1>1, <1>3, Zenon
  <1> QED
    BY <1>1, <1>2, <1>3, <1>4 DEF Stream!NothingToDo

---------------------------------------------------------------------------
(* Each step keeps the invariant, and is a step of CommandStream or changes *)
(* nothing of it.                                                           *)

StreamStep == Stream!Next \/ UNCHANGED Stream!vars

LEMMA FirstState == ASSUME Init PROVE InputInv /\ Stream!Init
  <1>1. /\ keys \in Keyboards /\ buf = <<>> /\ discarding = FALSE /\ status = 0
        /\ pc = "read" /\ eof = FALSE /\ at = 0 /\ toks = <<>> /\ i = 0
        /\ cmds = <<>> /\ heap = {}
    BY DEF Init
  <1>2. TypeOK
    <2>1. buf \in Seq(keys) /\ Len(buf) < InputSize
      BY <1>1, InputAssumption
    <2>2. at \in 0..InputSize /\ i \in 0..(MaxToken + 1)
      BY <1>1, ParserAssumption, InputAssumption
    <2>3. /\ toks \in Seq([type : TokenTypes, text : Seq(keys)]) /\ Len(toks) <= MaxToken
          /\ cmds \in Seq(Commands(Seq(keys) \cup {"status"} \X Int, Seq(keys)))
          /\ Len(cmds) <= MaxToken
      BY <1>1, ParserAssumption
    <2>4. discarding \in BOOLEAN /\ eof \in BOOLEAN
      BY <1>1, Zenon
    <2>5. status \in Int /\ pc \in {"read", "lex", "build", "dispatch", "ended"}
      BY <1>1
    <2> QED
      BY <1>1, <2>1, <2>2, <2>3, <2>4, <2>5, Zenon DEF TypeOK
  <1>3. Phases
    BY <1>1 DEF Phases
  <1>4. LexOK /\ BuildOK
    BY <1>1 DEF LexOK, BuildOK
  <1>5. Stream!Init
    BY <1>1 DEF Stream!Init
  <1> QED
    BY <1>2, <1>3, <1>4, <1>5 DEF InputInv

\* A byte that is kept, skipped, or one too many.
LEMMA ReadByteStep ==
    ASSUME InputInv, NEW c \in keys, ReadByte(c)
    PROVE  InputInv' /\ StreamStep
  <1>0. TypeOK /\ Phases /\ LexOK /\ BuildOK
    BY DEF InputInv
  <1>1. /\ pc = "read" /\ pc' = "read" /\ keys' = keys /\ at' = at /\ toks' = toks /\ i' = i
        /\ cmds' = cmds /\ heap' = heap
    BY DEF ReadByte, memory
  <1>2. eof' = eof
    BY Zenon DEF ReadByte
  <1>3. \/ discarding /\ buf' = buf /\ discarding' = TRUE /\ status' = status
        \/ /\ ~discarding /\ Len(buf) + 1 >= InputSize
           /\ buf' = <<>> /\ discarding' = TRUE /\ status' = 2
        \/ /\ ~discarding /\ Len(buf) + 1 < InputSize
           /\ buf' = Append(buf, c) /\ discarding' = FALSE /\ status' = status
    <2>1. CASE discarding /\ UNCHANGED <<buf, discarding, status>>
      <3>1. discarding' = TRUE
        BY <1>0, <2>1, Zenon DEF TypeOK
      <3> QED
        BY <2>1, <3>1
    <2>2. CASE ~discarding /\ Len(buf) + 1 >= InputSize /\ GiveUpLine /\ status' = 2
      BY <2>2 DEF GiveUpLine
    <2>3. CASE /\ ~discarding /\ Len(buf) + 1 < InputSize
               /\ buf' = Append(buf, c) /\ UNCHANGED <<discarding, status>>
      <3>1. discarding' = FALSE
        BY <1>0, <2>3, Zenon DEF TypeOK
      <3> QED
        BY <2>3, <3>1
    <2> QED
      BY <2>1, <2>2, <2>3 DEF ReadByte
  <1>4. keys \in Keyboards /\ buf \in Seq(keys) /\ Len(buf) < InputSize /\ status \in Int
    BY <1>0 DEF TypeOK
  <1>5. TypeOK'
    <2>1. buf' \in Seq(keys') /\ Len(buf') < InputSize
      <3>1. <<>> \in Seq(keys) /\ Len(<<>>) = 0
        OBVIOUS
      <3>2. Append(buf, c) \in Seq(keys) /\ Len(Append(buf, c)) = Len(buf) + 1
        BY <1>4
      <3> QED
        <4>1. CASE buf' = buf
          BY <1>1, <1>4, <4>1
        <4>2. CASE buf' = <<>>
          BY <1>1, <3>1, <4>2, InputAssumption
        <4>3. CASE Len(buf) + 1 < InputSize /\ buf' = Append(buf, c)
          BY <1>1, <3>2, <4>3
        <4> QED
          BY <1>3, <4>1, <4>2, <4>3
    <2>2. discarding' \in BOOLEAN /\ status' \in Int
      <3>1. discarding' \in BOOLEAN
        BY <1>3, Zenon
      <3>2. status' = status \/ status' = 2
        BY <1>3, Zenon
      <3> QED
        BY <1>4, <3>1, <3>2
    <2>3. eof' \in BOOLEAN
      BY <1>0, <1>2, Zenon DEF TypeOK
    <2> QED
      BY <1>0, <1>1, <2>1, <2>2, <2>3 DEF TypeOK
  <1>6. LexOK' /\ BuildOK'
    BY <1>0, <1>1 DEF LexOK, BuildOK
  <1>7. Phases'
    BY <1>0, <1>1, <1>3 DEF Phases
  <1>8. StreamStep
    <2>1. c \in Chars
      BY LineIs, <1>0
    <2>2. buf # Stream!TooLong
      BY LineIs, <1>0
    <2>0. Append(buf, c)[Len(buf) + 1] = c /\ Len(Append(buf, c)) = Len(buf) + 1
          /\ Len(buf) \in Nat
      BY <1>4
    <2>3. Append(buf, c) # Stream!TooLong
      <3> SUFFICES ASSUME Append(buf, c) = <<"too_long">> PROVE FALSE
        BY DEF Stream!TooLong
      <3>1. Append(buf, c)[Len(buf) + 1] = c /\ Len(Append(buf, c)) = Len(buf) + 1
            /\ Len(buf) \in Nat
        BY <2>0
      <3>2. Len(<<"too_long">>) = 1 /\ <<"too_long">>[1] = "too_long"
        OBVIOUS
      <3>3. Len(buf) + 1 = 1
        BY <3>1, <3>2
      <3>4. c = "too_long"
        BY <3>1, <3>2, <3>3
      <3> QED
        BY <2>1, <3>4, Classes
    <2>4. Stream!Type(c)
      <3>1. CASE discarding /\ buf' = buf /\ discarding' = TRUE /\ status' = status
        BY <1>1, <3>1 DEF Stream!Type, Stream!TooLong
      <3>2. CASE /\ ~discarding /\ Len(buf) + 1 >= InputSize
                 /\ buf' = <<>> /\ discarding' = TRUE /\ status' = 2
        <4>1. Len(buf) >= InputSize - 1
          BY <1>4, <3>2, InputAssumption
        <4> QED
          BY <1>1, <2>2, <3>2, <4>1 DEF Stream!Type, Stream!TooLong
      <3>3. CASE /\ ~discarding /\ Len(buf) + 1 < InputSize
                 /\ buf' = Append(buf, c) /\ discarding' = FALSE /\ status' = status
        <4>1. ~ (Len(buf) >= InputSize - 1)
          BY <1>4, <3>3, InputAssumption
        <4> QED
          BY <1>1, <2>2, <2>3, <3>3, <4>1 DEF Stream!Type, Stream!TooLong
      <3> QED
        BY <1>3, <3>1, <3>2, <3>3
    <2> QED
      BY <2>1, <2>4 DEF StreamStep, Stream!Next, Chars
  <1> QED
    BY <1>5, <1>6, <1>7, <1>8 DEF InputInv

\* A line is handed to parse_line.
LEMMA SubmitStep ==
    ASSUME InputInv, pc = "read", ~discarding, NEW atEof \in BOOLEAN, Submit(atEof),
           keys' = keys
    PROVE  InputInv' /\ UNCHANGED Stream!vars
  <1>0. TypeOK /\ Phases /\ LexOK /\ BuildOK
    BY DEF InputInv
  <1>1. /\ pc' = "lex" /\ at' = 1 /\ toks' = <<>>
        /\ buf' = buf /\ status' = status /\ i' = i /\ cmds' = cmds /\ heap' = heap
    BY DEF Submit, memory
  <1>2. eof' = atEof /\ discarding' = discarding
    BY Zenon DEF Submit
  <1>3. discarding' = FALSE
    BY <1>0, <1>2, Zenon DEF TypeOK
  <1>4. TypeOK'
    <2>1. eof' \in BOOLEAN
      BY <1>2, Zenon
    <2>2. /\ toks' \in Seq([type : TokenTypes, text : Seq(keys')]) /\ Len(toks') <= MaxToken
          /\ at' \in 0..InputSize
      BY <1>1, ParserAssumption, InputAssumption
    <2> QED
      BY <1>0, <1>1, <1>3, <2>1, <2>2 DEF TypeOK
  <1>5. LexOK'
    <2>1. Line' = Line /\ Line \in Seq(keys)
      BY <1>0, <1>1, LineIs DEF Line
    <2>2. Boundary(Line, 1) /\ Starts(Line, 1) = {}
      BY <2>1, FirstBoundary
    <2>3. Lexed(<<>>, Line, 1) /\ Accepted(<<>>)
      BY <2>2, FS_EmptySet DEF Lexed, Accepted
    <2> QED
      BY <1>1, <2>1, <2>2, <2>3 DEF LexOK
  <1>6. BuildOK'
    BY <1>0, <1>1 DEF BuildOK
  <1>7. Phases'
    BY <1>0, <1>1, <1>3 DEF Phases
  <1>8. UNCHANGED Stream!vars
    BY <1>1, <1>3 DEF Stream!vars
  <1> QED
    BY <1>4, <1>5, <1>6, <1>7, <1>8 DEF InputInv

\* The buffer is emptied, between two lines.
LEMMA ResetKeeps ==
    ASSUME InputInv, ResetInput, pc = "read", pc' \in {"read", "ended"}, eof' \in BOOLEAN,
           UNCHANGED <<keys, status, at, toks, i, cmds, memory>>
    PROVE  InputInv' /\ buf' = <<>> /\ discarding' = FALSE
  <1>0. TypeOK /\ Phases /\ LexOK /\ BuildOK
    BY DEF InputInv
  <1>1. buf' = <<>> /\ discarding' = FALSE
    BY DEF ResetInput
  <1>2. TypeOK'
    <2>1. buf' \in Seq(keys') /\ Len(buf') < InputSize
      BY <1>1, InputAssumption
    <2> QED
      BY <1>0, <1>1, <2>1 DEF TypeOK, memory
  <1>3. LexOK' /\ BuildOK' /\ Phases'
    BY <1>0, <1>1 DEF LexOK, BuildOK, Phases
  <1> QED
    BY <1>1, <1>2, <1>3 DEF InputInv

\* An empty line has no token.
LEMMA EmptyLine ==
    ASSUME TypeOK, buf = <<>>
    PROVE  Stream!TokensOf(Stream!Visible(buf)) = <<>>
  <1>1. Line \in Seq(keys) /\ Len(Line) = 0
    BY LineIs
  <1>2. Starts(Line, Len(Line) + 1) = {}
    <2>1. Boundary(Line, 1) /\ Starts(Line, 1) = {}
      BY <1>1, FirstBoundary
    <2>2. Len(Line) + 1 = 1
      BY <1>1
    <2> QED
      BY <2>1, <2>2, Zenon
  <1>3. Lexed(<<>>, Line, Len(Line) + 1)
    BY <1>2, FS_EmptySet DEF Lexed
  <1>4. Meaning(<<>>) = Stream!TokensOf(Line)
    BY <1>1, <1>3, AllLexed
  <1>5. Meaning(<<>>) = <<>>
    BY DEF Meaning
  <1> QED
    BY <1>4, <1>5, LineIs

\* The end of a line.
LEMMA ReadNewlineStep ==
    ASSUME InputInv, ReadNewline
    PROVE  InputInv' /\ StreamStep
  <1>1. CASE discarding
    <2>1. /\ pc = "read" /\ ResetInput /\ keys' = keys
          /\ UNCHANGED <<status, pc, at, toks, i, cmds, memory>>
      BY <1>1 DEF ReadNewline
    <2>2. eof' = eof
      BY <1>1, Zenon DEF ReadNewline
    <2>3. eof' \in BOOLEAN
      BY <2>2, Zenon DEF InputInv, TypeOK
    <2>4. InputInv' /\ buf' = <<>> /\ discarding' = FALSE
      BY <2>1, <2>3, ResetKeeps
    <2>5. Stream!NothingToDo
      BY <1>1, <2>1, <2>4 DEF Stream!NothingToDo, Stream!TooLong
    <2> QED
      BY <2>4, <2>5 DEF StreamStep, Stream!Next
  <1>2. CASE ~discarding
    <2>1. pc = "read" /\ Submit(FALSE) /\ keys' = keys
      BY <1>2 DEF ReadNewline
    <2> QED
      BY <1>2, <2>1, SubmitStep DEF StreamStep
  <1> QED
    BY <1>1, <1>2

\* The end of the input.
LEMMA ReadEofStep ==
    ASSUME InputInv, ReadEof
    PROVE  InputInv' /\ StreamStep
  <1>1. CASE discarding \/ buf = <<>>
    <2>1. /\ pc = "read" /\ ResetInput /\ keys' = keys /\ NextLine(TRUE)
          /\ UNCHANGED <<status, at, toks, i, cmds, memory>>
      BY <1>1 DEF ReadEof
    <2>2. pc' = "ended" /\ eof' \in BOOLEAN
      BY <2>1 DEF NextLine
    <2>3. InputInv' /\ buf' = <<>> /\ discarding' = FALSE
      BY <2>1, <2>2, ResetKeeps
    <2>4. CASE discarding
      <3>1. Stream!NothingToDo
        BY <2>1, <2>2, <2>3, <2>4 DEF Stream!NothingToDo, Stream!TooLong
      <3> QED
        BY <2>3, <3>1 DEF StreamStep, Stream!Next
    <2>5. CASE ~discarding
      <3>1. buf = <<>> /\ buf # Stream!TooLong
        BY <1>1, <2>5, LineIs DEF InputInv
      <3>2. Stream!TokensOf(Stream!Visible(buf)) = <<>>
        BY <3>1, EmptyLine DEF InputInv
      <3>3. Stream!NothingToDo
        BY <2>1, <2>2, <2>3, <2>5, <3>1, <3>2 DEF Stream!NothingToDo
      <3> QED
        BY <2>3, <3>3 DEF StreamStep, Stream!Next
    <2> QED
      BY <2>4, <2>5
  <1>2. CASE ~ (discarding \/ buf = <<>>)
    <2>1. pc = "read" /\ Submit(TRUE) /\ keys' = keys
      BY <1>2 DEF ReadEof
    <2> QED
      BY <1>2, <2>1, SubmitStep DEF StreamStep
  <1> QED
    BY <1>1, <1>2

\* Ctrl+C.
LEMMA InterruptStep ==
    ASSUME InputInv, Interrupt
    PROVE  InputInv' /\ StreamStep
  <1>1. pc = "read" /\ ResetInput /\ UNCHANGED <<keys, status, pc, at, toks, i, cmds, memory>>
    BY DEF Interrupt
  <1>2. eof' \in BOOLEAN
    BY Zenon DEF Interrupt, InputInv, TypeOK
  <1>3. InputInv' /\ buf' = <<>> /\ discarding' = FALSE
    BY <1>1, <1>2, ResetKeeps
  <1>4. Stream!Interrupt
    BY <1>1, <1>3 DEF Stream!Interrupt
  <1> QED
    BY <1>3, <1>4 DEF StreamStep, Stream!Next

\* The terminal fails.
LEMMA ShellErrorStep ==
    ASSUME InputInv, ShellError
    PROVE  InputInv' /\ StreamStep
  <1>0. TypeOK /\ Phases /\ LexOK /\ BuildOK
    BY DEF InputInv
  <1>1. pc = "read" /\ pc' = "ended"
        /\ UNCHANGED <<keys, buf, status, at, toks, i, cmds, memory>>
    BY DEF ShellError
  <1>2. eof' = eof /\ discarding' = discarding
    BY Zenon DEF ShellError
  <1>3. discarding' \in BOOLEAN /\ eof' \in BOOLEAN /\ (discarding' <=> discarding)
    BY <1>0, <1>2, Zenon DEF TypeOK
  <1>4. TypeOK'
    BY <1>0, <1>1, <1>3 DEF TypeOK, memory
  <1>5. LexOK' /\ BuildOK' /\ Phases'
    BY <1>0, <1>1, <1>3 DEF LexOK, BuildOK, Phases
  <1>6. Stream!Lost
    BY <1>1, <1>3 DEF Stream!Lost
  <1> QED
    BY <1>4, <1>5, <1>6 DEF InputInv, StreamStep, Stream!Next

\* The lexer moves on.
LEMMA LexingMoves ==
    ASSUME InputInv, pc = "lex", pc' = "lex",
           UNCHANGED <<keys, buf, discarding, status, eof, i, cmds, memory>>,
           at' \in 0..InputSize,
           toks' \in Seq([type : TokenTypes, text : Seq(keys)]), Len(toks') <= MaxToken,
           Boundary(Line, at'), Lexed(toks', Line, at'), Accepted(toks')
    PROVE  InputInv' /\ StreamStep
  <1>0. TypeOK /\ Phases /\ LexOK /\ BuildOK
    BY DEF InputInv
  <1>1. keys' = keys /\ buf' = buf /\ status' = status /\ i' = i /\ cmds' = cmds /\ heap' = heap
    BY DEF memory
  <1>2. /\ discarding' \in BOOLEAN /\ eof' \in BOOLEAN /\ (discarding' <=> discarding)
    BY <1>0, Zenon DEF TypeOK
  <1>3. ~discarding /\ ~discarding'
    BY <1>0, <1>2 DEF Phases
  <1>4. TypeOK'
    BY <1>0, <1>1, <1>2 DEF TypeOK
  <1>5. LexOK'
    <2>1. Line' = Line
      BY <1>1 DEF Line
    <2> QED
      BY <2>1 DEF LexOK
  <1>6. BuildOK' /\ Phases'
    BY <1>0, <1>1, <1>3 DEF BuildOK, Phases
  <1>7. UNCHANGED Stream!vars
    BY <1>1, <1>3 DEF Stream!vars
  <1> QED
    BY <1>4, <1>5, <1>6, <1>7 DEF InputInv, StreamStep

\* A blank.
LEMMA SkipSpaceStep ==
    ASSUME InputInv, SkipSpace
    PROVE  InputInv' /\ StreamStep
  <1>0. TypeOK /\ LexOK
    BY DEF InputInv
  <1>1. /\ pc = "lex" /\ pc' = "lex" /\ at <= Len(Line) /\ IsSpace(Line[at]) /\ at' = at + 1
        /\ toks' = toks /\ UNCHANGED <<keys, buf, discarding, status, eof, i, cmds, memory>>
    BY DEF SkipSpace, Lexing
  <1>2. Boundary(Line, at) /\ Lexed(toks, Line, at) /\ Accepted(toks)
    BY <1>0, <1>1 DEF LexOK
  <1>3. Line \in Seq(keys) /\ Len(Line) <= Len(buf) /\ Len(Line) \in Nat
    BY <1>0, LineIs
  <1>4. at \in 1..Len(Line)
    BY <1>1, <1>2, <1>3 DEF Boundary
  <1>5. Boundary(Line, at + 1) /\ Starts(Line, at + 1) = Starts(Line, at)
    BY <1>1, <1>3, <1>4, SpaceStep
  <1>6. Lexed(toks, Line, at + 1)
    BY <1>2, <1>5, Zenon DEF Lexed
  <1>7. at + 1 \in 0..InputSize
    <2>1. buf \in Seq(keys) /\ Len(buf) < InputSize
      BY <1>0 DEF TypeOK
    <2>2. Len(buf) \in Nat
      BY <2>1
    <2> QED
      BY <1>3, <1>4, <2>1, <2>2, InputAssumption
  <1>8. /\ at' \in 0..InputSize
        /\ toks' \in Seq([type : TokenTypes, text : Seq(keys)]) /\ Len(toks') <= MaxToken
    BY <1>0, <1>1, <1>7 DEF TypeOK
  <1>9. Boundary(Line, at') /\ Lexed(toks', Line, at') /\ Accepted(toks')
    BY <1>1, <1>2, <1>5, <1>6
  <1> QED
    BY <1>1, <1>8, <1>9, LexingMoves

\* A token that fits.
LEMMA PushTokenStep ==
    ASSUME InputInv, PushToken
    PROVE  InputInv' /\ StreamStep
  <1> DEFINE tok == TokenFrom(Line, at)
  <1>0. TypeOK /\ LexOK
    BY DEF InputInv
  <1>1. /\ pc = "lex" /\ pc' = "lex" /\ at <= Len(Line) /\ ~IsSpace(Line[at])
        /\ Fits(toks, tok) /\ at' = EndAt(Line, at) + 1 /\ toks' = Append(toks, tok)
        /\ UNCHANGED <<keys, buf, discarding, status, eof, i, cmds, memory>>
    BY DEF PushToken, Lexing
  <1>2. Boundary(Line, at) /\ Lexed(toks, Line, at) /\ Accepted(toks)
    BY <1>0, <1>1 DEF LexOK
  <1>3. Line \in Seq(keys) /\ Len(Line) <= Len(buf) /\ Len(Line) \in Nat /\ keys \in SUBSET Chars
    BY <1>0, LineIs
  <1>4. at \in 1..Len(Line)
    BY <1>1, <1>2, <1>3 DEF Boundary
  <1>5. /\ EndAt(Line, at) \in at..Len(Line) /\ Boundary(Line, EndAt(Line, at) + 1)
        /\ Proper(tok) /\ tok \in [type : TokenTypes, text : Seq(keys)]
    BY <1>1, <1>2, <1>3, <1>4, TokenStep
  <1>6. toks \in Seq([type : TokenTypes, text : Seq(keys)])
    BY <1>0 DEF TypeOK
  <1>7. Lexed(Append(toks, tok), Line, EndAt(Line, at) + 1)
    BY <1>1, <1>2, <1>3, <1>4, <1>6, LexStep
  <1>8. Len(toks) < MaxToken /\ Len(tok.text) < TokenSize
    BY <1>1 DEF Fits
  <1> HIDE DEF tok
  <1>9. /\ Append(toks, tok) \in Seq([type : TokenTypes, text : Seq(keys)])
        /\ Len(Append(toks, tok)) = Len(toks) + 1 /\ Len(toks) \in Nat
        /\ Append(toks, tok)[Len(toks) + 1] = tok
        /\ \A k \in 1..Len(toks) : Append(toks, tok)[k] = toks[k]
    BY <1>5, <1>6
  <1>10. Len(Append(toks, tok)) <= MaxToken
    BY <1>8, <1>9, ParserAssumption
  <1>11. Accepted(Append(toks, tok))
    <2> SUFFICES ASSUME NEW k \in 1..Len(Append(toks, tok))
                 PROVE  /\ Proper(Append(toks, tok)[k])
                        /\ Len(Append(toks, tok)[k].text) < TokenSize
      BY DEF Accepted
    <2>1. CASE k = Len(toks) + 1
      <3>1. Append(toks, tok)[k] = tok
        BY <1>9, <2>1
      <3> QED
        BY <1>5, <1>8, <3>1
    <2>2. CASE k # Len(toks) + 1
      <3>1. k \in 1..Len(toks)
        BY <1>9, <2>2
      <3>2. Append(toks, tok)[k] = toks[k]
        BY <1>9, <3>1
      <3>3. Proper(toks[k]) /\ Len(toks[k].text) < TokenSize
        BY <1>2, <3>1 DEF Accepted
      <3> QED
        BY <3>2, <3>3
    <2> QED
      BY <2>1, <2>2
  <1>12. EndAt(Line, at) + 1 \in 0..InputSize
    <2>1. buf \in Seq(keys) /\ Len(buf) < InputSize
      BY <1>0 DEF TypeOK
    <2>2. Len(buf) \in Nat
      BY <2>1
    <2> QED
      BY <1>3, <1>4, <1>5, <2>1, <2>2, InputAssumption
  <1>13. /\ at' \in 0..InputSize
         /\ toks' \in Seq([type : TokenTypes, text : Seq(keys)]) /\ Len(toks') <= MaxToken
         /\ Boundary(Line, at') /\ Lexed(toks', Line, at') /\ Accepted(toks')
    BY <1>1, <1>5, <1>7, <1>9, <1>10, <1>11, <1>12
  <1> QED
    BY <1>1, <1>13, LexingMoves

\* A token too many, or too long.
LEMMA TokenizeFailStep ==
    ASSUME InputInv, TokenizeFail
    PROVE  InputInv' /\ StreamStep
  <1>0. TypeOK /\ Phases /\ LexOK
    BY DEF InputInv
  <1>1. /\ pc = "lex" /\ at <= Len(Line) /\ ~IsSpace(Line[at])
        /\ ~Fits(toks, TokenFrom(Line, at)) /\ NoCommand(2, eof)
        /\ keys' = keys /\ heap' = heap
    BY DEF TokenizeFail, Lexing, memory
  <1>2. Boundary(Line, at) /\ Lexed(toks, Line, at)
    BY <1>0, <1>1 DEF LexOK
  <1>3. Line \in Seq(keys) /\ Len(Line) \in Nat /\ keys \in SUBSET Chars
    BY <1>0, LineIs
  <1>4. at \in 1..Len(Line)
    BY <1>1, <1>2, <1>3 DEF Boundary
  <1>5. toks \in Seq([type : TokenTypes, text : Seq(keys)])
    BY <1>0 DEF TypeOK
  <1>6. /\ Stream!TokensOf(Line) # <<>>
        /\ ~Stream!WellFormed(Stream!TokensOf(Line))
    BY <1>1, <1>2, <1>3, <1>4, <1>5, LexFail
  <1>7. eof \in BOOLEAN
    BY <1>0 DEF TypeOK
  <1>8. InputInv'
    BY <1>1, <1>7, NoCommandKeeps
  <1>9. Stream!NothingToDo
    BY <1>1, <1>6, NoCommandShows
  <1> QED
    BY <1>8, <1>9 DEF StreamStep, Stream!Next

\* The first command can be allocated, or not.
LEMMA TokenizedStep ==
    ASSUME InputInv, Tokenized
    PROVE  InputInv' /\ StreamStep
  <1> DEFINE ts == Meaning(toks)
  <1>0. TypeOK /\ Phases /\ LexOK
    BY DEF InputInv
  <1>1. /\ pc = "lex" /\ at > Len(Line) /\ keys' = keys
        /\ \/ toks = <<>> /\ NoCommand(status, eof) /\ UNCHANGED memory
           \/ toks # <<>> /\ NoCommand(1, eof) /\ UNCHANGED memory
           \/ /\ toks # <<>>
              /\ pc' = "build" /\ at' = 0 /\ i' = 1
              /\ cmds' = <<NewCommand>> /\ Allocate(<<1, "command", 0>>, 0)
              /\ UNCHANGED <<buf, discarding, status, eof, toks>>
    BY DEF Tokenized
  <1>2. Boundary(Line, at) /\ Lexed(toks, Line, at) /\ Accepted(toks)
    BY <1>0, <1>1 DEF LexOK
  <1>3. Line \in Seq(keys) /\ Len(Line) \in Nat
    BY <1>0, LineIs
  <1>4. at = Len(Line) + 1
    BY <1>1, <1>2, <1>3 DEF Boundary
  <1>5. ts = Stream!TokensOf(Line)
    BY <1>2, <1>3, <1>4, AllLexed
  <1>6. toks \in Seq([type : TokenTypes, text : Seq(keys)]) /\ Len(toks) <= MaxToken
        /\ eof \in BOOLEAN /\ status \in Int
    BY <1>0 DEF TypeOK
  <1>7. Len(ts) = Len(toks) /\ Len(toks) \in Nat
    BY <1>6 DEF Meaning
  <1>8. ts = <<>> <=> toks = <<>>
    <2>1. CASE toks = <<>>
      BY <2>1 DEF Meaning
    <2>2. CASE toks # <<>>
      BY <1>6, <1>7, <2>2
    <2> QED
      BY <2>1, <2>2
  <1>9. UNCHANGED memory => heap' = heap
    BY DEF memory
  <1> HIDE DEF ts
  <1>10. CASE toks = <<>> /\ NoCommand(status, eof) /\ UNCHANGED memory
    <2>1. InputInv'
      BY <1>1, <1>6, <1>9, <1>10, NoCommandKeeps
    <2>2. Stream!NothingToDo
      BY <1>1, <1>5, <1>8, <1>10, NoCommandShows
    <2> QED
      BY <2>1, <2>2 DEF StreamStep, Stream!Next
  <1>11. CASE toks # <<>> /\ NoCommand(1, eof) /\ UNCHANGED memory
    <2>1. InputInv'
      BY <1>1, <1>6, <1>9, <1>11, NoCommandKeeps
    <2>2. Stream!NothingToDo
      BY <1>1, <1>5, <1>8, <1>11, NoCommandShows
    <2> QED
      BY <2>1, <2>2 DEF StreamStep, Stream!Next
  <1>12. CASE /\ toks # <<>>
              /\ pc' = "build" /\ at' = 0 /\ i' = 1
              /\ cmds' = <<NewCommand>> /\ Allocate(<<1, "command", 0>>, 0)
              /\ UNCHANGED <<buf, discarding, status, eof, toks>>
    <2>1. /\ discarding' \in BOOLEAN /\ eof' \in BOOLEAN /\ (discarding' <=> discarding)
      BY <1>0, <1>12, Zenon DEF TypeOK
    <2>2. ~discarding /\ ~discarding'
      BY <1>0, <1>1, <2>1 DEF Phases
    <2>3. Len(toks) >= 1 /\ MaxToken >= 1
      BY <1>6, <1>7, <1>12, ParserAssumption
    <2>4. cmds' \in Seq(Commands(Seq(keys') \cup {"status"} \X Int, Seq(keys')))
          /\ Len(cmds') <= MaxToken
      <3>1. NewCommand \in Commands(Seq(keys') \cup {"status"} \X Int, Seq(keys'))
        BY DEF NewCommand, Commands
      <3>2. Len(cmds') = 1
        BY <1>12
      <3>3. MaxToken \in Nat
        BY ParserAssumption
      <3>4. cmds' \in Seq({NewCommand})
        BY <1>12
      <3> QED
        BY <1>12, <2>3, <3>1, <3>2, <3>3
    <2>5. TypeOK'
      <3>1. i' \in 0..(MaxToken + 1) /\ at' \in 0..InputSize
        BY <1>12, ParserAssumption, InputAssumption
      <3>2. heap' \subseteq 0..MaxToken
        BY <1>0, <1>12, ParserAssumption DEF TypeOK, Allocate
      <3>3. keys' \in Keyboards /\ buf' \in Seq(keys') /\ Len(buf') < InputSize
            /\ status' \in Int /\ pc' \in {"read", "lex", "build", "dispatch", "ended"}
            /\ toks' \in Seq([type : TokenTypes, text : Seq(keys')]) /\ Len(toks') <= MaxToken
        BY <1>0, <1>1, <1>12 DEF TypeOK
      <3> QED
        BY <2>1, <2>4, <3>1, <3>2, <3>3 DEF TypeOK
    <2>6. BuildOK'
      <3>1. Line' = Line
        BY <1>12 DEF Line
      <3>2. Built(<<NewCommand>>, ts, 0, status)
        BY <1>7, NothingRead
      <3>3. ts' = ts
        BY <1>12 DEF ts
      <3>4. i' - 1 = 0
        BY <1>12
      <3>5. Accepted(toks') /\ toks' # <<>> /\ Meaning(toks') = ts
        BY <1>2, <1>12 DEF ts
      <3> QED
        BY <1>5, <1>12, <3>1, <3>2, <3>4, <3>5 DEF BuildOK
    <2>7. LexOK' /\ Phases'
      BY <1>12, <2>2 DEF LexOK, Phases
    <2>8. UNCHANGED Stream!vars
      BY <1>1, <1>12, <2>2 DEF Stream!vars
    <2> QED
      BY <2>5, <2>6, <2>7, <2>8 DEF InputInv, StreamStep
  <1> QED
    BY <1>1, <1>10, <1>11, <1>12

\* What is known of a token, and of its command, while the list is built.
LEMMA WhileBuilding ==
    ASSUME InputInv, pc = "build", NEW ts, ts = Meaning(toks)
    PROVE  /\ ts = Stream!TokensOf(Line) /\ Len(ts) = Len(toks) /\ Len(ts) \in Nat \ {0}
           /\ Len(ts) <= MaxToken /\ i - 1 \in 0..Len(ts) /\ i \in Nat
           /\ Built(cmds, ts, i - 1, status)
           /\ Len(cmds) \in Nat \ {0} /\ Len(cmds) = Started(ts, i - 1)
           /\ \A j \in 1..Len(ts) : ts[j] # <<>>
           /\ \A j \in 1..Len(ts) : Stream!Symbol(ts[j]) = "word" => Len(ts[j]) < TokenSize
           /\ \A j \in 1..Len(ts) :
                /\ toks[j] \in [type : TokenTypes, text : Seq(keys)]
                /\ toks[j].type = "WORD" <=> Stream!Symbol(ts[j]) = "word"
                /\ toks[j].type = "WORD" <=> Stream!IsWord(ts[j])
                /\ toks[j].type = "IN" <=> Stream!Symbol(ts[j]) = "<"
                /\ toks[j].type = "OUT" <=> Stream!Symbol(ts[j]) = ">"
                /\ toks[j].type = "APPEND" <=> Stream!Symbol(ts[j]) = ">>"
                /\ toks[j].type = "PIPE" <=> Stream!Symbol(ts[j]) = "|"
                /\ toks[j].type = "BACKGROUND" <=> Stream!Symbol(ts[j]) = "&"
                /\ toks[j].type # "APPEND" => ts[j] = toks[j].text
           /\ i <= Len(ts) => (NextIsWord <=> Stream!Followed(ts, i))
  <1>1. TypeOK /\ BuildOK
    BY DEF InputInv
  <1>2. /\ toks # <<>> /\ Accepted(toks) /\ ts = Stream!TokensOf(Line)
        /\ Built(cmds, ts, i - 1, status)
    BY <1>1 DEF BuildOK
  <1>3. /\ toks \in Seq([type : TokenTypes, text : Seq(keys)]) /\ Len(toks) <= MaxToken
        /\ i \in 0..(MaxToken + 1)
    BY <1>1 DEF TypeOK
  <1>4. Len(ts) = Len(toks) /\ Len(ts) \in Nat \ {0} /\ \A j \in 1..Len(ts) : ts[j] = Meant(toks[j])
    BY <1>2, <1>3 DEF Meaning
  <1>5. i - 1 \in 0..Len(ts) /\ Len(cmds) = Started(ts, i - 1)
    BY <1>2 DEF Built
  <1>6. i \in Nat
    BY <1>3, ParserAssumption
  <1>7. Len(cmds) \in Nat \ {0}
    BY <1>4, <1>5, StartedStep
  <1>8. ASSUME NEW j \in 1..Len(ts)
        PROVE  /\ ts[j] # <<>>
               /\ Stream!Symbol(ts[j]) = "word" => Len(ts[j]) < TokenSize
               /\ toks[j] \in [type : TokenTypes, text : Seq(keys)]
               /\ toks[j].type = "WORD" <=> Stream!Symbol(ts[j]) = "word"
               /\ toks[j].type = "WORD" <=> Stream!IsWord(ts[j])
               /\ toks[j].type = "IN" <=> Stream!Symbol(ts[j]) = "<"
               /\ toks[j].type = "OUT" <=> Stream!Symbol(ts[j]) = ">"
               /\ toks[j].type = "APPEND" <=> Stream!Symbol(ts[j]) = ">>"
               /\ toks[j].type = "PIPE" <=> Stream!Symbol(ts[j]) = "|"
               /\ toks[j].type = "BACKGROUND" <=> Stream!Symbol(ts[j]) = "&"
               /\ toks[j].type # "APPEND" => ts[j] = toks[j].text
    <2>1. j \in 1..Len(toks) /\ ts[j] = Meant(toks[j])
      BY <1>4
    <2>2. Proper(toks[j]) /\ Len(toks[j].text) < TokenSize
      BY <1>2, <2>1 DEF Accepted
    <2>3. toks[j] \in [type : TokenTypes, text : Seq(keys)]
      <3>1. \A X : toks \in Seq(X) => toks[j] \in X
        BY <2>1
      <3> QED
        BY <1>3, <3>1, Zenon
    <2>4. toks[j].text \in Seq(keys)
      BY <2>3
    <2> QED
      BY <2>1, <2>2, <2>3, <2>4, ProperToken
  <1>9. i <= Len(ts) => (NextIsWord <=> Stream!Followed(ts, i))
    <2>1. i < Len(ts) => i + 1 \in 1..Len(ts)
      BY <1>4, <1>6
    <2> QED
      BY <1>4, <1>8, <2>1 DEF NextIsWord, Stream!Followed
  <1> QED
    BY <1>2, <1>3, <1>4, <1>5, <1>6, <1>7, <1>8, <1>9

\* The commands of the list that build_command makes.
Lists == Commands(Seq(keys) \cup {"status"} \X Int, Seq(keys))

LEMMA ArgvType ==
    ASSUME NEW c \in Lists
    PROVE  c.argv \in Seq(Seq(keys) \cup {"status"} \X Int) /\ Len(c.argv) \in Nat
  <1>1. c \in [argv : Seq(Seq(keys) \cup {"status"} \X Int), in : Seq(keys), out : Seq(keys),
               append : BOOLEAN, background : BOOLEAN]
    BY Zenon DEF Lists, Commands
  <1>2. c.argv \in Seq(Seq(keys) \cup {"status"} \X Int)
    BY <1>1
  <1> QED
    BY <1>2

\* What may become of a command.
LEMMA Changes ==
    ASSUME NEW c \in Lists
    PROVE  /\ \A v \in Seq(Seq(keys) \cup {"status"} \X Int) :
                /\ [c EXCEPT !.argv = v] \in Lists /\ [c EXCEPT !.argv = v].argv = v
                /\ [c EXCEPT !.argv = v].in = c.in /\ [c EXCEPT !.argv = v].out = c.out
           /\ \A f \in Seq(keys) :
                /\ [c EXCEPT !.in = f] \in Lists /\ [c EXCEPT !.in = f].in = f
                /\ [c EXCEPT !.in = f].argv = c.argv /\ [c EXCEPT !.in = f].out = c.out
           /\ [c EXCEPT !.background = TRUE] \in Lists
           /\ [c EXCEPT !.background = TRUE].argv = c.argv
           /\ [c EXCEPT !.background = TRUE].in = c.in
           /\ [c EXCEPT !.background = TRUE].out = c.out
  <1> DEFINE W == Seq(Seq(keys) \cup {"status"} \X Int)
  <1>0. c \in [argv : W, in : Seq(keys), out : Seq(keys), append : BOOLEAN, background : BOOLEAN]
    BY Zenon DEF Lists, Commands
  <1>1. /\ c.argv \in W /\ c.in \in Seq(keys) /\ c.out \in Seq(keys)
        /\ c.append \in BOOLEAN /\ c.background \in BOOLEAN
    BY <1>0
  <1>2. Lists = [argv : W, in : Seq(keys), out : Seq(keys), append : BOOLEAN,
                 background : BOOLEAN]
    BY Zenon DEF Lists, Commands
  <1> HIDE DEF W
  <1>3. ASSUME NEW v \in W
        PROVE  /\ [c EXCEPT !.argv = v] \in Lists /\ [c EXCEPT !.argv = v].argv = v
               /\ [c EXCEPT !.argv = v].in = c.in /\ [c EXCEPT !.argv = v].out = c.out
    BY <1>0, <1>2
  <1>4. ASSUME NEW f \in Seq(keys)
        PROVE  /\ [c EXCEPT !.in = f] \in Lists /\ [c EXCEPT !.in = f].in = f
               /\ [c EXCEPT !.in = f].argv = c.argv /\ [c EXCEPT !.in = f].out = c.out
    BY <1>0, <1>2
  <1>5. /\ [c EXCEPT !.background = TRUE] \in Lists
        /\ [c EXCEPT !.background = TRUE].argv = c.argv
        /\ [c EXCEPT !.background = TRUE].in = c.in
        /\ [c EXCEPT !.background = TRUE].out = c.out
    BY <1>0, <1>2
  <1> QED
    BY <1>3, <1>4, <1>5 DEF W

LEMMA OutputChanges ==
    ASSUME NEW c \in Lists, NEW f \in Seq(keys), NEW b \in BOOLEAN
    PROVE  /\ [c EXCEPT !.out = f, !.append = b] \in Lists
           /\ [c EXCEPT !.out = f, !.append = b].out = f
           /\ [c EXCEPT !.out = f, !.append = b].argv = c.argv
           /\ [c EXCEPT !.out = f, !.append = b].in = c.in
  <1>1. Lists = [argv : Seq(Seq(keys) \cup {"status"} \X Int), in : Seq(keys), out : Seq(keys),
                 append : BOOLEAN, background : BOOLEAN]
    BY Zenon DEF Lists, Commands
  <1> QED
    BY <1>1

\* A longer list, of which the grammar says the same.
LEMMA GrowKeeps ==
    ASSUME InputInv, pc = "build", NEW new \in Seq(Lists), NEW step \in Nat \ {0}, Grow(new, step),
           Built(new, Meaning(toks), (i + step) - 1, status),
           Len(new) <= MaxToken, heap' \subseteq heap \cup {i}
    PROVE  InputInv' /\ StreamStep
  <1> DEFINE ts == Meaning(toks)
  <1>0. TypeOK /\ Phases /\ BuildOK
    BY DEF InputInv
  <1>1. /\ cmds' = new /\ i' = i + step
        /\ pc' = pc /\ keys' = keys /\ buf' = buf /\ status' = status /\ at' = at /\ toks' = toks
    BY DEF Grow
  <1>2. discarding' \in BOOLEAN /\ eof' \in BOOLEAN /\ (discarding' <=> discarding)
    BY <1>0, Zenon DEF Grow, TypeOK
  <1>3. ~discarding /\ ~discarding'
    BY <1>0, <1>2 DEF Phases
  <1>4. /\ Len(ts) \in Nat \ {0} /\ Len(ts) <= MaxToken /\ i \in Nat
        /\ Built(cmds, ts, i - 1, status)
    BY WhileBuilding
  <1>5. i' \in 0..(MaxToken + 1)
    <2>1. (i + step) - 1 \in 0..Len(ts)
      BY DEF Built
    <2> HIDE DEF ts
    <2> QED
      BY <1>1, <1>4, <2>1, ParserAssumption
  <1>6. heap' \subseteq 0..MaxToken
    <2>1. (i + step) - 1 \in 0..Len(ts)
      BY DEF Built
    <2> HIDE DEF ts
    <2>2. i \in 0..MaxToken
      BY <1>4, <2>1, ParserAssumption
    <2> QED
      BY <1>0, <2>2 DEF TypeOK
  <1>7. TypeOK'
    <2>1. cmds' \in Seq(Commands(Seq(keys') \cup {"status"} \X Int, Seq(keys')))
      BY <1>1, Zenon DEF Lists
    <2>2. Len(cmds') <= MaxToken
      BY <1>1
    <2>3. keys' \in Keyboards /\ buf' \in Seq(keys') /\ Len(buf') < InputSize
          /\ status' \in Int /\ pc' \in {"read", "lex", "build", "dispatch", "ended"}
          /\ at' \in 0..InputSize
          /\ toks' \in Seq([type : TokenTypes, text : Seq(keys')]) /\ Len(toks') <= MaxToken
      BY <1>0, <1>1 DEF TypeOK
    <2> QED
      BY <1>2, <1>5, <1>6, <2>1, <2>2, <2>3 DEF TypeOK
  <1>8. BuildOK'
    <2>1. Line' = Line
      BY <1>1 DEF Line
    <2>2. /\ toks # <<>> /\ Accepted(toks) /\ Meaning(toks) = Stream!TokensOf(Line)
      BY <1>0 DEF BuildOK
    <2>3. Built(cmds', Meaning(toks'), i' - 1, status')
      BY <1>1, Zenon
    <2>4. Meaning(toks') = Meaning(toks) /\ toks' # <<>> /\ Accepted(toks')
      BY <1>1, <2>2
    <2> QED
      BY <2>1, <2>2, <2>3, <2>4 DEF BuildOK
  <1>9. LexOK' /\ Phases'
    BY <1>1, <1>3 DEF LexOK, Phases
  <1>10. UNCHANGED Stream!vars
    BY <1>1, <1>3 DEF Stream!vars
  <1> QED
    BY <1>7, <1>8, <1>9, <1>10 DEF InputInv, StreamStep

\* One command of the list grows.
LEMMA ReplaceKeeps ==
    ASSUME InputInv, pc = "build", NEW m \in 1..Len(cmds), NEW c \in Lists,
           NEW step \in Nat \ {0}, Grow([cmds EXCEPT ![m] = c], step),
           Built([cmds EXCEPT ![m] = c], Meaning(toks), (i + step) - 1, status),
           heap' \subseteq heap \cup {i}
    PROVE  InputInv' /\ StreamStep
  <1> DEFINE new == [cmds EXCEPT ![m] = c]
  <1>1. cmds \in Seq(Lists) /\ Len(cmds) <= MaxToken
    BY Zenon DEF InputInv, TypeOK, Lists
  <1>2. new \in Seq(Lists)
    BY <1>1
  <1>3. Len(new) = Len(cmds)
    BY <1>1, Replaced
  <1>4. Grow(new, step) /\ Built(new, Meaning(toks), (i + step) - 1, status)
    OBVIOUS
  <1> HIDE DEF new
  <1> QED
    BY <1>1, <1>2, <1>3, <1>4, GrowKeeps

\* The command that is being built.
LEMMA CurrentCommand ==
    ASSUME InputInv, pc = "build"
    PROVE  /\ Len(cmds) \in 1..Len(cmds) /\ Current \in Lists
           /\ Len(Current.argv) \in Nat
           /\ Len(Current.argv) = Cardinality(ArgsTo(Meaning(toks), Len(cmds), i - 1))
           /\ Current.argv = <<>> <=> ArgsTo(Meaning(toks), Len(cmds), i - 1) = {}
           /\ Current.in = <<>> <=> InTo(Meaning(toks), Len(cmds), i - 1) = {}
           /\ Current.out = <<>> <=> OutTo(Meaning(toks), Len(cmds), i - 1) = {}
  <1> DEFINE ts == Meaning(toks)
  <1>1. /\ Len(ts) \in Nat \ {0} /\ Len(cmds) \in Nat \ {0}
        /\ Built(cmds, ts, i - 1, status) /\ \A j \in 1..Len(ts) : ts[j] # <<>>
    BY WhileBuilding
  <1>2. Len(cmds) \in 1..Len(cmds)
    BY <1>1
  <1>3. cmds \in Seq(Lists)
    BY Zenon DEF InputInv, TypeOK, Lists
  <1>4. Current \in Lists
    BY <1>2, <1>3 DEF Current
  <1>5. Len(Current.argv) \in Nat
    BY <1>4, ArgvType
  <1> HIDE DEF ts
  <1>6. /\ Len(cmds[Len(cmds)].argv) = Cardinality(ArgsTo(ts, Len(cmds), i - 1))
        /\ cmds[Len(cmds)].argv = <<>> <=> ArgsTo(ts, Len(cmds), i - 1) = {}
        /\ cmds[Len(cmds)].in = <<>> <=> InTo(ts, Len(cmds), i - 1) = {}
        /\ cmds[Len(cmds)].out = <<>> <=> OutTo(ts, Len(cmds), i - 1) = {}
    BY <1>1, <1>2, CurrentIs
  <1> QED
    BY <1>2, <1>4, <1>5, <1>6, Zenon DEF Current, ts

\* An argument.
LEMMA BuildWordStep ==
    ASSUME InputInv, BuildWord
    PROVE  InputInv' /\ StreamStep
  <1> DEFINE ts == Meaning(toks)
             m == Len(cmds)
             word == IF toks[i].text = <<"$?">> THEN <<"status", status>> ELSE toks[i].text
             c == [Current EXCEPT !.argv = Append(@, word)]
  <1>1. /\ pc = "build" /\ i <= Len(toks) /\ toks[i].type = "WORD"
        /\ Grow(SetCurrent(c), 1) /\ heap' \subseteq heap \cup {i}
    BY DEF BuildWord, Building, Allocate
  <1>2. /\ ~(Len(Current.argv) >= MaxArgs - 1)
    BY <1>1, Zenon DEF Grow, SyntaxError
  <1>3. /\ Len(ts) = Len(toks) /\ Len(ts) \in Nat \ {0} /\ i - 1 \in 0..Len(ts) /\ i \in Nat
        /\ Built(cmds, ts, i - 1, status) /\ m \in Nat \ {0}
        /\ \A j \in 1..Len(ts) :
             /\ toks[j] \in [type : TokenTypes, text : Seq(keys)]
             /\ toks[j].type = "WORD" <=> Stream!Symbol(ts[j]) = "word"
             /\ toks[j].type # "APPEND" => ts[j] = toks[j].text
    BY <1>1, WhileBuilding
  <1>4. /\ m \in 1..m /\ Current \in Lists /\ Len(Current.argv) \in Nat
    BY <1>1, CurrentCommand
  <1> HIDE DEF ts
  <1>5. i \in 1..Len(ts) /\ i - 1 \in Nat /\ (i - 1) + 1 = i /\ i - 1 < Len(ts)
        /\ (i + 1) - 1 = i
    BY <1>1, <1>3
  <1>6. Stream!Symbol(ts[i]) = "word" /\ ts[i] = toks[i].text
        /\ toks[i] \in [type : TokenTypes, text : Seq(keys)]
    BY <1>1, <1>3, <1>5
  <1>7. word = Stream!Expand(ts[i], status)
    BY <1>6 DEF Stream!Expand
  <1>8. word \in Seq(keys) \cup {"status"} \X Int
    <2>1. status \in Int
      BY DEF InputInv, TypeOK
    <2>2. toks[i].text \in Seq(keys)
      BY <1>6
    <2> QED
      BY <2>1, <2>2
  <1> HIDE DEF word
  <1>9. /\ c \in Lists /\ c.argv = Append(Current.argv, word)
        /\ c.in = Current.in /\ c.out = Current.out
    <2>1. Current.argv \in Seq(Seq(keys) \cup {"status"} \X Int)
      BY <1>4, ArgvType
    <2>2. Append(Current.argv, word) \in Seq(Seq(keys) \cup {"status"} \X Int)
      BY <1>8, <2>1
    <2> QED
      BY <1>4, <2>2, Changes
  <1>10. SetCurrent(c) = [cmds EXCEPT ![m] = c] /\ Current = cmds[m]
    BY DEF SetCurrent, Current
  <1>11. cmds \in Seq(Lists)
    BY Zenon DEF InputInv, TypeOK, Lists
  <1>12. c = [cmds[m] EXCEPT !.argv = Append(@, Stream!Expand(ts[i], status))]
    BY <1>7, <1>10
  <1> HIDE DEF c
  <1>13. Built([cmds EXCEPT ![m] = c], ts, i, status)
    <2> DEFINE dl == [cmds EXCEPT ![m] = c]
    <2>1. Len(dl) = Len(cmds) /\ dl[m] = c /\ \A n \in 1..Len(cmds) : n # m => dl[n] = cmds[n]
      BY <1>4, <1>11, Replaced
    <2>2. Len(cmds[m].argv) < MaxArgs - 1
      BY <1>2, <1>4, <1>10, ParserAssumption
    <2> HIDE DEF dl
    <2>3. Stream!Symbol(ts[(i - 1) + 1]) = "word" /\ Len(ts) \in Nat
          /\ dl[m] = [cmds[m] EXCEPT !.argv = Append(@, Stream!Expand(ts[(i - 1) + 1], status))]
      BY <1>3, <1>5, <1>6, <1>12, <2>1
    <2>4. Built(dl, ts, (i - 1) + 1, status)
      BY <1>3, <1>5, <2>1, <2>2, <2>3, WordBuilt, Zenon
    <2> QED
      BY <1>5, <2>4 DEF dl
  <1>14. Grow([cmds EXCEPT ![m] = c], 1) /\ 1 \in Nat \ {0}
         /\ Built([cmds EXCEPT ![m] = c], Meaning(toks), (i + 1) - 1, status)
    <2>1. Grow([cmds EXCEPT ![m] = c], 1)
      BY <1>1, <1>10, Zenon
    <2> QED
      BY <1>5, <1>13, <2>1 DEF ts
  <1> QED
    BY <1>1, <1>4, <1>9, <1>14, ReplaceKeeps

\* "<" and its file.
LEMMA BuildInputStep ==
    ASSUME InputInv, BuildInput
    PROVE  InputInv' /\ StreamStep
  <1> DEFINE ts == Meaning(toks)
             m == Len(cmds)
             c == [Current EXCEPT !.in = toks[i + 1].text]
  <1>1. /\ pc = "build" /\ i <= Len(toks) /\ toks[i].type = "IN"
        /\ Grow(SetCurrent(c), 2) /\ heap' \subseteq heap \cup {i}
    BY DEF BuildInput, Building, Allocate
  <1>2. NextIsWord /\ Current.in = <<>>
    BY <1>1, Zenon DEF Grow, SyntaxError
  <1>3. /\ Len(ts) = Len(toks) /\ Len(ts) \in Nat \ {0} /\ i - 1 \in 0..Len(ts) /\ i \in Nat
        /\ Built(cmds, ts, i - 1, status) /\ m \in Nat \ {0}
        /\ (i <= Len(ts) => (NextIsWord <=> Stream!Followed(ts, i)))
        /\ \A j \in 1..Len(ts) :
             /\ toks[j] \in [type : TokenTypes, text : Seq(keys)]
             /\ toks[j].type = "IN" <=> Stream!Symbol(ts[j]) = "<"
             /\ toks[j].type # "APPEND" => ts[j] = toks[j].text
    BY <1>1, WhileBuilding
  <1>4. /\ m \in 1..m /\ Current \in Lists /\ Len(Current.argv) \in Nat
        /\ Current.in = <<>> <=> InTo(ts, m, i - 1) = {}
    BY <1>1, CurrentCommand
  <1> HIDE DEF ts
  <1>5. i \in 1..Len(ts) /\ i - 1 \in Nat /\ (i - 1) + 1 = i /\ i - 1 < Len(ts)
        /\ (i + 2) - 1 = i + 1 /\ (i - 1) + 2 = i + 1
    BY <1>1, <1>3
  <1>6. Stream!Symbol(ts[i]) = "<" /\ Stream!Followed(ts, i)
    BY <1>1, <1>2, <1>3, <1>5
  <1>7. i + 1 \in 1..Len(ts) /\ toks[i + 1].type = "WORD"
    BY <1>2, <1>3, <1>5 DEF NextIsWord
  <1>8. ts[i + 1] = toks[i + 1].text /\ toks[i + 1].text \in Seq(keys)
    BY <1>3, <1>7
  <1>9. c \in Lists /\ c.argv = Current.argv /\ c.out = Current.out
    BY <1>4, <1>8, Changes
  <1>10. SetCurrent(c) = [cmds EXCEPT ![m] = c] /\ Current = cmds[m]
    BY DEF SetCurrent, Current
  <1>11. cmds \in Seq(Lists)
    BY Zenon DEF InputInv, TypeOK, Lists
  <1>12. c = [cmds[m] EXCEPT !.in = ts[(i - 1) + 2]]
    BY <1>5, <1>8, <1>10
  <1> HIDE DEF c
  <1>13. Built([cmds EXCEPT ![m] = c], ts, i + 1, status)
    <2> DEFINE dl == [cmds EXCEPT ![m] = c]
    <2>1. Len(dl) = Len(cmds) /\ dl[m] = c /\ \A n \in 1..Len(cmds) : n # m => dl[n] = cmds[n]
      BY <1>4, <1>11, Replaced
    <2>2. InTo(ts, m, i - 1) = {}
      BY <1>2, <1>4
    <2> HIDE DEF dl
    <2>3. /\ Stream!Symbol(ts[(i - 1) + 1]) = "<" /\ Stream!Followed(ts, (i - 1) + 1)
          /\ Len(ts) \in Nat /\ dl[m] = [cmds[m] EXCEPT !.in = ts[(i - 1) + 2]]
      BY <1>3, <1>5, <1>6, <1>12, <2>1
    <2>4. Built(dl, ts, (i - 1) + 2, status)
      BY <1>3, <1>5, <2>1, <2>2, <2>3, InputBuilt, Zenon
    <2> QED
      BY <1>5, <2>4 DEF dl
  <1>14. Grow([cmds EXCEPT ![m] = c], 2) /\ 2 \in Nat \ {0}
         /\ Built([cmds EXCEPT ![m] = c], Meaning(toks), (i + 2) - 1, status)
    <2>1. Grow([cmds EXCEPT ![m] = c], 2)
      BY <1>1, <1>10, Zenon
    <2> QED
      BY <1>5, <1>13, <2>1 DEF ts
  <1> QED
    BY <1>1, <1>4, <1>9, <1>14, ReplaceKeeps

\* ">" or ">>" and its file.
LEMMA BuildOutputStep ==
    ASSUME InputInv, BuildOutput
    PROVE  InputInv' /\ StreamStep
  <1>0. PICK type \in {"OUT", "APPEND"} :
          /\ Building(type)
          /\ Grow(SetCurrent([Current EXCEPT !.out = toks[i + 1].text,
                                             !.append = type = "APPEND"]), 2)
          /\ heap' \subseteq heap \cup {i}
    BY DEF BuildOutput, Allocate
  <1> DEFINE ts == Meaning(toks)
             m == Len(cmds)
             b == type = "APPEND"
             c == [Current EXCEPT !.out = toks[i + 1].text, !.append = b]
             symbol == IF b THEN ">>" ELSE ">"
  <1>1. /\ pc = "build" /\ i <= Len(toks) /\ toks[i].type = type
        /\ Grow(SetCurrent(c), 2) /\ heap' \subseteq heap \cup {i}
    BY <1>0 DEF Building
  <1>2. NextIsWord /\ Current.out = <<>>
    <2>1. toks[i].type \in {"OUT", "APPEND"} /\ ~SyntaxError
      BY <1>1, Zenon DEF Grow
    <2>2. toks[i].type # "WORD" /\ toks[i].type # "IN"
      BY <2>1
    <2> QED
      BY <2>1, <2>2, Zenon DEF SyntaxError
  <1>3. /\ Len(ts) = Len(toks) /\ Len(ts) \in Nat \ {0} /\ i - 1 \in 0..Len(ts) /\ i \in Nat
        /\ Built(cmds, ts, i - 1, status) /\ m \in Nat \ {0}
        /\ (i <= Len(ts) => (NextIsWord <=> Stream!Followed(ts, i)))
        /\ \A j \in 1..Len(ts) :
             /\ toks[j] \in [type : TokenTypes, text : Seq(keys)]
             /\ toks[j].type = "OUT" <=> Stream!Symbol(ts[j]) = ">"
             /\ toks[j].type = "APPEND" <=> Stream!Symbol(ts[j]) = ">>"
             /\ toks[j].type # "APPEND" => ts[j] = toks[j].text
    BY <1>1, WhileBuilding
  <1>4. /\ m \in 1..m /\ Current \in Lists /\ Len(Current.argv) \in Nat
        /\ Current.out = <<>> <=> OutTo(ts, m, i - 1) = {}
    BY <1>1, CurrentCommand
  <1> HIDE DEF ts
  <1>5. i \in 1..Len(ts) /\ i - 1 \in Nat /\ (i - 1) + 1 = i /\ i - 1 < Len(ts)
        /\ (i + 2) - 1 = i + 1 /\ (i - 1) + 2 = i + 1
    BY <1>1, <1>3
  <1>6. symbol \in {">", ">>"} /\ Stream!Symbol(ts[i]) = symbol /\ Stream!Followed(ts, i)
    BY <1>1, <1>2, <1>3, <1>5
  <1>7. i + 1 \in 1..Len(ts) /\ toks[i + 1].type = "WORD"
    BY <1>2, <1>3, <1>5 DEF NextIsWord
  <1>8. ts[i + 1] = toks[i + 1].text /\ toks[i + 1].text \in Seq(keys)
    BY <1>3, <1>7
  <1>9. c \in Lists /\ c.argv = Current.argv /\ c.in = Current.in
    <2>1. b \in BOOLEAN
      OBVIOUS
    <2>2. Current \in Lists /\ toks[i + 1].text \in Seq(keys)
      BY <1>4, <1>8
    <2> HIDE DEF b
    <2> QED
      BY <2>1, <2>2, OutputChanges, ZenonT(40)
  <1>10. SetCurrent(c) = [cmds EXCEPT ![m] = c] /\ Current = cmds[m]
    BY DEF SetCurrent, Current
  <1>11. cmds \in Seq(Lists)
    BY Zenon DEF InputInv, TypeOK, Lists
  <1>12. c = [cmds[m] EXCEPT !.out = ts[(i - 1) + 2], !.append = symbol = ">>"]
    <2>1. b = (symbol = ">>")
      BY Zenon
    <2>2. toks[i + 1].text = ts[(i - 1) + 2]
      BY <1>5, <1>8
    <2> HIDE DEF b, symbol
    <2> QED
      BY <1>10, <2>1, <2>2, Zenon
  <1> HIDE DEF c, symbol, b
  <1>13. Built([cmds EXCEPT ![m] = c], ts, i + 1, status)
    <2> DEFINE dl == [cmds EXCEPT ![m] = c]
    <2>1. Len(dl) = Len(cmds) /\ dl[m] = c /\ \A n \in 1..Len(cmds) : n # m => dl[n] = cmds[n]
      BY <1>4, <1>11, Replaced
    <2>2. OutTo(ts, m, i - 1) = {}
      BY <1>2, <1>4
    <2> HIDE DEF dl
    <2>3. dl[m] = [cmds[m] EXCEPT !.out = ts[(i - 1) + 2], !.append = symbol = ">>"]
      BY <1>12, <2>1, Zenon
    <2>4. /\ Stream!Symbol(ts[(i - 1) + 1]) = symbol /\ Stream!Followed(ts, (i - 1) + 1)
          /\ Len(ts) \in Nat
      BY <1>3, <1>5, <1>6
    <2>5. Built(dl, ts, (i - 1) + 2, status)
      BY <1>3, <1>5, <1>6, <2>1, <2>2, <2>3, <2>4, OutputBuilt, ZenonT(40)
    <2> QED
      BY <1>5, <2>5 DEF dl
  <1>14. Grow([cmds EXCEPT ![m] = c], 2) /\ 2 \in Nat \ {0}
         /\ Built([cmds EXCEPT ![m] = c], Meaning(toks), (i + 2) - 1, status)
    <2>1. Grow([cmds EXCEPT ![m] = c], 2)
      BY <1>1, <1>10, Zenon
    <2> QED
      BY <1>5, <1>13, <2>1 DEF ts
  <1> QED
    BY <1>1, <1>4, <1>9, <1>14, ReplaceKeeps

\* "&".
LEMMA BuildBackgroundStep ==
    ASSUME InputInv, BuildBackground
    PROVE  InputInv' /\ StreamStep
  <1> DEFINE ts == Meaning(toks)
             c == [cmds[1] EXCEPT !.background = TRUE]
  <1>1. /\ pc = "build" /\ i <= Len(toks) /\ toks[i].type = "BACKGROUND"
        /\ Grow([cmds EXCEPT ![1].background = TRUE], 1)
        /\ heap' \subseteq heap \cup {i}
    BY DEF BuildBackground, Building, memory
  <1>2. i = Len(toks)
    BY <1>1, Zenon DEF Grow, SyntaxError
  <1>3. /\ Len(ts) = Len(toks) /\ Len(ts) \in Nat \ {0} /\ i \in Nat
        /\ Built(cmds, ts, i - 1, status) /\ Len(cmds) \in Nat \ {0}
        /\ \A j \in 1..Len(ts) : toks[j].type = "BACKGROUND" <=> Stream!Symbol(ts[j]) = "&"
    BY <1>1, WhileBuilding
  <1> HIDE DEF ts
  <1>4. i \in 1..Len(ts) /\ i - 1 \in Nat /\ (i - 1) + 1 = i /\ i - 1 < Len(ts)
        /\ (i + 1) - 1 = i /\ 1 \in 1..Len(cmds) /\ i = Len(ts)
    BY <1>2, <1>3
  <1>5. Stream!Symbol(ts[i]) = "&"
    BY <1>1, <1>3, <1>4
  <1>6. cmds \in Seq(Lists)
    BY Zenon DEF InputInv, TypeOK, Lists
  <1>7. cmds[1] \in Lists
    BY <1>4, <1>6
  <1>8. c \in Lists /\ c.argv = cmds[1].argv /\ c.in = cmds[1].in /\ c.out = cmds[1].out
        /\ Len(c.argv) \in Nat
    <2>1. c \in Lists /\ c.argv = cmds[1].argv /\ c.in = cmds[1].in /\ c.out = cmds[1].out
      BY <1>7, Changes
    <2> HIDE DEF c
    <2>2. Len(c.argv) \in Nat
      BY <2>1, ArgvType
    <2> QED
      BY <2>1, <2>2
  <1>9. Grow([cmds EXCEPT ![1] = c], 1)
    BY <1>1
  <1>10. Built([cmds EXCEPT ![1] = c], ts, i, status)
    <2> DEFINE dl == [cmds EXCEPT ![1] = c]
    <2>1. Len(dl) = Len(cmds) /\ dl[1] = c /\ \A n \in 1..Len(cmds) : n # 1 => dl[n] = cmds[n]
      <3>1. ASSUME NEW k \in 1..Len(cmds)
            PROVE  /\ Len([cmds EXCEPT ![k] = c]) = Len(cmds) /\ [cmds EXCEPT ![k] = c][k] = c
                   /\ \A n \in 1..Len(cmds) : n # k => [cmds EXCEPT ![k] = c][n] = cmds[n]
        BY <1>6, Replaced
      <3> QED
        BY <1>4, <3>1
    <2> HIDE DEF dl
    <2>2. Built(dl, ts, (i - 1) + 1, status)
      BY <1>3, <1>4, <1>5, <2>1, BackgroundBuilt
    <2> QED
      BY <1>4, <2>2 DEF dl
  <1> HIDE DEF c
  <1>11. 1 \in Nat \ {0} /\ Built([cmds EXCEPT ![1] = c], Meaning(toks), (i + 1) - 1, status)
    BY <1>4, <1>10 DEF ts
  <1> QED
    BY <1>1, <1>4, <1>8, <1>9, <1>11, ReplaceKeeps

\* "|".
LEMMA BuildPipeStep ==
    ASSUME InputInv, BuildPipe
    PROVE  InputInv' /\ StreamStep
  <1> DEFINE ts == Meaning(toks)
             m == Len(cmds)
             new == Append(cmds, NewCommand)
  <1>1. /\ pc = "build" /\ i <= Len(toks) /\ toks[i].type = "PIPE" /\ Grow(new, 1)
        /\ heap' \subseteq heap \cup {i}
    BY DEF BuildPipe, Building, Allocate
  <1>2. Current.argv # <<>> /\ NextIsWord
    BY <1>1, Zenon DEF Grow, SyntaxError
  <1>3. /\ Len(ts) = Len(toks) /\ Len(ts) \in Nat \ {0} /\ i - 1 \in 0..Len(ts) /\ i \in Nat
        /\ Built(cmds, ts, i - 1, status) /\ m \in Nat \ {0} /\ Len(ts) <= MaxToken
        /\ (i <= Len(ts) => (NextIsWord <=> Stream!Followed(ts, i)))
        /\ \A j \in 1..Len(ts) : toks[j].type = "PIPE" <=> Stream!Symbol(ts[j]) = "|"
    BY <1>1, WhileBuilding
  <1>4. ArgsTo(ts, m, i - 1) # {}
    BY <1>1, <1>2, CurrentCommand
  <1> HIDE DEF ts
  <1>5. i \in 1..Len(ts) /\ i - 1 \in Nat /\ (i - 1) + 1 = i /\ i - 1 < Len(ts)
        /\ (i + 1) - 1 = i
    BY <1>1, <1>3
  <1>6. Stream!Symbol(ts[i]) = "|" /\ Stream!Followed(ts, i)
    BY <1>1, <1>2, <1>3, <1>5
  <1>7. cmds \in Seq(Lists) /\ NewCommand \in Lists
    <2>1. cmds \in Seq(Lists)
      BY Zenon DEF InputInv, TypeOK, Lists
    <2>2. NewCommand \in Lists
      BY DEF NewCommand, Lists, Commands
    <2> QED
      BY <2>1, <2>2
  <1>8. /\ new \in Seq(Lists) /\ Len(new) = m + 1 /\ new[m + 1] = NewCommand
        /\ \A n \in 1..m : new[n] = cmds[n]
    BY <1>7
  <1> HIDE DEF new
  <1>9. Built(new, ts, i, status)
    <2>1. Built(new, ts, (i - 1) + 1, status)
      BY <1>3, <1>4, <1>5, <1>6, <1>8, PipeBuilt
    <2> QED
      BY <1>5, <2>1
  <1>10. Len(new) <= MaxToken
    <2>1. Len(new) = Started(ts, i) /\ Pipes(ts, i) \subseteq 1..i
      BY <1>9 DEF Built, Pipes
    <2>2. IsFiniteSet(1..i) /\ Cardinality(1..i) = i
      <3>1. 1 \in Int /\ i \in Int /\ 1 <= i
        BY <1>3, <1>5
      <3> QED
        BY <3>1, FS_Interval
    <2>3. Cardinality(Pipes(ts, i)) <= i /\ Cardinality(Pipes(ts, i)) \in Nat
      BY <2>1, <2>2, FS_Subset, FS_CardinalityType
    <2>4. i < Len(ts)
      BY <1>6 DEF Stream!Followed
    <2> QED
      BY <1>3, <2>1, <2>3, <2>4, ParserAssumption DEF Started
  <1>11. Built(new, Meaning(toks), (i + 1) - 1, status) /\ 1 \in Nat \ {0}
    BY <1>5, <1>9 DEF ts
  <1> QED
    BY <1>1, <1>8, <1>10, <1>11, GrowKeeps

\* What build_command refuses, the grammar refuses.
LEMMA RefusedToken ==
    ASSUME InputInv, pc = "build", i <= Len(toks), SyntaxError
    PROVE  ~Stream!WellFormed(Meaning(toks))
  <1> DEFINE ts == Meaning(toks)
             m == Len(cmds)
  <1>1. /\ Len(ts) = Len(toks) /\ Len(ts) \in Nat \ {0} /\ i - 1 \in 0..Len(ts) /\ i \in Nat
        /\ Built(cmds, ts, i - 1, status) /\ m \in Nat \ {0}
        /\ \A j \in 1..Len(ts) : ts[j] # <<>>
        /\ (i <= Len(ts) => (NextIsWord <=> Stream!Followed(ts, i)))
    BY WhileBuilding
  <1>2. \A j \in 1..Len(ts) :
             /\ toks[j] \in [type : TokenTypes, text : Seq(keys)]
             /\ toks[j].type = "WORD" <=> Stream!Symbol(ts[j]) = "word"
             /\ toks[j].type = "IN" <=> Stream!Symbol(ts[j]) = "<"
             /\ toks[j].type = "OUT" <=> Stream!Symbol(ts[j]) = ">"
             /\ toks[j].type = "APPEND" <=> Stream!Symbol(ts[j]) = ">>"
             /\ toks[j].type = "PIPE" <=> Stream!Symbol(ts[j]) = "|"
             /\ toks[j].type = "BACKGROUND" <=> Stream!Symbol(ts[j]) = "&"
    BY WhileBuilding
  <1>3. /\ Current.argv = <<>> <=> ArgsTo(ts, m, i - 1) = {}
        /\ Current.in = <<>> <=> InTo(ts, m, i - 1) = {}
        /\ Current.out = <<>> <=> OutTo(ts, m, i - 1) = {}
    BY CurrentCommand
  <1> HIDE DEF ts
  <1>4. i \in 1..Len(ts) /\ i - 1 \in Nat /\ (i - 1) + 1 = i /\ i - 1 < Len(ts) /\ Len(ts) \in Nat
    BY <1>1
  <1>5. ~NextIsWord /\ Stream!Symbol(ts[i]) \notin {"word", "&"} => ~Stream!WellFormed(ts)
    <2> SUFFICES ASSUME ~NextIsWord, Stream!Symbol(ts[i]) \notin {"word", "&"}
                 PROVE  ~Stream!WellFormed(ts)
      OBVIOUS
    <2>1. ~Allowed(ts, i)
      BY <1>1, <1>4 DEF Allowed
    <2> QED
      BY <1>1, <1>4, <2>1, NotAllowed
  <1>6. CASE toks[i].type = "WORD"
    <2>1. Len(Current.argv) >= MaxArgs - 1
      BY <1>6, Zenon DEF SyntaxError
    <2>2. Len(cmds[m].argv) >= MaxArgs - 1
      BY <2>1 DEF Current
    <2>3. Stream!Symbol(ts[(i - 1) + 1]) = "word"
      BY <1>2, <1>4, <1>6
    <2>4. ~Stream!WellFormed(ts)
      BY <1>1, <1>4, <2>2, <2>3, TooManyArgs
    <2> QED
      BY <2>4 DEF ts
  <1>7. CASE toks[i].type = "IN"
    <2>1. ~NextIsWord \/ Current.in # <<>>
      <3>1. toks[i].type # "WORD"
        BY <1>7
      <3> QED
        BY <1>7, <3>1, Zenon DEF SyntaxError
    <2>2. Stream!Symbol(ts[i]) = "<"
      BY <1>2, <1>4, <1>7
    <2>3. CASE ~NextIsWord
      BY <1>5, <2>2, <2>3 DEF ts
    <2>4. CASE Current.in # <<>>
      <3>1. InTo(ts, m, i - 1) # {} /\ Stream!Symbol(ts[(i - 1) + 1]) = "<"
        BY <1>3, <1>4, <2>2, <2>4
      <3>2. ~Stream!WellFormed(ts)
        BY <1>1, <1>4, <3>1, TwoFiles
      <3> QED
        BY <3>2 DEF ts
    <2> QED
      BY <2>1, <2>3, <2>4
  <1>8. CASE toks[i].type \in {"OUT", "APPEND"}
    <2>1. ~NextIsWord \/ Current.out # <<>>
      <3>1. toks[i].type # "WORD" /\ toks[i].type # "IN"
        BY <1>8
      <3> QED
        BY <1>8, <3>1, Zenon DEF SyntaxError
    <2>2. Stream!Symbol(ts[i]) \in {">", ">>"}
      BY <1>2, <1>4, <1>8
    <2>3. CASE ~NextIsWord
      BY <1>5, <2>2, <2>3 DEF ts
    <2>4. CASE Current.out # <<>>
      <3>1. OutTo(ts, m, i - 1) # {} /\ Stream!Symbol(ts[(i - 1) + 1]) \in {">", ">>"}
        BY <1>3, <1>4, <2>2, <2>4
      <3>2. ~Stream!WellFormed(ts)
        BY <1>1, <1>4, <3>1, TwoFiles
      <3> QED
        BY <3>2 DEF ts
    <2> QED
      BY <2>1, <2>3, <2>4
  <1>9. CASE toks[i].type = "BACKGROUND"
    <2>1. i # Len(toks) \/ cmds[1].background
      <3>1. toks[i].type \notin {"WORD", "IN", "OUT", "APPEND"}
        BY <1>9
      <3>2. /\ toks[i].type # "WORD" /\ toks[i].type # "IN"
            /\ toks[i].type \notin {"OUT", "APPEND"}
        BY <1>9
      <3> QED
        BY <1>9, <3>2, Zenon DEF SyntaxError
    <2>2. Stream!Symbol(ts[i]) = "&"
      BY <1>2, <1>4, <1>9
    <2>3. CASE i # Len(toks)
      <3>1. ~Allowed(ts, i)
        BY <1>1, <2>2, <2>3 DEF Allowed
      <3>2. ~Stream!WellFormed(ts)
        BY <1>1, <1>4, <3>1, NotAllowed
      <3> QED
        BY <3>2 DEF ts
    <2>4. CASE cmds[1].background
      <3>1. /\ \A j \in 1..(i - 1) : Allowed(ts, j)
            /\ cmds[1] = CommandTo(ts, 1, i - 1, status)
        BY <1>1 DEF Built
      <3>2. InBackground(ts, 1, i - 1)
        <4>1. cmds[1].background = InBackground(ts, 1, i - 1)
          BY <3>1 DEF CommandTo
        <4> QED
          BY <2>4, <4>1, Zenon
      <3>3. PICK j \in 1..(i - 1) : Stream!Symbol(ts[j]) = "&"
        BY <3>2 DEF InBackground, AmpTo
      <3>4. j = Len(ts)
        BY <3>1, <3>3 DEF Allowed
      <3> QED
        BY <1>4, <3>3, <3>4
    <2> QED
      BY <2>1, <2>3, <2>4
  <1>10. CASE toks[i].type = "PIPE"
    <2>1. Current.argv = <<>> \/ ~NextIsWord
      <3>1. /\ toks[i].type # "WORD" /\ toks[i].type # "IN"
            /\ toks[i].type \notin {"OUT", "APPEND"} /\ toks[i].type # "BACKGROUND"
        BY <1>10
      <3> QED
        BY <1>10, <3>1, Zenon DEF SyntaxError
    <2>2. Stream!Symbol(ts[i]) = "|"
      BY <1>2, <1>4, <1>10
    <2>3. CASE ~NextIsWord
      BY <1>5, <2>2, <2>3 DEF ts
    <2>4. CASE Current.argv = <<>>
      <3>1. ArgsTo(ts, m, i - 1) = {} /\ Stream!Symbol(ts[(i - 1) + 1]) = "|"
        BY <1>3, <1>4, <2>2, <2>4
      <3>2. ~Stream!WellFormed(ts)
        BY <1>1, <1>4, <3>1, PipeAfterNothing
      <3> QED
        BY <3>2 DEF ts
    <2> QED
      BY <2>1, <2>3, <2>4
  <1>11. toks[i].type \in TokenTypes
    <2>1. toks[i] \in [type : TokenTypes, text : Seq(keys)]
      BY <1>2, <1>4
    <2> QED
      BY <2>1
  <1> QED
    BY <1>6, <1>7, <1>8, <1>9, <1>10, <1>11 DEF TokenTypes

\* syntax_fail.
LEMMA SyntaxFailStep ==
    ASSUME InputInv, SyntaxFail
    PROVE  InputInv' /\ StreamStep
  <1> DEFINE ts == Meaning(toks)
  <1>1. /\ pc = "build" /\ NoCommand(2, eof) /\ heap' \subseteq heap /\ keys' = keys
        /\ i <= Len(toks) => SyntaxError
        /\ ~(i <= Len(toks)) => \E n \in 1..Len(cmds) : cmds[n].argv = <<>>
    BY DEF SyntaxFail, Free
  <1>2. eof \in BOOLEAN
    BY DEF InputInv, TypeOK
  <1>3. InputInv'
    BY <1>1, <1>2, NoCommandKeeps
  <1>4. /\ Len(ts) = Len(toks) /\ Len(ts) \in Nat \ {0} /\ Len(ts) <= MaxToken
        /\ i - 1 \in 0..Len(ts) /\ i \in Nat
        /\ ts = Stream!TokensOf(Line) /\ Built(cmds, ts, i - 1, status)
        /\ \A j \in 1..Len(ts) : ts[j] # <<>>
        /\ \A j \in 1..Len(ts) : Stream!Symbol(ts[j]) = "word" => Len(ts[j]) < TokenSize
    BY <1>1, WhileBuilding
  <1>5. ~Stream!WellFormed(ts)
    <2>1. CASE i <= Len(toks)
      BY <1>1, <2>1, RefusedToken
    <2>2. CASE ~(i <= Len(toks))
      <3> HIDE DEF ts
      <3>1. i - 1 = Len(ts)
        BY <1>4, <2>2
      <3>2. cmds \in Seq(Lists)
        BY Zenon DEF InputInv, TypeOK, Lists
      <3>3. Built(cmds, ts, Len(ts), status)
        BY <1>4, <3>1
      <3> QED
        BY <1>1, <1>4, <2>2, <3>2, <3>3, AllRead
    <2> QED
      BY <2>1, <2>2
  <1> HIDE DEF ts
  <1>6. ts # <<>>
    BY <1>4
  <1>7. Stream!NothingToDo
    BY <1>1, <1>4, <1>5, <1>6, NoCommandShows
  <1> QED
    BY <1>3, <1>7 DEF StreamStep, Stream!Next

\* memory_fail.
LEMMA MemoryFailStep ==
    ASSUME InputInv, MemoryFail
    PROVE  InputInv' /\ StreamStep
  <1>1. pc = "build" /\ NoCommand(1, eof) /\ heap' \subseteq heap /\ keys' = keys
    BY DEF MemoryFail, Free
  <1>2. eof \in BOOLEAN
    BY DEF InputInv, TypeOK
  <1>3. InputInv'
    BY <1>1, <1>2, NoCommandKeeps
  <1>4. Len(Stream!TokensOf(Line)) \in Nat \ {0}
    BY <1>1, WhileBuilding
  <1>5. Stream!TokensOf(Line) # <<>>
    BY <1>4
  <1>6. Stream!NothingToDo
    BY <1>1, <1>5, NoCommandShows
  <1> QED
    BY <1>3, <1>6 DEF StreamStep, Stream!Next

\* The whole line is read: the dispatcher gets what the grammar says.
LEMMA BuildEndStep ==
    ASSUME InputInv, BuildEnd
    PROVE  InputInv' /\ StreamStep
  <1> DEFINE ts == Meaning(toks)
  <1>0. TypeOK /\ Phases
    BY DEF InputInv
  <1>1. /\ pc = "build" /\ i > Len(toks) /\ pc' = "dispatch"
        /\ \A n \in 1..Len(cmds) : cmds[n].argv # <<>>
        /\ keys' = keys /\ buf' = buf /\ status' = status /\ at' = at /\ toks' = toks
        /\ i' = i /\ cmds' = cmds /\ heap' = heap
    BY DEF BuildEnd, memory
  <1>2. discarding' \in BOOLEAN /\ eof' \in BOOLEAN /\ (discarding' <=> discarding)
    BY <1>0, Zenon DEF BuildEnd, TypeOK
  <1>3. ~discarding /\ ~discarding'
    BY <1>0, <1>1, <1>2 DEF Phases
  <1>4. /\ Len(ts) = Len(toks) /\ Len(ts) \in Nat \ {0} /\ Len(ts) <= MaxToken
        /\ i - 1 \in 0..Len(ts) /\ i \in Nat /\ Len(cmds) \in Nat \ {0}
        /\ ts = Stream!TokensOf(Line) /\ Built(cmds, ts, i - 1, status)
        /\ \A j \in 1..Len(ts) : ts[j] # <<>>
        /\ \A j \in 1..Len(ts) : Stream!Symbol(ts[j]) = "word" => Len(ts[j]) < TokenSize
    BY <1>1, WhileBuilding
  <1> HIDE DEF ts
  <1>5. cmds # <<>>
    BY <1>4
  <1>6. Stream!WellFormed(ts) /\ cmds = Stream!Reading(ts, status)
    <2>1. i - 1 = Len(ts)
      BY <1>1, <1>4
    <2>2. cmds \in Seq(Lists)
      BY Zenon DEF InputInv, TypeOK, Lists
    <2>3. Built(cmds, ts, Len(ts), status)
      BY <1>4, <2>1
    <2> QED
      BY <1>1, <1>4, <2>2, <2>3, AllRead
  <1>7. TypeOK'
    BY <1>0, <1>1, <1>2 DEF TypeOK
  <1>8. LexOK' /\ BuildOK' /\ Phases'
    BY <1>0, <1>1, <1>3, <1>5 DEF LexOK, BuildOK, Phases
  <1>9. Stream!Start
    <2>1. buf # Stream!TooLong /\ ts = Stream!TokensOf(Stream!Visible(buf))
      BY <1>0, <1>4, LineIs
    <2> QED
      BY <1>1, <1>3, <1>6, <2>1 DEF Stream!Start
  <1> QED
    BY <1>7, <1>8, <1>9 DEF InputInv, StreamStep, Stream!Next

\* The commands are run and freed.
LEMMA DispatchStep ==
    ASSUME InputInv, Dispatch
    PROVE  InputInv' /\ StreamStep
  <1>1. PICK st \in Statuses, exit \in BOOLEAN :
          NoCommand(IF st < 0 THEN 1 ELSE st, eof \/ exit)
    BY DEF Dispatch
  <1>2. pc = "dispatch" /\ heap' \subseteq heap /\ keys' = keys
    BY DEF Dispatch, Free
  <1>3. (IF st < 0 THEN 1 ELSE st) \in Int
    BY InputAssumption
  <1>4. (eof \/ exit) \in BOOLEAN
    BY Zenon
  <1>5. InputInv'
    BY <1>1, <1>2, <1>3, <1>4, NoCommandKeeps, Zenon
  <1>6. cmds # <<>>
    BY <1>2 DEF InputInv, Phases
  <1>7. status' = (IF st < 0 THEN 1 ELSE st) /\ cmds' = <<>> /\ buf' = <<>> /\ discarding' = FALSE
    BY <1>1, Zenon DEF NoCommand, ResetInput
  <1>8. Stream!Finish
    BY <1>2, <1>6, <1>7 DEF Stream!Finish
  <1> QED
    BY <1>5, <1>8 DEF StreamStep, Stream!Next

\* Nothing happens.
LEMMA StutterStep ==
    ASSUME InputInv, UNCHANGED vars
    PROVE  InputInv' /\ StreamStep
  <1>0. TypeOK /\ Phases /\ LexOK /\ BuildOK
    BY DEF InputInv
  <1>1. /\ keys' = keys /\ buf' = buf /\ status' = status /\ pc' = pc /\ at' = at
        /\ toks' = toks /\ i' = i /\ cmds' = cmds /\ heap' = heap
    BY DEF vars, memory
  <1>2. discarding' = discarding /\ eof' = eof
    BY Zenon DEF vars
  <1>3. discarding' \in BOOLEAN /\ eof' \in BOOLEAN /\ (discarding' <=> discarding)
    BY <1>0, <1>2, Zenon DEF TypeOK
  <1>4. TypeOK'
    BY <1>0, <1>1, <1>3 DEF TypeOK
  <1>5. Phases' /\ BuildOK'
    BY <1>0, <1>1, <1>3 DEF Phases, BuildOK, Line
  <1>6. LexOK'
    BY <1>0, <1>1 DEF LexOK, Line
  <1>7. UNCHANGED Stream!vars
    BY <1>1, <1>3 DEF Stream!vars
  <1> QED
    BY <1>4, <1>5, <1>6, <1>7 DEF InputInv, StreamStep

---------------------------------------------------------------------------
(* The memory of the list.                                                 *)

\* The pointers that are not NULL in a list of commands.
Reached(list, p) ==
    /\ p[1] \in 1..Len(list)
    /\ \/ p[2] = "argv" /\ p[3] \in 1..Len(list[p[1]].argv)
       \/ p[2] = "input_file" /\ list[p[1]].in # <<>>
       \/ p[2] = "output_file" /\ list[p[1]].out # <<>>
       \/ p[2] = "command"

\* Each block in use has one pointer to it, in the list, and is older than
\* the token that build_command takes next.
MemoryInv ==
    /\ pc \notin {"build", "dispatch"} => DOMAIN ptrs = {}
    /\ heap = {ptrs[p] : p \in DOMAIN ptrs}
    /\ \A p, q \in DOMAIN ptrs : ptrs[p] = ptrs[q] => p = q
    /\ \A p \in DOMAIN ptrs : Reached(cmds, p)
    /\ pc = "build" => \A p \in DOMAIN ptrs : ptrs[p] \in Int /\ ptrs[p] < i
    /\ ~misfreed

\* command_free finds each block once.
LEMMA AllFreed ==
    ASSUME MemoryInv, NEW fields, Free(fields),
           DOMAIN fields = DOMAIN ptrs, \A p \in DOMAIN ptrs : fields[p] = ptrs[p]
    PROVE  heap' = {} /\ ~misfreed' /\ ptrs' = <<>>
  <1>1. Freed(fields) = DOMAIN ptrs
    BY DEF MemoryInv, Reached, Freed
  <1> QED
    BY <1>1 DEF MemoryInv, Free

\* Without memory nothing changes.
LEMMA NoMemory ==
    ASSUME heap' = {}, ~misfreed', DOMAIN ptrs' = {}
    PROVE  MemoryInv'
  BY DEF MemoryInv

\* The memory and the list stay.
LEMMA MemoryStays ==
    ASSUME MemoryInv, UNCHANGED <<i, cmds, memory>>,
           pc' = "build" => pc = "build",
           pc' \notin {"build", "dispatch"} => pc \notin {"build", "dispatch"}
    PROVE  MemoryInv'
  <1>1. heap' = heap /\ ptrs' = ptrs /\ (misfreed' <=> misfreed) /\ cmds' = cmds /\ i' = i
    BY Zenon DEF memory
  <1>2. \A p \in DOMAIN ptrs : Reached(cmds, p) => Reached(cmds', p)
    BY <1>1
  <1> QED
    BY <1>1, <1>2 DEF MemoryInv

\* A block is allocated for a pointer that the list did not have.
LEMMA Allocated ==
    ASSUME MemoryInv, pc = "build", pc' = pc, i \in Int, i' \in Int, i < i',
           NEW place, Allocate(place, i), ~Reached(cmds, place), Reached(cmds', place),
           \A p : Reached(cmds, p) => Reached(cmds', p)
    PROVE  MemoryInv'
  <1>1. place \notin DOMAIN ptrs
    BY DEF MemoryInv
  <1>2. heap' = heap \cup {i} /\ ptrs' = Pointing(place, i) /\ (misfreed' <=> misfreed)
    BY Zenon DEF Allocate
  <1>3. /\ DOMAIN ptrs' = DOMAIN ptrs \cup {place} /\ ptrs'[place] = i
        /\ \A p \in DOMAIN ptrs : ptrs'[p] = ptrs[p]
    BY <1>1, <1>2 DEF Pointing
  <1>4. \A p \in DOMAIN ptrs' : Reached(cmds', p)
    BY <1>3 DEF MemoryInv
  <1>5. heap' = {ptrs'[p] : p \in DOMAIN ptrs'}
    BY <1>2, <1>3 DEF MemoryInv
  <1>6. \A p \in DOMAIN ptrs' : ptrs'[p] \in Int /\ ptrs'[p] < i'
    BY <1>3 DEF MemoryInv
  <1>7. \A p, q \in DOMAIN ptrs' : ptrs'[p] = ptrs'[q] => p = q
    BY <1>3 DEF MemoryInv
  <1> QED
    BY <1>2, <1>4, <1>5, <1>6, <1>7 DEF MemoryInv

\* A command that gets longer keeps its pointers.
LEMMA ReachedStays ==
    ASSUME cmds \in Seq(Lists), NEW m \in 1..Len(cmds), NEW c \in Lists,
           Len(cmds[m].argv) <= Len(c.argv),
           cmds[m].in # <<>> => c.in # <<>>, cmds[m].out # <<>> => c.out # <<>>,
           cmds' = [cmds EXCEPT ![m] = c]
    PROVE  /\ Len(cmds') = Len(cmds) /\ cmds'[m] = c
           /\ \A p : Reached(cmds, p) => Reached(cmds', p)
  <1>1. /\ Len(cmds') = Len(cmds) /\ cmds'[m] = c
        /\ \A n \in 1..Len(cmds) : n # m => cmds'[n] = cmds[n]
    BY Replaced
  <1>2. Len(cmds[m].argv) \in Nat /\ Len(c.argv) \in Nat
    BY ArgvType
  <1>3. ASSUME NEW p, Reached(cmds, p) PROVE Reached(cmds', p)
    <2>1. CASE p[1] = m
      BY <1>1, <1>2, <1>3, <2>1 DEF Reached
    <2>2. CASE p[1] # m
      BY <1>1, <1>3, <2>2 DEF Reached
    <2> QED
      BY <2>1, <2>2
  <1> QED
    BY <1>1, <1>3

\* What build_command sees at a token.
LEMMA AtToken ==
    ASSUME InputInv, pc = "build", i <= Len(toks)
    PROVE  /\ i \in Int /\ cmds \in Seq(Lists) /\ Len(cmds) \in 1..Len(cmds)
           /\ Current = cmds[Len(cmds)] /\ Current \in Lists /\ Len(Current.argv) \in Nat
           /\ toks[i].text \in Seq(keys)
           /\ NextIsWord => toks[i + 1].text \in Seq(keys) /\ toks[i + 1].text # <<>>
  <1> DEFINE ts == Meaning(toks)
  <1>1. /\ Len(ts) = Len(toks) /\ Len(ts) \in Nat \ {0} /\ i - 1 \in 0..Len(ts) /\ i \in Nat
        /\ \A j \in 1..Len(ts) : ts[j] # <<>>
        /\ \A j \in 1..Len(ts) : /\ toks[j] \in [type : TokenTypes, text : Seq(keys)]
                                 /\ toks[j].type # "APPEND" => ts[j] = toks[j].text
    BY WhileBuilding
  <1>2. /\ Len(cmds) \in 1..Len(cmds) /\ Current \in Lists /\ Len(Current.argv) \in Nat
    BY CurrentCommand
  <1>3. cmds \in Seq(Lists) /\ Current = cmds[Len(cmds)]
    BY Zenon DEF InputInv, TypeOK, Lists, Current
  <1> HIDE DEF ts
  <1>4. i \in 1..Len(ts)
    BY <1>1
  <1>5. toks[i].text \in Seq(keys)
    BY <1>1, <1>4
  <1>6. ASSUME NextIsWord
        PROVE  toks[i + 1].text \in Seq(keys) /\ toks[i + 1].text # <<>>
    <2>1. i + 1 \in 1..Len(ts) /\ toks[i + 1].type = "WORD"
      BY <1>1, <1>4, <1>6 DEF NextIsWord
    <2> QED
      BY <1>1, <2>1
  <1> QED
    BY <1>1, <1>2, <1>3, <1>5, <1>6

\* strdup for an argument: the pointer behind the last one.
LEMMA WordMemory ==
    ASSUME InputInv, MemoryInv, BuildWord
    PROVE  MemoryInv'
  <1> DEFINE word == IF toks[i].text = <<"$?">> THEN <<"status", status>> ELSE toks[i].text
             c == [Current EXCEPT !.argv = Append(@, word)]
             place == <<Len(cmds), "argv", Len(Current.argv) + 1>>
  <1>1. /\ pc = "build" /\ i <= Len(toks) /\ Allocate(place, i)
        /\ pc' = pc /\ i' = i + 1 /\ cmds' = [cmds EXCEPT ![Len(cmds)] = c]
    BY DEF BuildWord, Building, Grow, SetCurrent, Target
  <1>2. /\ i \in Int /\ cmds \in Seq(Lists) /\ Len(cmds) \in 1..Len(cmds)
        /\ Current = cmds[Len(cmds)] /\ Current \in Lists /\ Len(Current.argv) \in Nat
        /\ toks[i].text \in Seq(keys)
    BY <1>1, AtToken
  <1>3. word \in Seq(keys) \cup {"status"} \X Int
    BY <1>2 DEF InputInv, TypeOK
  <1> HIDE DEF word
  <1>4. /\ c \in Lists /\ c.argv = Append(Current.argv, word)
        /\ c.in = Current.in /\ c.out = Current.out
    <2>1. Current.argv \in Seq(Seq(keys) \cup {"status"} \X Int)
      BY <1>2, ArgvType
    <2> DEFINE v == Append(Current.argv, word)
    <2>2. v \in Seq(Seq(keys) \cup {"status"} \X Int)
      BY <1>3, <2>1
    <2>3. c = [Current EXCEPT !.argv = v] /\ Current \in Lists
      BY <1>2
    <2> HIDE DEF v, c
    <2>4. c \in Lists /\ c.argv = v /\ c.in = Current.in /\ c.out = Current.out
      BY <2>2, <2>3, Changes
    <2> QED
      BY <2>4 DEF v
  <1>5. Len(c.argv) = Len(Current.argv) + 1
    <2>1. Current.argv \in Seq(Seq(keys) \cup {"status"} \X Int)
      BY <1>2, ArgvType
    <2> QED
      BY <1>4, <2>1
  <1> HIDE DEF c
  <1>6. /\ i' \in Int /\ i < i'
        /\ Len(cmds[Len(cmds)].argv) <= Len(c.argv)
        /\ (cmds[Len(cmds)].in # <<>> => c.in # <<>>)
        /\ (cmds[Len(cmds)].out # <<>> => c.out # <<>>)
    BY <1>1, <1>2, <1>4, <1>5
  <1>7. /\ Len(cmds') = Len(cmds) /\ cmds'[Len(cmds)] = c
        /\ \A p : Reached(cmds, p) => Reached(cmds', p)
    BY <1>1, <1>2, <1>4, <1>6, ReachedStays
  <1>8. ~Reached(cmds, place) /\ Reached(cmds', place)
    BY <1>2, <1>5, <1>7 DEF Reached
  <1> HIDE DEF place
  <1> QED
    BY <1>1, <1>2, <1>6, <1>7, <1>8, Allocated

\* strdup for the file behind "<", which the command did not have.
LEMMA InputMemory ==
    ASSUME InputInv, MemoryInv, BuildInput
    PROVE  MemoryInv'
  <1> DEFINE c == [Current EXCEPT !.in = toks[i + 1].text]
             place == <<Len(cmds), "input_file", 0>>
  <1>1. /\ pc = "build" /\ i <= Len(toks) /\ toks[i].type = "IN" /\ Allocate(place, i)
        /\ pc' = pc /\ i' = i + 2 /\ cmds' = [cmds EXCEPT ![Len(cmds)] = c]
    BY DEF BuildInput, Building, Grow, SetCurrent, Target
  <1>2. NextIsWord /\ Current.in = <<>>
    <2>1. ~SyntaxError
      BY Zenon DEF BuildInput, Grow
    <2> QED
      BY <1>1, <2>1, Zenon DEF SyntaxError
  <1>3. /\ i \in Int /\ cmds \in Seq(Lists) /\ Len(cmds) \in 1..Len(cmds)
        /\ Current = cmds[Len(cmds)] /\ Current \in Lists /\ Len(Current.argv) \in Nat
        /\ toks[i + 1].text \in Seq(keys) /\ toks[i + 1].text # <<>>
    BY <1>1, <1>2, AtToken
  <1>4. /\ c \in Lists /\ c.argv = Current.argv
        /\ c.in = toks[i + 1].text /\ c.out = Current.out
    <2>1. Current \in Lists /\ toks[i + 1].text \in Seq(keys)
      BY <1>3
    <2> HIDE DEF place
    <2> QED
      BY <2>1, Changes, ZenonT(40)
  <1> HIDE DEF c
  <1>5. /\ i' \in Int /\ i < i'
        /\ Len(cmds[Len(cmds)].argv) <= Len(c.argv)
        /\ (cmds[Len(cmds)].in # <<>> => c.in # <<>>)
        /\ (cmds[Len(cmds)].out # <<>> => c.out # <<>>)
    BY <1>1, <1>2, <1>3, <1>4
  <1>6. /\ Len(cmds') = Len(cmds) /\ cmds'[Len(cmds)] = c
        /\ \A p : Reached(cmds, p) => Reached(cmds', p)
    BY <1>1, <1>3, <1>4, <1>5, ReachedStays
  <1>7. ~Reached(cmds, place) /\ Reached(cmds', place)
    BY <1>2, <1>3, <1>4, <1>6 DEF Reached
  <1> HIDE DEF place
  <1> QED
    BY <1>1, <1>3, <1>5, <1>6, <1>7, Allocated

\* strdup for the file behind ">" or ">>".
LEMMA OutputMemory ==
    ASSUME InputInv, MemoryInv, BuildOutput
    PROVE  MemoryInv'
  <1>0. PICK type \in {"OUT", "APPEND"} :
          /\ Building(type) /\ Allocate(Target, i)
          /\ Grow(SetCurrent([Current EXCEPT !.out = toks[i + 1].text,
                                             !.append = type = "APPEND"]), 2)
    BY DEF BuildOutput
  <1> DEFINE b == type = "APPEND"
             c == [Current EXCEPT !.out = toks[i + 1].text, !.append = b]
             place == <<Len(cmds), "output_file", 0>>
  <1>1. /\ pc = "build" /\ i <= Len(toks) /\ toks[i].type \in {"OUT", "APPEND"}
        /\ pc' = pc /\ i' = i + 2 /\ cmds' = [cmds EXCEPT ![Len(cmds)] = c] /\ ~SyntaxError
    BY <1>0, Zenon DEF Building, Grow, SetCurrent
  <1>2. toks[i].type # "WORD" /\ toks[i].type # "IN"
    BY <1>1
  <1>3. NextIsWord /\ Current.out = <<>>
    BY <1>1, <1>2, Zenon DEF SyntaxError
  <1>4. Allocate(place, i)
    BY <1>0, <1>1, <1>2, Zenon DEF Target
  <1>5. /\ i \in Int /\ cmds \in Seq(Lists) /\ Len(cmds) \in 1..Len(cmds)
        /\ Current = cmds[Len(cmds)] /\ Current \in Lists /\ Len(Current.argv) \in Nat
        /\ toks[i + 1].text \in Seq(keys) /\ toks[i + 1].text # <<>>
    BY <1>1, <1>3, AtToken
  <1>6. /\ c \in Lists /\ c.argv = Current.argv
        /\ c.in = Current.in /\ c.out = toks[i + 1].text
    <2>1. b \in BOOLEAN
      OBVIOUS
    <2>2. Current \in Lists /\ toks[i + 1].text \in Seq(keys)
      BY <1>5
    <2> HIDE DEF b, place
    <2> QED
      BY <2>1, <2>2, OutputChanges, ZenonT(40)
  <1> HIDE DEF c
  <1>7. /\ i' \in Int /\ i < i'
        /\ Len(cmds[Len(cmds)].argv) <= Len(c.argv)
        /\ (cmds[Len(cmds)].in # <<>> => c.in # <<>>)
        /\ (cmds[Len(cmds)].out # <<>> => c.out # <<>>)
    BY <1>1, <1>3, <1>5, <1>6
  <1>8. /\ Len(cmds') = Len(cmds) /\ cmds'[Len(cmds)] = c
        /\ \A p : Reached(cmds, p) => Reached(cmds', p)
    BY <1>1, <1>5, <1>6, <1>7, ReachedStays
  <1>9. ~Reached(cmds, place) /\ Reached(cmds', place)
    BY <1>3, <1>5, <1>6, <1>8 DEF Reached
  <1> HIDE DEF place
  <1> QED
    BY <1>1, <1>4, <1>5, <1>7, <1>8, <1>9, Allocated

\* The background mark needs no memory.
LEMMA BackgroundMemory ==
    ASSUME InputInv, MemoryInv, BuildBackground
    PROVE  MemoryInv'
  <1> DEFINE c == [cmds[1] EXCEPT !.background = TRUE]
  <1>1. /\ pc = "build" /\ i <= Len(toks) /\ UNCHANGED memory
        /\ pc' = pc /\ i' = i + 1 /\ cmds' = [cmds EXCEPT ![1] = c]
    BY DEF BuildBackground, Building, Grow
  <1>2. i \in Int /\ cmds \in Seq(Lists) /\ Len(cmds) \in 1..Len(cmds)
    BY <1>1, AtToken
  <1>3. 1 \in 1..Len(cmds) /\ cmds[1] \in Lists
    BY <1>2
  <1>4. /\ c \in Lists /\ c.argv = cmds[1].argv /\ c.in = cmds[1].in /\ c.out = cmds[1].out
        /\ Len(cmds[1].argv) \in Nat
    BY <1>3, Changes, ArgvType
  <1> HIDE DEF c
  <1>5. /\ Len(cmds[1].argv) <= Len(c.argv)
        /\ (cmds[1].in # <<>> => c.in # <<>>)
        /\ (cmds[1].out # <<>> => c.out # <<>>)
    BY <1>4
  <1>6. \A p : Reached(cmds, p) => Reached(cmds', p)
    BY <1>1, <1>2, <1>3, <1>4, <1>5, ReachedStays
  <1>7. heap' = heap /\ ptrs' = ptrs /\ (misfreed' <=> misfreed)
    BY <1>1, Zenon DEF memory
  <1>8. \A p \in DOMAIN ptrs' : Reached(cmds', p)
    BY <1>6, <1>7 DEF MemoryInv
  <1>9. pc' = "build" /\ \A p \in DOMAIN ptrs' : ptrs'[p] \in Int /\ ptrs'[p] < i'
    BY <1>1, <1>2, <1>7 DEF MemoryInv
  <1> QED
    BY <1>7, <1>8, <1>9 DEF MemoryInv

\* new_command: the next of the last one.
LEMMA PipeMemory ==
    ASSUME InputInv, MemoryInv, BuildPipe
    PROVE  MemoryInv'
  <1> DEFINE place == <<Len(cmds) + 1, "command", 0>>
  <1>1. /\ pc = "build" /\ i <= Len(toks) /\ Allocate(place, i)
        /\ pc' = pc /\ i' = i + 1 /\ cmds' = Append(cmds, NewCommand)
    BY DEF BuildPipe, Building, Grow, Target
  <1>2. i \in Int /\ cmds \in Seq(Lists) /\ Len(cmds) \in 1..Len(cmds)
    BY <1>1, AtToken
  <1>3. Len(cmds') = Len(cmds) + 1 /\ \A n \in 1..Len(cmds) : cmds'[n] = cmds[n]
    BY <1>1, <1>2
  <1>4. \A p : Reached(cmds, p) => Reached(cmds', p)
    BY <1>2, <1>3 DEF Reached
  <1>5. ~Reached(cmds, place) /\ Reached(cmds', place)
    BY <1>2, <1>3 DEF Reached
  <1> QED
    BY <1>1, <1>2, <1>4, <1>5, Allocated

\* memory_fail: the pointer that was to get the block is NULL, and was before.
LEMMA MemoryFailMemory ==
    ASSUME InputInv, MemoryInv, MemoryFail
    PROVE  MemoryInv'
  <1>1. /\ pc = "build" /\ i <= Len(toks) /\ toks[i].type # "BACKGROUND" /\ ~SyntaxError
        /\ Free([p \in DOMAIN ptrs \ {Target} |-> ptrs[p]])
    BY Zenon DEF MemoryFail
  <1>2. /\ Len(cmds) \in 1..Len(cmds) /\ Current = cmds[Len(cmds)]
        /\ Len(Current.argv) \in Nat
    BY <1>1, AtToken
  <1>3. toks[i].type \in TokenTypes
    BY <1>1, WhileBuilding
  <1>4. ~Reached(cmds, Target)
    <2>1. CASE toks[i].type = "WORD"
      <3>1. Target = <<Len(cmds), "argv", Len(Current.argv) + 1>>
        BY <2>1 DEF Target
      <3> QED
        BY <1>2, <3>1 DEF Reached
    <2>2. CASE toks[i].type = "IN"
      <3>1. Target = <<Len(cmds), "input_file", 0>>
        BY <2>2 DEF Target
      <3>2. Current.in = <<>>
        BY <1>1, <2>2, Zenon DEF SyntaxError
      <3> QED
        BY <1>2, <3>1, <3>2 DEF Reached
    <2>3. CASE toks[i].type \in {"OUT", "APPEND"}
      <3>1. toks[i].type # "WORD" /\ toks[i].type # "IN"
        BY <2>3
      <3>2. Target = <<Len(cmds), "output_file", 0>>
        BY <2>3, <3>1, Zenon DEF Target
      <3>3. Current.out = <<>>
        BY <1>1, <2>3, <3>1, Zenon DEF SyntaxError
      <3> QED
        BY <1>2, <3>2, <3>3 DEF Reached
    <2>4. CASE toks[i].type = "PIPE"
      <3>1. Target = <<Len(cmds) + 1, "command", 0>>
        BY <2>4 DEF Target
      <3> QED
        BY <1>2, <3>1 DEF Reached
    <2> QED
      BY <1>1, <1>3, <2>1, <2>2, <2>3, <2>4 DEF TokenTypes
  <1>5. Target \notin DOMAIN ptrs
    BY <1>4 DEF MemoryInv
  <1> DEFINE fields == [p \in DOMAIN ptrs \ {Target} |-> ptrs[p]]
  <1>6. DOMAIN fields = DOMAIN ptrs /\ \A p \in DOMAIN ptrs : fields[p] = ptrs[p]
    BY <1>5
  <1>7. Free(fields)
    BY <1>1
  <1> HIDE DEF fields
  <1>8. heap' = {} /\ ~misfreed' /\ ptrs' = <<>>
    BY <1>6, <1>7, AllFreed
  <1> QED
    BY <1>8, NoMemory

\* Every step of the shell keeps the memory in order.
LEMMA MemoryStep ==
    ASSUME InputInv, MemoryInv, [Next]_vars
    PROVE  MemoryInv'
  <1>1. ASSUME NEW c \in keys, ReadByte(c) PROVE MemoryInv'
    <2>1. UNCHANGED <<i, cmds, memory>> /\ pc = "read" /\ pc' = pc
      BY <1>1 DEF ReadByte
    <2> QED
      BY <2>1, MemoryStays
  <1>2. CASE ReadNewline \/ ReadEof \/ Interrupt \/ ShellError
    <2>1. UNCHANGED <<i, cmds, memory>> /\ pc = "read" /\ pc' \in {"read", "lex", "ended"}
      BY <1>2 DEF ReadNewline, ReadEof, Interrupt, ShellError, Submit, NextLine
    <2> QED
      BY <2>1, MemoryStays
  <1>3. CASE SkipSpace \/ PushToken
    <2>1. UNCHANGED <<i, cmds, memory>> /\ pc = "lex" /\ pc' = pc
      BY <1>3 DEF SkipSpace, PushToken, Lexing
    <2> QED
      BY <2>1, MemoryStays
  <1>4. CASE TokenizeFail \/ Tokenized
    <2>1. pc = "lex"
      BY <1>4 DEF TokenizeFail, Tokenized, Lexing
    <2>2. heap = {} /\ DOMAIN ptrs = {} /\ ~misfreed
      BY <2>1 DEF MemoryInv
    <2>3. CASE UNCHANGED memory
      <3>1. heap' = heap /\ ptrs' = ptrs /\ (misfreed' <=> misfreed)
        BY <2>3, Zenon DEF memory
      <3> QED
        BY <2>2, <3>1, NoMemory
    <2>4. CASE ~UNCHANGED memory
      <3>1. /\ pc' = "build" /\ i' = 1 /\ cmds' = <<NewCommand>>
            /\ Allocate(<<1, "command", 0>>, 0)
        BY <1>4, <2>4, Zenon DEF TokenizeFail, Tokenized
      <3>2. heap' = {0} /\ ptrs' = Pointing(<<1, "command", 0>>, 0) /\ ~misfreed'
        BY <2>2, <3>1 DEF Allocate
      <3>3. DOMAIN ptrs' = {<<1, "command", 0>>} /\ ptrs'[<<1, "command", 0>>] = 0
        BY <2>2, <3>2 DEF Pointing
      <3>4. Reached(cmds', <<1, "command", 0>>)
        BY <3>1 DEF Reached
      <3> QED
        BY <3>1, <3>2, <3>3, <3>4 DEF MemoryInv
    <2> QED
      BY <2>3, <2>4
  <1>5. CASE BuildWord \/ BuildInput \/ BuildOutput \/ BuildBackground \/ BuildPipe
    BY <1>5, WordMemory, InputMemory, OutputMemory, BackgroundMemory, PipeMemory
  <1>6. CASE SyntaxFail \/ Dispatch
    <2>1. Free(ptrs)
      BY <1>6 DEF SyntaxFail, Dispatch
    <2>2. heap' = {} /\ ~misfreed' /\ ptrs' = <<>>
      BY <2>1, AllFreed
    <2> QED
      BY <2>2, NoMemory
  <1>7. CASE MemoryFail
    BY <1>7, MemoryFailMemory
  <1>8. CASE BuildEnd \/ Ended \/ UNCHANGED vars
    <2>1. UNCHANGED <<i, cmds, memory>> /\ (pc' = pc \/ (pc = "build" /\ pc' = "dispatch"))
      <3>1. CASE BuildEnd
        BY <3>1 DEF BuildEnd
      <3>2. CASE Ended \/ UNCHANGED vars
        BY <3>2, Zenon DEF Ended, vars
      <3> QED
        BY <1>8, <3>1, <3>2
    <2> QED
      BY <2>1, MemoryStays
  <1> QED
    BY <1>1, <1>2, <1>3, <1>4, <1>5, <1>6, <1>7, <1>8, Zenon DEF Next

---------------------------------------------------------------------------
(* The theorems.                                                           *)

\* Every step of the shell keeps the invariant, and is a step of
\* CommandStream or changes nothing that it speaks of.
LEMMA EachStep ==
    ASSUME InputInv, [Next]_vars
    PROVE  InputInv' /\ StreamStep
  <1>1. ASSUME NEW c \in keys, ReadByte(c) PROVE InputInv' /\ StreamStep
    BY <1>1, ReadByteStep
  <1>2. CASE ReadNewline \/ ReadEof \/ Interrupt \/ ShellError
    BY <1>2, ReadNewlineStep, ReadEofStep, InterruptStep, ShellErrorStep
  <1>3. CASE SkipSpace \/ PushToken \/ TokenizeFail \/ Tokenized
    BY <1>3, SkipSpaceStep, PushTokenStep, TokenizeFailStep, TokenizedStep
  <1>4. CASE BuildWord \/ BuildInput \/ BuildOutput \/ BuildBackground \/ BuildPipe
    BY <1>4, BuildWordStep, BuildInputStep, BuildOutputStep, BuildBackgroundStep, BuildPipeStep
  <1>5. CASE SyntaxFail \/ MemoryFail \/ BuildEnd \/ Dispatch
    BY <1>5, SyntaxFailStep, MemoryFailStep, BuildEndStep, DispatchStep
  <1>6. CASE Ended \/ UNCHANGED vars
    BY <1>6, StutterStep DEF Ended
  <1> QED
    BY <1>1, <1>2, <1>3, <1>4, <1>5, <1>6, Zenon DEF Next

\* The inductive invariant of the line buffer, the lexer and build_command:
\* whatever is typed, and whichever allocation fails, what tokenize has pushed
\* are the tokens of the grammar before its position, and what build_command
\* has built is the grammar's reading of the tokens it has taken.
THEOREM InputInvariance == Spec => []InputInv
  <1>1. Init => InputInv
    BY FirstState
  <1>2. InputInv /\ [Next]_vars => InputInv'
    BY EachStep
  <1> QED
    BY <1>1, <1>2, PTL DEF Spec

\* input_length stays below SHELL_INPUT_SIZE, the token list below MAX_TOKEN,
\* and every variable in its type, for every keyboard and every limit.
THEOREM InputTypes == Spec => []TypeOK
  <1>1. InputInv => TypeOK
    BY DEF InputInv
  <1> QED
    BY <1>1, InputInvariance, PTL

\* Between two lines no block is in use, and free is never called twice for
\* one: at every moment each block is the value of exactly one pointer that
\* command_free visits, so that syntax_fail, memory_fail at any allocation, and
\* the end of a command lose nothing and free nothing twice, for every line and
\* every limit.
THEOREM NothingIsLost == Spec => []NothingLeaked
  <1>1. Init => MemoryInv
    BY DEF Init, MemoryInv
  <1>2. InputInv /\ MemoryInv /\ [Next]_vars => MemoryInv'
    BY MemoryStep
  <1>3. MemoryInv => NothingLeaked
    BY DEF MemoryInv, NothingLeaked
  <1> QED
    BY <1>1, <1>2, <1>3, InputInvariance, PTL DEF Spec

\* shell_read_input, tokenize and build_command implement CommandStream: each
\* line that fits is dispatched as the grammar reads it or refused with the
\* status the grammar asks for, and of one too long nothing is executed, for
\* every line, every limit and every interleaving with SIGINT.
THEOREM ShellInputImplementsStream == Spec => ImplementsStream
  <1>1. Init => Stream!Init
    BY FirstState
  <1>2. InputInv /\ [Next]_vars => [Stream!Next]_(Stream!vars)
    BY EachStep DEF StreamStep
  <1> QED
    BY <1>1, <1>2, InputInvariance, PTL DEF Spec, ImplementsStream, Stream!Spec
=============================================================================
