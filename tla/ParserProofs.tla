---------------------------- MODULE ParserProofs ----------------------------
(***************************************************************************)
(* The tree the parser builds token by token is what the whole line says,  *)
(* it gives up only on what is malformed, and it leaves every variable the *)
(* line assigns with its last value, for every alphabet of tokens and      *)
(* every length of the input.                                              *)
(***************************************************************************)
EXTENDS Parser, FiniteSetTheorems, WellFoundedInduction, TLAPS

-----------------------------------------------------------------------------
(* Finite sets of numbers *)

(* A set of numbers that has a member has a least one. *)
LEMMA Least ==
    ASSUME NEW S \in SUBSET Nat, S # {}
    PROVE  \E m \in S : \A n \in S : m <= n
<1> DEFINE R == {ss \in Nat \X Nat : ss[1] < ss[2]}
<1>1. IsWellFoundedOn(R, Nat)
  BY NatLessThanWellFounded, Zenon DEF OpToRel
<1> HIDE DEF R
<1>2. PICK m \in S : \A n \in S : ~(<<n, m>> \in R)
  BY <1>1, WFMin
<1>3. ASSUME NEW n \in S PROVE m <= n
  <2>1. n < m => <<n, m>> \in R
    BY DEF R
  <2> QED BY <1>2, <2>1
<1> QED BY <1>3

LEMMA Greatest ==
    ASSUME NEW N \in Nat, NEW S \in SUBSET (1 .. N), S # {}
    PROVE  \E m \in S : \A n \in S : n <= m
<1> DEFINE Above == {m \in Nat : \A n \in S : n <= m}
<1>1. N \in Above
  OBVIOUS
<1>2. PICK m \in Above : \A n \in Above : m <= n
  BY <1>1, Least
<1>3. PICK k \in S : TRUE
  OBVIOUS
<1>4. k \in 1 .. N /\ k <= m /\ m \in Nat /\ \A n \in S : n <= m
  BY <1>2, <1>3
<1>5. m \in S
  <2>1. SUFFICES ASSUME m \notin S PROVE FALSE
    OBVIOUS
  <2>2. m - 1 \in Nat
    BY <1>4
  <2>3. \A n \in S : n <= m - 1
    BY <1>4, <2>1
  <2>4. m - 1 \in Above
    BY <2>2, <2>3
  <2> QED BY <1>2, <1>4, <2>4
<1> QED BY <1>4, <1>5

(* Max is the one that is not below any other. *)
LEMMA MaxIs ==
    ASSUME NEW S \in SUBSET Nat, NEW m \in S, \A n \in S : n <= m
    PROVE  Max(S) = m
<1>1. m \in S /\ \A n \in S : m >= n
  OBVIOUS
<1>2. Max(S) \in S /\ \A n \in S : Max(S) >= n
  BY <1>1, Zenon DEF Max
<1>3. Max(S) \in Nat /\ m \in Nat /\ Max(S) >= m /\ Max(S) <= m
  BY <1>2
<1> QED BY <1>3

LEMMA InOrderEmpty == InOrder({}) = <<>>
<1>1. Cardinality({}) = 0
  BY FS_EmptySet
<1> QED BY <1>1 DEF InOrder

LEMMA InOrderLength ==
    ASSUME NEW N \in Nat, NEW S \in SUBSET (1 .. N)
    PROVE  /\ IsFiniteSet(S) /\ Cardinality(S) \in Nat
           /\ Len(InOrder(S)) = Cardinality(S)
           /\ InOrder(S) = <<>> <=> S = {}
<1>1. IsFiniteSet(1 .. N)
  BY FS_Interval
<1>2. IsFiniteSet(S)
  BY <1>1, FS_Subset
<1>3. Cardinality(S) \in Nat /\ (Cardinality(S) = 0 <=> S = {})
  BY <1>2, FS_CardinalityType, FS_EmptySet
<1>4. Len(InOrder(S)) = Cardinality(S)
  BY <1>3 DEF InOrder
<1>5. DOMAIN InOrder(S) = 1 .. Cardinality(S)
  BY DEF InOrder
<1>6. InOrder(S) = <<>> => Cardinality(S) = 0
  BY <1>4
<1>7. S = {} => InOrder(S) = <<>>
  BY InOrderEmpty
<1> QED BY <1>2, <1>3, <1>4, <1>6, <1>7

(* A number above all others comes last. *)
LEMMA InOrderAdd ==
    ASSUME NEW N \in Nat, NEW S \in SUBSET (1 .. N)
    PROVE  InOrder(S \cup {N + 1}) = Append(InOrder(S), N + 1)
<1> DEFINE T == S \cup {N + 1}
           c == Cardinality(S)
<1>0. (\A q \in S : q < N + 1) /\ ~(N + 1 < N + 1)
  OBVIOUS
<1>1. IsFiniteSet(S) /\ c \in Nat
  BY InOrderLength
<1>2. N + 1 \notin S
  OBVIOUS
<1>3. Cardinality(T) = c + 1
  BY <1>1, <1>2, FS_AddElement
<1>4. ASSUME NEW n \in 1 .. c PROVE Ranked(T, n) = Ranked(S, n)
  <2>1. ASSUME NEW p \in S PROVE {q \in T : q < p} = {q \in S : q < p}
    OBVIOUS
  <2>2. {q \in T : q < N + 1} = S
    BY <1>0
  <2>3. N + 1 \notin Ranked(T, n)
    <3>1. c # n - 1
      BY <1>1, <1>4
    <3> QED BY <2>2, <3>1 DEF Ranked
  <2> QED BY <2>1, <2>3 DEF Ranked
<1>5. Ranked(T, c + 1) = {N + 1}
  <2>1. {q \in T : q < N + 1} = S
    BY <1>0
  <2>2. N + 1 \in Ranked(T, c + 1)
    BY <1>1, <2>1 DEF Ranked
  <2>3. ASSUME NEW p \in S PROVE p \notin Ranked(T, c + 1)
    <3>1. {q \in T : q < p} \subseteq S \ {p}
      OBVIOUS
    <3>2. IsFiniteSet(S \ {p}) /\ Cardinality(S \ {p}) = c - 1
      BY <1>1, FS_RemoveElement
    <3>3. Cardinality({q \in T : q < p}) <= c - 1
      BY <3>1, <3>2, FS_Subset
    <3>4. Cardinality({q \in T : q < p}) # c
      BY <1>1, <3>3
    <3> QED BY <1>1, <3>4 DEF Ranked
  <2>4. Ranked(T, c + 1) \subseteq T
    BY DEF Ranked
  <2> QED BY <2>2, <2>3, <2>4
<1>6. The({N + 1}) = N + 1
  BY DEF The
<1>7. InOrder(T) = [n \in 1 .. c + 1 |-> The(Ranked(T, n))]
  BY <1>3 DEF InOrder
<1>8. InOrder(S) = [n \in 1 .. c |-> The(Ranked(S, n))]
  BY DEF InOrder
<1>9. Len(InOrder(S)) = c
  BY <1>1, <1>8
<1>10. Append(InOrder(S), N + 1)
         = [n \in 1 .. c + 1 |-> IF n = c + 1 THEN N + 1 ELSE InOrder(S)[n]]
  BY <1>1, <1>8, <1>9
<1>11. ASSUME NEW n \in 1 .. c + 1
       PROVE  The(Ranked(T, n)) = IF n = c + 1 THEN N + 1 ELSE InOrder(S)[n]
  <2>1. CASE n = c + 1
    BY <1>5, <1>6, <2>1
  <2>2. CASE n # c + 1
    <3>1. n \in 1 .. c
      BY <1>1, <1>11, <2>2
    <3> QED BY <1>4, <1>8, <2>2, <3>1
  <2> QED BY <2>1, <2>2
<1> QED BY <1>7, <1>10, <1>11

-----------------------------------------------------------------------------
(* A line that one more token is read of *)

Separated(s) ==
    {p \in 1 .. Len(s) - 1 :
        /\ TypeOf[s[p]] \in Separator
        /\ TypeOf[s[p]] = "semi" =>
              ~(p = Len(s) - 1 /\ TypeOf[s[Len(s)]] \in {"nl", "eof"})}

(* No semicolon ends the line. *)
GoesOn(s) ==
    Len(s) > 1 /\ TypeOf[s[Len(s) - 1]] = "semi" => TypeOf[s[Len(s)]] \notin {"nl", "eof"}

(* With t read, what was the last token separates two commands. *)
Separates(s, t) ==
    /\ TypeOf[s[Len(s)]] \in Separator
    /\ TypeOf[s[Len(s)]] = "semi" => TypeOf[t] \notin {"nl", "eof"}

CutsRight(s) ==
    /\ Cuts(s) \in Seq(1 .. Len(s) - 1)
    /\ \A n \in 1 .. Len(Cuts(s)) : TypeOf[s[Cuts(s)[n]]] \in Separator
    /\ \A m, n \in 1 .. Len(Cuts(s)) : m < n => Cuts(s)[m] < Cuts(s)[n]

Growing(s, t) == s \in Seq(Token) /\ s # <<>> /\ t \in Token /\ GoesOn(s)

LEMMA Grown ==
    ASSUME NEW s, NEW t, Growing(s, t)
    PROVE  /\ Len(s) \in Nat \ {0} /\ Append(s, t) \in Seq(Token)
           /\ Len(Append(s, t)) = Len(s) + 1 /\ Append(s, t)[Len(s) + 1] = t
           /\ \A p \in 1 .. Len(s) : Append(s, t)[p] = s[p] /\ s[p] \in Token
BY DEF Growing

LEMMA CutsAppend ==
    ASSUME NEW s, NEW t, Growing(s, t)
    PROVE  /\ Separates(s, t) => Cuts(Append(s, t)) = Append(Cuts(s), Len(s))
           /\ ~Separates(s, t) => Cuts(Append(s, t)) = Cuts(s)
<1> DEFINE r == Append(s, t)
           Ends(p) == TypeOf[s[p]] = "semi" =>
                        ~(p = Len(s) - 1 /\ TypeOf[s[Len(s)]] \in {"nl", "eof"})
<1>1. /\ Len(s) \in Nat \ {0} /\ Len(r) = Len(s) + 1 /\ r[Len(r)] = t
      /\ \A p \in 1 .. Len(s) : r[p] = s[p]
  BY Grown
<1>2. GoesOn(s)
  BY DEF Growing
<1>3. ASSUME NEW p \in 1 .. Len(s) - 1
      PROVE  p \in Separated(r) <=> p \in Separated(s)
  <2>1. r[p] = s[p] /\ p # Len(r) - 1 /\ p \in 1 .. Len(r) - 1
    BY <1>1, <1>3
  <2>2. p \in Separated(r) <=> TypeOf[s[p]] \in Separator
    BY <2>1 DEF Separated
  <2>3. Ends(p)
    <3>1. p = Len(s) - 1 => Len(s) > 1
      BY <1>1, <1>3
    <3> QED BY <1>2, <3>1 DEF GoesOn
  <2>4. p \in Separated(s) <=> TypeOf[s[p]] \in Separator
    BY <1>3, <2>3 DEF Separated
  <2> QED BY <2>2, <2>4
<1>4. Len(s) \in Separated(r) <=> Separates(s, t)
  <2>1. Len(s) \in 1 .. Len(r) - 1 /\ r[Len(s)] = s[Len(s)] /\ Len(s) = Len(r) - 1
    BY <1>1
  <2> QED BY <1>1, <2>1 DEF Separated, Separates
<1>5. Separated(s) \subseteq 1 .. Len(s) - 1 /\ Separated(r) \subseteq 1 .. Len(s)
  BY <1>1 DEF Separated
<1>6. Separated(r) = IF Separates(s, t) THEN Separated(s) \cup {Len(s)} ELSE Separated(s)
  <2>1. 1 .. Len(s) = (1 .. Len(s) - 1) \cup {Len(s)} /\ Len(s) \notin 1 .. Len(s) - 1
    BY <1>1
  <2> QED BY <1>3, <1>4, <1>5, <2>1
<1>7. InOrder(Separated(s) \cup {Len(s)}) = Append(InOrder(Separated(s)), Len(s))
  <2>1. Len(s) - 1 \in Nat /\ (Len(s) - 1) + 1 = Len(s)
    BY <1>1
  <2> QED BY <1>5, <2>1, InOrderAdd
<1>8. Cuts(r) = InOrder(Separated(r)) /\ Cuts(s) = InOrder(Separated(s))
  BY DEF Cuts, Separated
<1> QED BY <1>6, <1>7, <1>8

LEMMA CutsGrow ==
    ASSUME NEW s, NEW t, Growing(s, t), CutsRight(s)
    PROVE  CutsRight(Append(s, t))
<1> DEFINE r == Append(s, t)
<1>1. /\ Len(s) \in Nat \ {0} /\ Len(r) = Len(s) + 1
      /\ \A p \in 1 .. Len(s) : r[p] = s[p]
  BY Grown
<1>2. /\ Cuts(s) \in Seq(1 .. Len(s) - 1)
      /\ \A n \in 1 .. Len(Cuts(s)) : TypeOf[s[Cuts(s)[n]]] \in Separator
      /\ \A m, n \in 1 .. Len(Cuts(s)) : m < n => Cuts(s)[m] < Cuts(s)[n]
  BY DEF CutsRight
<1> HIDE DEF r
<1>3. Len(Cuts(s)) \in Nat /\ \A n \in 1 .. Len(Cuts(s)) : Cuts(s)[n] \in 1 .. Len(s) - 1
  BY <1>2
<1>4. CASE ~Separates(s, t)
  <2>1. Cuts(r) = Cuts(s)
    BY <1>4, CutsAppend DEF r
  <2>2. Cuts(r) \in Seq(1 .. Len(r) - 1)
    BY <1>1, <1>2, <1>3, <2>1
  <2>3. ASSUME NEW n \in 1 .. Len(Cuts(r)) PROVE TypeOf[r[Cuts(r)[n]]] \in Separator
    <3>1. Cuts(s)[n] \in 1 .. Len(s)
      BY <1>1, <1>3, <2>1, <2>3
    <3> QED BY <1>1, <1>2, <2>1, <2>3, <3>1
  <2> QED BY <1>2, <2>1, <2>2, <2>3 DEF CutsRight, r
<1>5. CASE Separates(s, t)
  <2>1. Cuts(r) = Append(Cuts(s), Len(s))
    BY <1>5, CutsAppend DEF r
  <2>2. Cuts(s) \in Seq(1 .. Len(r) - 1) /\ Len(s) \in 1 .. Len(r) - 1
    BY <1>1, <1>2, <1>3
  <2>3. /\ Cuts(r) \in Seq(1 .. Len(r) - 1) /\ Len(Cuts(r)) = Len(Cuts(s)) + 1
        /\ \A n \in 1 .. Len(Cuts(s)) : Cuts(r)[n] = Cuts(s)[n]
        /\ Cuts(r)[Len(Cuts(s)) + 1] = Len(s)
    BY <2>1, <2>2
  <2>4. ASSUME NEW n \in 1 .. Len(Cuts(r)) PROVE TypeOf[r[Cuts(r)[n]]] \in Separator
    <3>1. CASE n = Len(Cuts(s)) + 1
      <4>1. Cuts(r)[n] = Len(s) /\ Len(s) \in 1 .. Len(s)
        BY <1>1, <2>3, <3>1
      <4>2. r[Len(s)] = s[Len(s)]
        BY <1>1, <4>1
      <4> QED BY <1>5, <4>1, <4>2 DEF Separates
    <3>2. CASE n # Len(Cuts(s)) + 1
      <4>1. n \in 1 .. Len(Cuts(s))
        BY <1>3, <2>3, <2>4, <3>2
      <4>2. Cuts(s)[n] \in 1 .. Len(s) /\ Cuts(r)[n] = Cuts(s)[n]
        BY <1>1, <1>3, <2>3, <4>1
      <4> QED BY <1>1, <1>2, <4>1, <4>2
    <3> QED BY <3>1, <3>2
  <2>5. ASSUME NEW m \in 1 .. Len(Cuts(r)), NEW n \in 1 .. Len(Cuts(r)), m < n
        PROVE  Cuts(r)[m] < Cuts(r)[n]
    <3>1. m \in 1 .. Len(Cuts(s)) /\ Cuts(r)[m] = Cuts(s)[m] /\ Cuts(s)[m] \in 1 .. Len(s) - 1
      BY <1>3, <2>3, <2>5
    <3>2. CASE n = Len(Cuts(s)) + 1
      BY <1>1, <2>3, <3>1, <3>2
    <3>3. CASE n # Len(Cuts(s)) + 1
      <4>1. n \in 1 .. Len(Cuts(s)) + 1
        BY <2>3
      <4>2. n \in 1 .. Len(Cuts(s))
        BY <1>3, <3>3, <4>1
      <4>3. Cuts(r)[n] = Cuts(s)[n]
        BY <2>3, <4>2
      <4> QED BY <1>2, <2>5, <3>1, <4>2, <4>3
    <3> QED BY <3>2, <3>3
  <2> QED BY <2>3, <2>4, <2>5 DEF CutsRight, r
<1> QED BY <1>4, <1>5

LEMMA CutsOne ==
    ASSUME NEW t \in Token
    PROVE  Cuts(<<t>>) = <<>> /\ CutsRight(<<t>>) /\ GoesOn(<<t>>)
<1>1. Len(<<t>>) = 1
  OBVIOUS
<1>2. Separated(<<t>>) = {}
  BY <1>1 DEF Separated
<1>3. Cuts(<<t>>) = <<>>
  BY <1>2, InOrderEmpty DEF Cuts, Separated
<1> QED BY <1>1, <1>3 DEF CutsRight, GoesOn

(* A command gains what is read, unless it ended before or ends there. *)
LEMMA SpanGrows ==
    ASSUME NEW s, NEW t, Growing(s, t), CutsRight(s), NEW n \in 1 .. Spans(s)
    PROVE  /\ Span(s, n) \subseteq 1 .. Len(s) - 1
           /\ n = Spans(s) /\ ~Separates(s, t) =>
                Span(Append(s, t), n) = Span(s, n) \cup {Len(s)}
           /\ n # Spans(s) \/ Separates(s, t) =>
                Span(Append(s, t), n) = Span(s, n)
           /\ n # 1 => Cuts(Append(s, t))[n - 1] = Cuts(s)[n - 1]
                       /\ Cuts(s)[n - 1] \in 1 .. Len(s) - 1
<1> DEFINE r == Append(s, t)
           k == Len(Cuts(s))
<1>1. Len(s) \in Nat \ {0} /\ Len(r) = Len(s) + 1
  BY Grown
<1>2. k \in Nat /\ (\A m \in 1 .. k : Cuts(s)[m] \in 1 .. Len(s) - 1) /\ Spans(s) = k + 1
  BY DEF CutsRight, Spans
<1>3. \A m \in 1 .. k : Cuts(r)[m] = Cuts(s)[m]
  <2>1. Cuts(s) \in Seq(1 .. Len(s) - 1)
    BY DEF CutsRight
  <2>2. \A m \in 1 .. k : Append(Cuts(s), Len(s))[m] = Cuts(s)[m]
    BY <2>1
  <2> QED BY <2>2, CutsAppend
<1>4. /\ Separates(s, t) => Len(Cuts(r)) = k + 1 /\ Cuts(r)[k + 1] = Len(s)
      /\ ~Separates(s, t) => Len(Cuts(r)) = k
  <2>1. Cuts(s) \in Seq(1 .. Len(s) - 1)
    BY DEF CutsRight
  <2>2. Len(Append(Cuts(s), Len(s))) = k + 1 /\ Append(Cuts(s), Len(s))[k + 1] = Len(s)
    BY <2>1
  <2> QED BY <2>2, CutsAppend
<1>5. n \in 1 .. k + 1
  BY <1>2
<1> DEFINE from == IF n = 1 THEN 1 ELSE Cuts(s)[n - 1] + 1
<1>6. from \in 1 .. Len(s)
  <2>1. n # 1 => n - 1 \in 1 .. k
    BY <1>2, <1>5
  <2> QED BY <1>1, <1>2, <2>1
<1>7. n # 1 => Cuts(r)[n - 1] = Cuts(s)[n - 1] /\ Cuts(s)[n - 1] \in 1 .. Len(s) - 1
  <2>1. n # 1 => n - 1 \in 1 .. k
    BY <1>2, <1>5
  <2> QED BY <1>2, <1>3, <2>1
<1>8. CASE n # k + 1
  <2>1. n \in 1 .. k /\ n <= Len(Cuts(r)) /\ ~(n > Len(Cuts(r))) /\ ~(n > k)
    BY <1>2, <1>4, <1>5, <1>8
  <2>2. Span(s, n) = from .. Cuts(s)[n] - 1 /\ Span(r, n) = from .. Cuts(s)[n] - 1
    BY <1>3, <1>7, <2>1 DEF Span
  <2>3. Cuts(s)[n] \in 1 .. Len(s) - 1
    BY <1>2, <2>1
  <2> QED BY <1>2, <1>6, <1>7, <1>8, <2>2, <2>3
<1>9. CASE n = k + 1
  <2>1. Span(s, n) = from .. Len(s) - 1
    BY <1>2, <1>9 DEF Span
  <2>2. CASE Separates(s, t)
    <3>1. Span(r, n) = from .. Len(s) - 1
      BY <1>2, <1>4, <1>7, <1>9, <2>2 DEF Span
    <3> QED BY <1>1, <1>6, <1>7, <2>1, <2>2, <3>1
  <2>3. CASE ~Separates(s, t)
    <3>1. n > Len(Cuts(r))
      BY <1>2, <1>4, <1>9, <2>3
    <3>2. Span(r, n) = from .. Len(s)
      BY <1>1, <1>7, <3>1 DEF Span
    <3>3. from .. Len(s) = (from .. Len(s) - 1) \cup {Len(s)}
      BY <1>1, <1>6
    <3> QED BY <1>1, <1>2, <1>6, <1>7, <1>9, <2>1, <2>3, <3>2, <3>3
  <2> QED BY <2>2, <2>3
<1> QED BY <1>8, <1>9

-----------------------------------------------------------------------------
(* What a command reads of a token *)

Operands(s, n) == {p \in Span(s, n) : Operand(s, p)}
Arguments(s, n) == {p \in Span(s, n) : Argument(s, n, p)}
Assignments(s, n) ==
    {p \in Span(s, n) : IsWord(s[p]) /\ ~Operand(s, p) /\ ~Argument(s, n, p)}
Join(s, n) == IF n = 1 THEN "first" ELSE TypeOf[s[Cuts(s)[n - 1]]]

LEMMA ReadingIs ==
    ASSUME NEW s, NEW n
    PROVE  Reading(s, n) = [join |-> Join(s, n),
                            redirs |-> InOrder(Operands(s, n)),
                            words |-> InOrder(Arguments(s, n)),
                            assigns |-> InOrder(Assignments(s, n))]
BY DEF Reading, Join, Operands, Arguments, Assignments

(* Tokens that were read mean what they meant. *)
LEMMA Before ==
    ASSUME NEW s, NEW t, Growing(s, t), CutsRight(s), NEW n \in 1 .. Spans(s)
    PROVE  /\ \A p \in 1 .. Len(s) : Operand(Append(s, t), p) <=> Operand(s, p)
           /\ \A p \in Span(s, n) : Argument(Append(s, t), n, p) <=> Argument(s, n, p)
           /\ Join(Append(s, t), n) = Join(s, n)
<1> DEFINE r == Append(s, t)
<1>1. /\ Len(s) \in Nat \ {0} /\ Len(r) = Len(s) + 1
      /\ \A p \in 1 .. Len(s) : r[p] = s[p]
  BY Grown
<1>2. /\ Span(s, n) \subseteq 1 .. Len(s) - 1 /\ Span(s, n) \subseteq Span(r, n)
      /\ Span(r, n) \subseteq Span(s, n) \cup {Len(s)}
      /\ n # 1 => Cuts(r)[n - 1] = Cuts(s)[n - 1] /\ Cuts(s)[n - 1] \in 1 .. Len(s) - 1
  BY SpanGrows
<1> HIDE DEF r
<1>3. ASSUME NEW p \in 1 .. Len(s) PROVE Operand(r, p) <=> Operand(s, p)
  <2>1. p > 1 => p - 1 \in 1 .. Len(s)
    BY <1>1
  <2> QED BY <1>1, <2>1 DEF Operand, IsWord
<1>4. ASSUME NEW p \in Span(s, n) PROVE Argument(r, n, p) <=> Argument(s, n, p)
  <2>1. p \in 1 .. Len(s) - 1
    BY <1>2
  <2>2. p \in 1 .. Len(s) /\ ~(Len(s) <= p)
    BY <1>1, <2>1
  <2>3. ASSUME NEW q \in Span(r, n), q <= p
        PROVE  q \in Span(s, n) /\ q \in 1 .. Len(s)
    <3>1. q # Len(s)
      BY <2>2, <2>3
    <3>2. q \in Span(s, n)
      BY <1>2, <3>1
    <3> QED BY <1>1, <1>2, <3>2
  <2>4. ASSUME NEW q \in 1 .. Len(s)
        PROVE  TypeOf[r[q]] = TypeOf[s[q]] /\ (Operand(r, q) <=> Operand(s, q))
    BY <1>1, <1>3
  <2>5. IsWord(r[p]) <=> IsWord(s[p])
    BY <2>2, <2>4 DEF IsWord
  <2>6. (\E q \in Span(r, n) : q <= p /\ TypeOf[r[q]] = "word" /\ ~Operand(r, q))
          <=> (\E q \in Span(s, n) : q <= p /\ TypeOf[s[q]] = "word" /\ ~Operand(s, q))
    BY <1>2, <2>3, <2>4
  <2> QED BY <2>2, <2>4, <2>5, <2>6 DEF Argument
<1>5. Join(r, n) = Join(s, n)
  <2>1. n # 1 => r[Cuts(s)[n - 1]] = s[Cuts(s)[n - 1]]
    <3>1. n # 1 => Cuts(s)[n - 1] \in 1 .. Len(s)
      BY <1>1, <1>2
    <3> QED BY <1>1, <3>1
  <2> QED BY <1>2, <2>1 DEF Join
<1> QED BY <1>3, <1>4, <1>5 DEF r

(* A command that has ended is not read again. *)
LEMMA ReadingStays ==
    ASSUME NEW s, NEW t, Growing(s, t), CutsRight(s), NEW n \in 1 .. Spans(s),
           n # Spans(s) \/ Separates(s, t) \/ ~IsWord(s[Len(s)])
    PROVE  Reading(Append(s, t), n) = Reading(s, n)
<1> DEFINE r == Append(s, t)
<1>1. /\ Len(s) \in Nat \ {0} /\ Len(r) = Len(s) + 1
      /\ \A p \in 1 .. Len(s) : r[p] = s[p]
  BY Grown
<1>2. /\ \A p \in 1 .. Len(s) : Operand(r, p) <=> Operand(s, p)
      /\ \A p \in Span(s, n) : Argument(r, n, p) <=> Argument(s, n, p)
      /\ Join(r, n) = Join(s, n)
  BY Before
<1>3. /\ Span(s, n) \subseteq 1 .. Len(s) - 1
      /\ \/ Span(r, n) = Span(s, n)
         \/ Span(r, n) = Span(s, n) \cup {Len(s)} /\ ~IsWord(s[Len(s)])
  BY SpanGrows
<1> HIDE DEF r
<1>4. \A p \in Span(s, n) : p \in 1 .. Len(s) /\ r[p] = s[p]
  BY <1>1, <1>3
<1>5. ~IsWord(s[Len(s)]) =>
        ~IsWord(r[Len(s)]) /\ ~Operand(r, Len(s)) /\ ~Argument(r, n, Len(s))
  <2>1. Len(s) \in 1 .. Len(s)
    BY <1>1
  <2>2. r[Len(s)] = s[Len(s)]
    BY <1>1, <2>1
  <2> QED BY <2>2 DEF Operand, Argument
<1>6. Operands(r, n) = Operands(s, n)
  BY <1>2, <1>3, <1>4, <1>5 DEF Operands
<1>7. Arguments(r, n) = Arguments(s, n)
  BY <1>2, <1>3, <1>4, <1>5 DEF Arguments
<1>8. Assignments(r, n) = Assignments(s, n)
  BY <1>2, <1>3, <1>4, <1>5 DEF Assignments
<1> QED BY <1>2, <1>6, <1>7, <1>8, ReadingIs DEF r

(* A word goes to the redirections, to the words or to the assignments. *)
LEMMA ReadingGrows ==
    ASSUME NEW s, NEW t, Growing(s, t), CutsRight(s),
           NEW c, c = Reading(s, Spans(s)), IsWord(s[Len(s)])
    PROVE  /\ Operand(s, Len(s)) =>
                Reading(Append(s, t), Spans(s)) = [c EXCEPT !.redirs = Append(@, Len(s))]
           /\ /\ ~Operand(s, Len(s))
              /\ TypeOf[s[Len(s)]] = "word" \/ c.words # <<>>
              => Reading(Append(s, t), Spans(s)) = [c EXCEPT !.words = Append(@, Len(s))]
           /\ /\ ~Operand(s, Len(s))
              /\ TypeOf[s[Len(s)]] = "assign" /\ c.words = <<>>
              => Reading(Append(s, t), Spans(s)) = [c EXCEPT !.assigns = Append(@, Len(s))]
<1> DEFINE r == Append(s, t)
           n == Spans(s)
           e == Len(s)
<1>1. /\ e \in Nat \ {0} /\ Len(r) = e + 1
      /\ \A p \in 1 .. e : r[p] = s[p]
  BY Grown
<1>0. n \in 1 .. Spans(s)
  <2>1. Len(Cuts(s)) \in Nat
    BY DEF CutsRight
  <2> QED BY <2>1 DEF Spans
<1>2. /\ \A p \in 1 .. e : Operand(r, p) <=> Operand(s, p)
      /\ \A p \in Span(s, n) : Argument(r, n, p) <=> Argument(s, n, p)
      /\ Join(r, n) = Join(s, n)
  BY <1>0, Before
<1>3. /\ Span(s, n) \subseteq 1 .. e - 1
      /\ Span(r, n) = Span(s, n) \cup {e}
  <2>1. ~Separates(s, t)
    BY DEF Separates, IsWord, Separator
  <2> QED BY <1>0, <2>1, SpanGrows
<1> HIDE DEF r, n
<1>4. \A p \in Span(s, n) : p \in 1 .. e /\ r[p] = s[p] /\ p <= e
  BY <1>1, <1>3
<1>5. e \in 1 .. e /\ r[e] = s[e] /\ e <= e /\ e \notin Span(s, n)
      /\ (e - 1) + 1 = e /\ e - 1 \in Nat
  BY <1>1, <1>3
<1>6. c.words # <<>> <=> Arguments(s, n) # {}
  <2>1. c.words = InOrder(Arguments(s, n))
    BY ReadingIs DEF n
  <2>2. Arguments(s, n) \subseteq 1 .. e - 1
    BY <1>3 DEF Arguments
  <2> QED BY <1>5, <2>1, <2>2, InOrderLength
<1>7. Argument(r, n, e)
        <=> ~Operand(s, e) /\ (TypeOf[s[e]] = "word" \/ Arguments(s, n) # {})
  <2>1. IsWord(r[e]) /\ (Operand(r, e) <=> Operand(s, e))
    BY <1>2, <1>5
  <2>2. ASSUME NEW q \in Span(s, n), q <= e, TypeOf[r[q]] = "word", ~Operand(r, q)
        PROVE  q \in Arguments(s, n)
    <3>1. TypeOf[s[q]] = "word" /\ ~Operand(s, q) /\ q <= q
      BY <1>2, <1>4, <2>2
    <3> QED BY <3>1 DEF Arguments, Argument, IsWord
  <2>3. ASSUME NEW p \in Arguments(s, n)
        PROVE  \E q \in Span(r, n) : q <= e /\ TypeOf[r[q]] = "word" /\ ~Operand(r, q)
    <3>1. PICK q \in Span(s, n) : q <= p /\ TypeOf[s[q]] = "word" /\ ~Operand(s, q)
      BY <2>3 DEF Arguments, Argument
    <3>2. TypeOf[r[q]] = "word" /\ ~Operand(r, q) /\ q <= e /\ q \in Span(r, n)
      BY <1>2, <1>3, <1>4, <3>1
    <3> QED BY <3>2
  <2>4. (\E q \in Span(r, n) : q <= e /\ TypeOf[r[q]] = "word" /\ ~Operand(r, q))
          <=> (TypeOf[s[e]] = "word" /\ ~Operand(s, e)) \/ Arguments(s, n) # {}
    BY <1>2, <1>3, <1>5, <2>2, <2>3
  <2> QED BY <2>1, <2>4 DEF Argument
<1>8. Operands(r, n) = IF Operand(s, e) THEN Operands(s, n) \cup {e} ELSE Operands(s, n)
  BY <1>2, <1>3, <1>4, <1>5 DEF Operands
<1>9. Arguments(r, n) = IF Argument(r, n, e) THEN Arguments(s, n) \cup {e}
                        ELSE Arguments(s, n)
  BY <1>2, <1>3, <1>4, <1>5 DEF Arguments
<1>10. Assignments(r, n) = IF ~Operand(s, e) /\ ~Argument(r, n, e)
                           THEN Assignments(s, n) \cup {e} ELSE Assignments(s, n)
  BY <1>2, <1>3, <1>4, <1>5 DEF Assignments
<1>11. \A S \in SUBSET (1 .. e - 1) : InOrder(S \cup {e}) = Append(InOrder(S), e)
  BY <1>5, InOrderAdd
<1>12. /\ Operands(s, n) \subseteq 1 .. e - 1 /\ Arguments(s, n) \subseteq 1 .. e - 1
       /\ Assignments(s, n) \subseteq 1 .. e - 1
  BY <1>3 DEF Operands, Arguments, Assignments
<1>13. /\ InOrder(Operands(s, n) \cup {e}) = Append(InOrder(Operands(s, n)), e)
       /\ InOrder(Arguments(s, n) \cup {e}) = Append(InOrder(Arguments(s, n)), e)
       /\ InOrder(Assignments(s, n) \cup {e}) = Append(InOrder(Assignments(s, n)), e)
  BY <1>11, <1>12
<1>14. c = [join |-> Join(s, n), redirs |-> InOrder(Operands(s, n)),
            words |-> InOrder(Arguments(s, n)), assigns |-> InOrder(Assignments(s, n))]
  BY ReadingIs DEF n
<1>15. Reading(r, n) =
         [join |-> Join(s, n), redirs |-> InOrder(Operands(r, n)),
          words |-> InOrder(Arguments(r, n)), assigns |-> InOrder(Assignments(r, n))]
  BY <1>2, ReadingIs
<1>16. CASE Operand(s, e)
  <2>1. /\ Operands(r, n) = Operands(s, n) \cup {e}
        /\ Arguments(r, n) = Arguments(s, n)
        /\ Assignments(r, n) = Assignments(s, n)
    BY <1>7, <1>8, <1>9, <1>10, <1>16
  <2> DEFINE longer == Append(InOrder(Operands(s, n)), e)
  <2>2. /\ InOrder(Operands(r, n)) = longer
        /\ InOrder(Arguments(r, n)) = InOrder(Arguments(s, n))
        /\ InOrder(Assignments(r, n)) = InOrder(Assignments(s, n))
    BY <1>13, <2>1, Zenon
  <2>3. longer = Append(c.redirs, e)
    BY <1>14
  <2> HIDE DEF longer
  <2>4. Reading(r, n) = [c EXCEPT !.redirs = longer]
    BY <1>14, <1>15, <2>2
  <2> QED BY <1>16, <2>3, <2>4, Zenon DEF r, n
<1>17. CASE ~Operand(s, e) /\ (TypeOf[s[e]] = "word" \/ c.words # <<>>)
  <2>1. /\ Operands(r, n) = Operands(s, n)
        /\ Arguments(r, n) = Arguments(s, n) \cup {e}
        /\ Assignments(r, n) = Assignments(s, n)
    BY <1>6, <1>7, <1>8, <1>9, <1>10, <1>17
  <2> DEFINE longer == Append(InOrder(Arguments(s, n)), e)
  <2>2. /\ InOrder(Operands(r, n)) = InOrder(Operands(s, n))
        /\ InOrder(Arguments(r, n)) = longer
        /\ InOrder(Assignments(r, n)) = InOrder(Assignments(s, n))
    BY <1>13, <2>1, Zenon
  <2>3. longer = Append(c.words, e)
    BY <1>14
  <2> HIDE DEF longer
  <2>4. Reading(r, n) = [c EXCEPT !.words = longer]
    BY <1>14, <1>15, <2>2
  <2> QED BY <1>17, <2>3, <2>4, Zenon DEF r, n
<1>18. CASE ~Operand(s, e) /\ TypeOf[s[e]] = "assign" /\ c.words = <<>>
  <2>1. /\ Operands(r, n) = Operands(s, n)
        /\ Arguments(r, n) = Arguments(s, n)
        /\ Assignments(r, n) = Assignments(s, n) \cup {e}
    BY <1>6, <1>7, <1>8, <1>9, <1>10, <1>18
  <2> DEFINE longer == Append(InOrder(Assignments(s, n)), e)
  <2>2. /\ InOrder(Operands(r, n)) = InOrder(Operands(s, n))
        /\ InOrder(Arguments(r, n)) = InOrder(Arguments(s, n))
        /\ InOrder(Assignments(r, n)) = longer
    BY <1>13, <2>1, Zenon
  <2>3. longer = Append(c.assigns, e)
    BY <1>14
  <2> HIDE DEF longer
  <2>4. Reading(r, n) = [c EXCEPT !.assigns = longer]
    BY <1>14, <1>15, <2>2
  <2> QED BY <1>18, <2>3, <2>4, Zenon DEF r, n
<1> QED BY <1>16, <1>17, <1>18 DEF IsWord

(* What follows a separator is a new command. *)
LEMMA ReadingBegins ==
    ASSUME NEW s, NEW t, Growing(s, t), CutsRight(s), Separates(s, t)
    PROVE  /\ Spans(Append(s, t)) = Spans(s) + 1
           /\ Reading(Append(s, t), Spans(s) + 1) = NewCommand(TypeOf[s[Len(s)]])
           /\ Cuts(Append(s, t))[Spans(s)] = Len(s)
           /\ \A n \in 1 .. Len(Cuts(s)) :
                 Cuts(Append(s, t))[n] = Cuts(s)[n] /\ Cuts(s)[n] < Len(s)
<1> DEFINE r == Append(s, t)
           n == Spans(s) + 1
<1>1. /\ Len(s) \in Nat \ {0} /\ Len(r) = Len(s) + 1
      /\ \A p \in 1 .. Len(s) : r[p] = s[p]
  BY Grown
<1>2. Cuts(r) = Append(Cuts(s), Len(s))
  BY CutsAppend
<1>3. Cuts(s) \in Seq(1 .. Len(s) - 1)
  BY DEF CutsRight
<1>4. /\ Len(Cuts(s)) \in Nat /\ Len(Cuts(r)) = Len(Cuts(s)) + 1
      /\ Cuts(r)[Len(Cuts(s)) + 1] = Len(s)
      /\ \A m \in 1 .. Len(Cuts(s)) : Cuts(r)[m] = Cuts(s)[m] /\ Cuts(s)[m] < Len(s)
  BY <1>1, <1>2, <1>3
<1>5. Spans(r) = n /\ n - 1 = Len(Cuts(s)) + 1 /\ n # 1 /\ n > Len(Cuts(r))
      /\ Spans(s) = Len(Cuts(s)) + 1
  BY <1>4 DEF Spans
<1> HIDE DEF r, n
<1>6. Span(r, n) = {}
  <2>1. Span(r, n) = Len(s) + 1 .. Len(s)
    BY <1>1, <1>4, <1>5 DEF Span
  <2> QED BY <1>1, <2>1
<1>7. Join(r, n) = TypeOf[s[Len(s)]]
  <2>1. Len(s) \in 1 .. Len(s)
    BY <1>1
  <2>2. r[Len(s)] = s[Len(s)]
    BY <1>1, <2>1
  <2>3. Cuts(r)[n - 1] = Len(s)
    BY <1>4, <1>5
  <2> QED BY <1>5, <2>2, <2>3 DEF Join
<1>8. Operands(r, n) = {} /\ Arguments(r, n) = {} /\ Assignments(r, n) = {}
  BY <1>6 DEF Operands, Arguments, Assignments
<1>9. Reading(r, n) = NewCommand(TypeOf[s[Len(s)]])
  BY <1>7, <1>8, ReadingIs, InOrderEmpty DEF NewCommand
<1> QED BY <1>4, <1>5, <1>9 DEF r, n

LEMMA ReadingOne ==
    ASSUME NEW t \in Token
    PROVE  Reading(<<t>>, 1) = NewCommand("first")
<1>1. Cuts(<<t>>) = <<>> /\ Len(<<t>>) = 1
  BY CutsOne
<1>2. Len(Cuts(<<t>>)) = 0
  BY <1>1
<1>3. Span(<<t>>, 1) = 1 .. 0
  BY <1>1, <1>2 DEF Span
<1>4. Operands(<<t>>, 1) = {} /\ Arguments(<<t>>, 1) = {} /\ Assignments(<<t>>, 1) = {}
  BY <1>3 DEF Operands, Arguments, Assignments
<1> QED BY <1>4, ReadingIs, InOrderEmpty DEF NewCommand, Join

-----------------------------------------------------------------------------
(* Types *)

(* Beyond the last token there is the end of the input, which nothing      *)
(* pops, and a redirection whose number was the last token.                *)
PoppedInTime ==
    \/ popped <= MaxTok
    \/ popped <= MaxTok + 2 /\ TypeOf[curr] = "eof"
    \/ popped = MaxTok + 1 /\ TypeOf[curr] = "redir"

Typed == TypeOK /\ PoppedInTime

LEMMA TypedInit == Init => Typed
<1> SUFFICES ASSUME Init PROVE Typed
  OBVIOUS
<1>1. PICK t \in Token : line = <<t>>
  BY DEF Init
<1>2. line \in Seq(Token) /\ line # <<>>
  BY <1>1
<1>3. /\ popped = 1 /\ pc = "return" /\ ast = <<>> /\ items = 0
      /\ var = [v \in Var |-> Unset] /\ parse_error = FALSE
  BY DEF Init
<1>4. cmd \in Commands
  <2>1. cmd = [join |-> "first", redirs |-> <<>>, assigns |-> <<>>, words |-> <<>>]
    BY DEF Init, NewCommand
  <2>2. <<>> \in Seq(Position)
    OBVIOUS
  <2> QED BY <2>1, <2>2 DEF Commands
<1>5. ast \in Seq(Commands) /\ Len(ast) = 0
  BY <1>3
<1>6. popped <= MaxTok /\ popped \in 1 .. MaxTok + 2
  BY <1>3, MaxTokAssumption
<1>7. var \in [Var -> Token \cup {Unset}] /\ items \in 0 .. Len(ast)
  BY <1>3, <1>5
<1>8. PoppedInTime
  BY <1>6 DEF PoppedInTime
<1>9. pc = "return" /\ parse_error = FALSE
  BY <1>3
<1> QED BY <1>2, <1>4, <1>5, <1>6, <1>7, <1>8, <1>9 DEF Typed, TypeOK

(* What has been parsed stays what it is when the line grows. *)
LEMMA CommandsLast ==
    ASSUME Typed, line' \in Seq(Token), Len(line) <= Len(line')
    PROVE  Commands \subseteq Commands' /\ ast \in Seq(Commands') /\ cmd \in Commands'
<1>1. Len(line) \in Nat /\ Len(line') \in Nat
  BY DEF Typed, TypeOK
<1>2. Position \subseteq Position'
  BY <1>1 DEF Position
<1>3. Seq(Position) \subseteq Seq(Position')
  BY <1>2
<1>4. Commands \subseteq Commands'
  BY <1>3 DEF Commands
<1>5. ast \in Seq(Commands) /\ cmd \in Commands
  BY DEF Typed, TypeOK
<1> QED BY <1>4, <1>5

LEMMA ConsumeTyped ==
    ASSUME Typed, Consume, TypeOf[curr] # "eof"
    PROVE  /\ \E t \in Token : line' = Append(line, t)
           /\ line' \in Seq(Token) /\ line' # <<>> /\ Len(line') = Len(line) + 1
           /\ popped' \in 1 .. MaxTok + 2 /\ PoppedInTime'
           /\ Commands \subseteq Commands' /\ ast \in Seq(Commands') /\ cmd \in Commands'
           /\ Len(line) \in Position'
<1>1. line \in Seq(Token) /\ line # <<>> /\ popped \in 1 .. MaxTok + 2 /\ PoppedInTime
  BY DEF Typed, TypeOK
<1>2. PICK t \in Coming : line' = Append(line, t)
  BY DEF Consume
<1>3. popped' = popped + 1
  BY DEF Consume
<1>4. t \in Token /\ (TypeOf[t] = "eof" <=> t = Eof)
  BY <1>2, EofAssumption, EofIsToken DEF Coming
<1>5. /\ line' \in Seq(Token) /\ line' # <<>> /\ Len(line) \in Nat /\ Len(line) > 0
      /\ Len(line') = Len(line) + 1 /\ line'[Len(line')] = t
  BY <1>1, <1>2, <1>4
<1>6. curr' = t
  BY <1>5 DEF curr, Last
<1>7. \/ popped' <= MaxTok
      \/ popped <= MaxTok /\ TypeOf[t] = "redir"
      \/ popped <= MaxTok + 1 /\ TypeOf[t] = "eof"
  <2>1. CASE TypeOf[curr] = "nb"
    <3>1. TypeOf[t] = "redir"
      BY <1>2, <2>1 DEF Coming
    <3>2. popped <= MaxTok
      BY <1>1, <2>1 DEF PoppedInTime
    <3> QED BY <3>1, <3>2
  <2>2. CASE TypeOf[curr] # "nb" /\ popped < MaxTok
    BY <1>1, <1>3, <2>2, MaxTokAssumption
  <2>3. CASE TypeOf[curr] # "nb" /\ ~(popped < MaxTok)
    <3>1. TypeOf[t] = "eof"
      BY <1>2, <1>4, <2>3 DEF Coming
    <3>2. popped <= MaxTok + 1
      BY <1>1, MaxTokAssumption DEF PoppedInTime
    <3> QED BY <3>1, <3>2
  <2> QED BY <2>1, <2>2, <2>3
<1>8. popped' \in 1 .. MaxTok + 2 /\ PoppedInTime'
  BY <1>1, <1>3, <1>6, <1>7, MaxTokAssumption DEF PoppedInTime
<1>9. Len(line) \in Position'
  BY <1>5 DEF Position
<1>10. Len(line) <= Len(line')
  BY <1>5
<1> QED BY <1>2, <1>4, <1>5, <1>8, <1>9, <1>10, CommandsLast

LEMMA StayTyped ==
    ASSUME Typed, Stay
    PROVE  /\ line' \in Seq(Token) /\ line' # <<>> /\ popped' \in 1 .. MaxTok + 2
           /\ PoppedInTime' /\ Commands' = Commands
<1>1. line' = line /\ popped' = popped
  BY DEF Stay
<1> QED BY <1>1 DEF Typed, TypeOK, PoppedInTime, curr, Commands, Position

LEMMA NewCommandType ==
    ASSUME NEW j \in {"first"} \cup Separator
    PROVE  NewCommand(j) \in Commands'
<1>1. <<>> \in Seq(Position')
  OBVIOUS
<1> QED BY <1>1 DEF NewCommand, Commands

PcType == {"return", "null", "start", "prefix", "words", "number", "file",
           "joint", "piped", "operand", "semi", "double"}

LEMMA TypedNext == Typed /\ [Next]_parser => Typed'
<1> SUFFICES ASSUME Typed, [Next]_parser PROVE Typed'
  OBVIOUS
<1>0. /\ line \in Seq(Token) /\ line # <<>> /\ popped \in 1 .. MaxTok + 2
      /\ pc \in PcType /\ cmd \in Commands /\ ast \in Seq(Commands)
      /\ items \in 0 .. Len(ast) /\ Len(ast) \in Nat
      /\ var \in [Var -> Token \cup {Unset}] /\ parse_error \in BOOLEAN
      /\ PoppedInTime
  BY DEF Typed, TypeOK, PcType
<1>a. curr \in Token /\ TypeOf[curr] \in Type
  BY <1>0, TypeOfAssumption DEF curr, Last
<1>b. \A s \in Seq(Position'), p \in Position' : Append(s, p) \in Seq(Position')
  OBVIOUS
<1>1. CASE Call
  <2>1. line' = <<curr>> /\ pc' = "start" /\ cmd' = NewCommand("first") /\ ast' = <<>>
        /\ items' = 0 /\ UNCHANGED <<popped, var, parse_error>>
    BY <1>1 DEF Call
  <2>2. line' \in Seq(Token) /\ line' # <<>> /\ curr' = curr
    BY <1>a, <2>1 DEF curr, Last
  <2>3. cmd' \in Commands'
    BY <2>1, NewCommandType
  <2>4. ast' \in Seq(Commands') /\ items' \in 0 .. Len(ast')
    BY <2>1
  <2>5. PoppedInTime'
    BY <1>0, <2>1, <2>2 DEF PoppedInTime
  <2> QED BY <1>0, <2>1, <2>2, <2>3, <2>4, <2>5 DEF Typed, TypeOK
<1>2. CASE SkipNewline \/ RedirNb \/ RedirOp
  <2>1. /\ Consume /\ TypeOf[curr] # "eof"
        /\ pc' \in PcType /\ UNCHANGED <<cmd, ast, items, var, parse_error>>
    BY <1>0, <1>2 DEF SkipNewline, RedirNb, RedirOp, tree, PcType
  <2> QED BY <1>0, <2>1, ConsumeTyped DEF Typed, TypeOK, PcType
<1>3. CASE Assignment
  <2>1. /\ Consume /\ TypeOf[curr] # "eof" /\ cmd' = [cmd EXCEPT !.assigns = Append(@, Len(line))]
        /\ pc' \in PcType /\ UNCHANGED <<ast, items, var, parse_error>>
    BY <1>0, <1>3 DEF Assignment, PcType
  <2>2. cmd \in Commands' /\ Len(line) \in Position'
    BY <2>1, ConsumeTyped
  <2>3. Append(cmd.assigns, Len(line)) \in Seq(Position')
    BY <1>b, <2>2 DEF Commands
  <2>4. cmd' \in Commands'
    BY <2>1, <2>2, <2>3 DEF Commands
  <2> QED BY <1>0, <2>1, <2>4, ConsumeTyped DEF Typed, TypeOK, PcType
<1>4. CASE Word
  <2>1. /\ Consume /\ TypeOf[curr] # "eof" /\ cmd' = [cmd EXCEPT !.words = Append(@, Len(line))]
        /\ pc' \in PcType /\ UNCHANGED <<ast, items, var, parse_error>>
    BY <1>0, <1>4 DEF Word, PcType, IsWord
  <2>2. cmd \in Commands' /\ Len(line) \in Position'
    BY <2>1, ConsumeTyped
  <2>3. Append(cmd.words, Len(line)) \in Seq(Position')
    BY <1>b, <2>2 DEF Commands
  <2>4. cmd' \in Commands'
    BY <2>1, <2>2, <2>3 DEF Commands
  <2> QED BY <1>0, <2>1, <2>4, ConsumeTyped DEF Typed, TypeOK, PcType
<1>5. CASE RedirFile
  <2>1. /\ Consume /\ TypeOf[curr] # "eof" /\ cmd' = [cmd EXCEPT !.redirs = Append(@, Len(line))]
        /\ pc' \in PcType /\ UNCHANGED <<ast, items, var, parse_error>>
    BY <1>0, <1>5 DEF RedirFile, PcType, IsWord
  <2>2. cmd \in Commands' /\ Len(line) \in Position'
    BY <2>1, ConsumeTyped
  <2>3. Append(cmd.redirs, Len(line)) \in Seq(Position')
    BY <1>b, <2>2 DEF Commands
  <2>4. cmd' \in Commands'
    BY <2>1, <2>2, <2>3 DEF Commands
  <2> QED BY <1>0, <2>1, <2>4, ConsumeTyped DEF Typed, TypeOK, PcType
<1>6. CASE NoInput \/ Descend \/ DoubleSemi
  <2>1. Stay /\ pc' \in PcType /\ parse_error' \in BOOLEAN /\ UNCHANGED <<cmd, ast, items, var>>
    BY <1>0, <1>6 DEF NoInput, Descend, DoubleSemi, tree, PcType
  <2> QED BY <1>0, <2>1, StayTyped DEF Typed, TypeOK, PcType
<1>7. CASE EndCommand
  <2>1. /\ Stay /\ pc' = "joint" /\ ast' = Append(ast, cmd) /\ UNCHANGED <<cmd, items, parse_error>>
        /\ var' = [v \in Var |-> IF Assigned(v) = {} THEN var[v]
                                 ELSE CHOOSE t \in Assigned(v) : TRUE]
    BY <1>7 DEF EndCommand
  <2>2. ast' \in Seq(Commands) /\ Len(ast') = Len(ast) + 1
    BY <1>0, <2>1
  <2>3. ASSUME NEW v \in Var PROVE Assigned(v) \subseteq Token
    <3> DEFINE to == {n \in DOMAIN cmd.assigns : NameOf[line[cmd.assigns[n]]] = v}
    <3>1. cmd.assigns \in Seq(1 .. Len(line))
      BY <1>0 DEF Commands, Position
    <3>2. \A n \in DOMAIN cmd.assigns : line[cmd.assigns[n]] \in Token
      BY <1>0, <3>1
    <3>3. ASSUME to # {} PROVE Max(to) \in DOMAIN cmd.assigns
      <4>1. Len(cmd.assigns) \in Nat /\ DOMAIN cmd.assigns = 1 .. Len(cmd.assigns)
        BY <3>1
      <4>2. to \in SUBSET (1 .. Len(cmd.assigns))
        BY <4>1
      <4>3. PICK m \in to : \A n \in to : n <= m
        BY <3>3, <4>1, <4>2, Greatest
      <4>4. to \in SUBSET Nat
        BY <4>2
      <4>5. Max(to) = m
        BY <4>3, <4>4, MaxIs
      <4> QED BY <4>3, <4>5
    <3>4. Assigned(v) = IF to = {} THEN {} ELSE {line[cmd.assigns[n]] : n \in {Max(to)}}
      BY DEF Assigned
    <3> HIDE DEF to
    <3> QED BY <3>2, <3>3, <3>4
  <2>4. var' \in [Var -> Token \cup {Unset}]
    <3>1. ASSUME NEW v \in Var
          PROVE  (IF Assigned(v) = {} THEN var[v] ELSE CHOOSE t \in Assigned(v) : TRUE)
                   \in Token \cup {Unset}
      BY <1>0, <2>3
    <3> QED BY <2>1, <3>1
  <2>5. items' \in 0 .. Len(ast')
    BY <1>0, <2>1, <2>2
  <2> QED BY <1>0, <2>1, <2>2, <2>4, <2>5, StayTyped DEF Typed, TypeOK
<1>8. CASE Pipe \/ AndOr
  <2>1. /\ Consume /\ TypeOf[curr] \in {"pipe", "and", "or"} /\ cmd' = NewCommand(TypeOf[curr])
        /\ pc' \in PcType /\ UNCHANGED <<ast, items, var, parse_error>>
    BY <1>8 DEF Pipe, AndOr, PcType
  <2>2. cmd' \in Commands'
    BY <2>1, NewCommandType DEF Separator
  <2> QED BY <1>0, <2>1, <2>2, ConsumeTyped DEF Typed, TypeOK, PcType
<1>9. CASE Semi
  <2>1. /\ Consume /\ TypeOf[curr] # "eof" /\ pc' = "semi" /\ items' = Len(ast)
        /\ UNCHANGED <<cmd, ast, var, parse_error>>
    BY <1>9 DEF Semi
  <2> QED BY <1>0, <2>1, ConsumeTyped DEF Typed, TypeOK
<1>10. CASE NextItem
  <2>1. /\ Stay /\ pc' = "prefix" /\ cmd' = NewCommand("semi")
        /\ UNCHANGED <<ast, items, var, parse_error>>
    BY <1>10 DEF NextItem
  <2>2. cmd' \in Commands'
    BY <2>1, NewCommandType DEF Separator
  <2> QED BY <1>0, <2>1, <2>2, StayTyped DEF Typed, TypeOK
<1>11. CASE Return
  <2>1. Stay /\ pc' = "return" /\ items' = Len(ast) /\ UNCHANGED <<cmd, ast, var, parse_error>>
    BY <1>11 DEF Return
  <2> QED BY <1>0, <2>1, StayTyped DEF Typed, TypeOK
<1>12. CASE Fail
  <2>1. /\ Stay /\ pc' \in PcType /\ ast' = SubSeq(ast, 1, items)
        /\ UNCHANGED <<cmd, items, var, parse_error>>
    BY <1>12 DEF Fail, PcType
  <2>2. ast' \in Seq(Commands) /\ Len(ast') = items
    BY <1>0, <2>1
  <2> QED BY <1>0, <2>1, <2>2, StayTyped DEF Typed, TypeOK, PcType
<1>13. CASE SkipLine
  <2>1. /\ Consume /\ TypeOf[curr] # "eof" /\ UNCHANGED <<pc, cmd, ast, items, var, parse_error>>
    BY <1>13 DEF SkipLine, tree
  <2> QED BY <1>0, <2>1, ConsumeTyped DEF Typed, TypeOK, PcType
<1>14. CASE LineSkipped
  <2>1. Stay /\ pc' = "null" /\ ast' = <<>> /\ items' = 0 /\ UNCHANGED <<cmd, var, parse_error>>
    BY <1>14 DEF LineSkipped
  <2> QED BY <1>0, <2>1, StayTyped DEF Typed, TypeOK
<1>15. CASE UNCHANGED parser
  BY <1>15 DEF parser, tree, Typed, TypeOK, PoppedInTime, curr, Commands, Position
<1> QED BY <1>1, <1>2, <1>3, <1>4, <1>5, <1>6, <1>7, <1>8, <1>9, <1>10, <1>11, <1>12,
           <1>13, <1>14, <1>15 DEF Next, ParseStep

LEMMA TypedAlways == Spec => []Typed
BY TypedInit, TypedNext, PTL DEF Spec

(* TypeOK for every alphabet and every length: no call of the parser pops  *)
(* more than one token beyond the end of the input.                        *)
THEOREM TypeCorrect == Spec => []TypeOK
<1>1. Typed => TypeOK
  BY DEF Typed
<1> QED BY <1>1, TypedAlways, PTL

-----------------------------------------------------------------------------
(* The tree under construction *)

Building == {"start", "operand", "piped", "prefix", "words", "number", "file"}
Parsing == Building \cup {"joint", "semi"}

LineRead ==
    /\ pc \in Parsing \cup {"return"} => CutsRight(line)
    /\ pc \in Parsing \ {"semi"} => GoesOn(line)

(* The commands that have ended are read already; the one under            *)
(* construction is read up to the current token.                           *)
ReadSoFar ==
    /\ \A n \in 1 .. Len(ast) : ast[n] = Reading(line, n)
    /\ pc \in Building =>
          /\ Len(ast) + 1 = Spans(line) /\ cmd = Reading(line, Spans(line))
          /\ pc = "file" <=> Len(line) > 1 /\ TypeOf[line[Len(line) - 1]] = "redir"
          /\ pc \in {"start", "operand", "piped", "prefix"} => cmd.words = <<>>
          /\ pc = "words" => cmd.words # <<>>
    /\ pc = "joint" => Len(ast) = Spans(line) /\ items < Len(ast)

(* How each place in parser.c was reached. *)
Reached ==
    /\ pc = "start" => \A p \in 1 .. Len(line) - 1 : TypeOf[line[p]] = "nl"
    /\ pc = "semi" =>
          /\ Len(line) > 1 /\ TypeOf[line[Len(line) - 1]] = "semi" /\ items = Len(ast)
          /\ TypeOf[curr] \in {"nl", "eof"} => Len(ast) = Spans(line)
          /\ TypeOf[curr] \notin {"nl", "eof"} =>
                Len(ast) + 1 = Spans(line) /\ Reading(line, Spans(line)) = NewCommand("semi")
    /\ pc = "piped" =>
          LET last == Cuts(line)[Len(ast)] IN
          /\ items < Len(ast)
          /\ TypeOf[line[last]] = "pipe"
          /\ \A p \in last + 1 .. Len(line) - 1 : TypeOf[line[p]] = "nl"

Tree == LineRead /\ (pc \in Parsing => ReadSoFar /\ Reached)

(* One token is popped. *)
OneMore(t) ==
    /\ t \in Token /\ line' = Append(line, t) /\ Growing(line, t)
    /\ CutsRight(line) /\ CutsRight(line')
    /\ Len(line) \in Nat \ {0} /\ Len(line') = Len(line) + 1
    /\ curr = line[Len(line)] /\ line'[Len(line)] = curr /\ curr' = t
    /\ \A p \in 1 .. Len(line) : line'[p] = line[p]
    /\ Len(Cuts(line)) \in Nat /\ Spans(line) = Len(Cuts(line)) + 1

LEMMA Consumed ==
    ASSUME Typed, LineRead, pc \in Parsing \ {"semi"}, Consume, TypeOf[curr] # "eof"
    PROVE  \E t \in Token : OneMore(t)
<1>1. PICK t \in Token : line' = Append(line, t)
  BY ConsumeTyped
<1>2. line \in Seq(Token) /\ line # <<>>
  BY DEF Typed, TypeOK
<1>3. Growing(line, t) /\ CutsRight(line)
  BY <1>2 DEF Growing, LineRead
<1>4. CutsRight(line')
  BY <1>1, <1>3, CutsGrow
<1>5. /\ Len(line) \in Nat \ {0} /\ Len(line') = Len(line) + 1 /\ line'[Len(line) + 1] = t
      /\ \A p \in 1 .. Len(line) : line'[p] = line[p]
  BY <1>1, <1>3, Grown
<1>6. curr = line[Len(line)] /\ curr' = t /\ line'[Len(line)] = curr
  <2>1. Len(line) \in 1 .. Len(line)
    BY <1>5
  <2> QED BY <1>5, <2>1 DEF curr, Last
<1>7. Len(Cuts(line)) \in Nat
  BY <1>3 DEF CutsRight
<1> QED BY <1>1, <1>3, <1>4, <1>5, <1>6, <1>7 DEF OneMore, Spans

(* A token that separates nothing is read into the command, or over. *)
LEMMA Passing ==
    ASSUME Typed, Tree, pc \in Building, NEW t, OneMore(t),
           TypeOf[curr] \notin Separator,
           cmd' = Reading(line', Spans(line)), UNCHANGED <<ast, items>>, pc' \in Building,
           pc' = "file" <=> TypeOf[curr] = "redir",
           pc' \in {"start", "operand", "piped", "prefix"} => cmd'.words = <<>>,
           pc' = "words" => cmd'.words # <<>>,
           pc' \in {"start", "piped"} => pc' = pc /\ TypeOf[curr] = "nl"
    PROVE  Tree'
<1>1. /\ line' = Append(line, t) /\ Growing(line, t) /\ CutsRight(line) /\ CutsRight(line')
      /\ Len(line) \in Nat \ {0} /\ Len(line') = Len(line) + 1
      /\ curr = line[Len(line)] /\ line'[Len(line)] = curr
      /\ \A p \in 1 .. Len(line) : line'[p] = line[p]
      /\ Len(Cuts(line)) \in Nat /\ Spans(line) = Len(Cuts(line)) + 1
  BY DEF OneMore
<1>2. ReadSoFar /\ Reached
  BY DEF Tree, Parsing
<1>3. Len(ast) + 1 = Spans(line) /\ Len(ast) \in Nat
  BY <1>2 DEF ReadSoFar, Typed, TypeOK
<1>4. ~Separates(line, t)
  BY <1>1 DEF Separates
<1>5. Cuts(line') = Cuts(line) /\ Spans(line') = Spans(line)
  BY <1>1, <1>4, CutsAppend DEF Spans
<1>6. ASSUME NEW n \in 1 .. Len(ast) PROVE ast[n] = Reading(line', n)
  <2>1. n \in 1 .. Spans(line) /\ n # Spans(line)
    BY <1>3
  <2>2. Reading(line', n) = Reading(line, n)
    BY <1>1, <2>1, ReadingStays
  <2> QED BY <1>2, <2>2 DEF ReadSoFar
<1>7. LineRead'
  <2>1. TypeOf[curr] # "semi" /\ Len(line') - 1 = Len(line)
    BY <1>1 DEF Separator
  <2>2. GoesOn(line')
    BY <1>1, <2>1 DEF GoesOn
  <2> QED BY <1>1, <2>2 DEF LineRead
<1>8. pc' # "joint" /\ pc' # "semi"
  BY DEF Building
<1>9. ReadSoFar'
  <2>1. pc' = "file" <=> Len(line') > 1 /\ TypeOf[line'[Len(line') - 1]] = "redir"
    <3>1. Len(line') > 1 /\ line'[Len(line') - 1] = curr
      BY <1>1
    <3> QED BY <3>1
  <2>2. \A n \in 1 .. Len(ast') : ast'[n] = Reading(line', n)
    BY <1>6
  <2>3. Len(ast') + 1 = Spans(line') /\ cmd' = Reading(line', Spans(line'))
    BY <1>3, <1>5
  <2> QED BY <1>8, <2>1, <2>2, <2>3 DEF ReadSoFar
<1>10. Reached'
  <2>1. pc' = "start" => \A p \in 1 .. Len(line') - 1 : TypeOf[line'[p]] = "nl"
    <3> SUFFICES ASSUME pc' = "start", NEW p \in 1 .. Len(line') - 1
                 PROVE  TypeOf[line'[p]] = "nl"
      OBVIOUS
    <3>1. pc = "start" /\ TypeOf[curr] = "nl"
      OBVIOUS
    <3>2. CASE p = Len(line)
      BY <1>1, <3>1, <3>2
    <3>3. CASE p # Len(line)
      <4>1. p \in 1 .. Len(line) /\ p \in 1 .. Len(line) - 1
        BY <1>1, <3>3
      <4> QED BY <1>1, <1>2, <3>1, <4>1 DEF Reached
    <3> QED BY <3>2, <3>3
  <2>2. ASSUME pc' = "piped"
        PROVE  LET last == Cuts(line')[Len(ast')] IN
               /\ items' < Len(ast')
               /\ TypeOf[line'[last]] = "pipe"
               /\ \A p \in last + 1 .. Len(line') - 1 : TypeOf[line'[p]] = "nl"
    <3> DEFINE last == Cuts(line)[Len(ast)]
    <3>1. pc = "piped" /\ TypeOf[curr] = "nl"
      BY <2>2
    <3>2. /\ items < Len(ast) /\ TypeOf[line[last]] = "pipe"
          /\ \A p \in last + 1 .. Len(line) - 1 : TypeOf[line[p]] = "nl"
      BY <1>2, <3>1 DEF Reached
    <3>3. last \in 1 .. Len(line) - 1
      <4>1. Len(ast) \in 1 .. Len(Cuts(line))
        <5>1. items \in Nat
          BY DEF Typed, TypeOK
        <5> QED BY <1>1, <1>3, <3>2, <5>1
      <4> QED BY <1>1, <4>1 DEF CutsRight
    <3> HIDE DEF last
    <3>4. last \in 1 .. Len(line) /\ line'[last] = line[last]
      BY <1>1, <3>3
    <3>5. ASSUME NEW p \in last + 1 .. Len(line') - 1 PROVE TypeOf[line'[p]] = "nl"
      <4>1. CASE p = Len(line)
        BY <1>1, <3>1, <4>1
      <4>2. CASE p # Len(line)
        <5>1. p \in 1 .. Len(line) /\ p \in last + 1 .. Len(line) - 1
          BY <1>1, <3>3, <4>2
        <5> QED BY <1>1, <3>2, <5>1
      <4> QED BY <4>1, <4>2
    <3>6. Cuts(line')[Len(ast')] = last
      BY <1>5 DEF last
    <3> QED BY <3>2, <3>4, <3>5, <3>6
  <2> QED BY <1>8, <2>1, <2>2 DEF Reached
<1> QED BY <1>7, <1>9, <1>10 DEF Tree

(* A token that separates ends a command and begins another. *)
LEMMA Separating ==
    ASSUME Typed, Tree, pc = "joint", NEW t, OneMore(t), Separates(line, t)
    PROVE  /\ \A n \in 1 .. Len(ast) : ast[n] = Reading(line', n)
           /\ Len(ast) + 1 = Spans(line') /\ GoesOn(line')
           /\ Reading(line', Spans(line')) = NewCommand(TypeOf[curr])
           /\ Cuts(line')[Len(ast)] = Len(line)
<1>1. /\ line' = Append(line, t) /\ Growing(line, t) /\ CutsRight(line)
      /\ Len(line) \in Nat \ {0} /\ Len(line') = Len(line) + 1 /\ line'[Len(line')] = t
      /\ curr = line[Len(line)] /\ line'[Len(line)] = curr
      /\ Len(Cuts(line)) \in Nat /\ Spans(line) = Len(Cuts(line)) + 1
  BY Grown DEF OneMore
<1>2. ReadSoFar
  BY DEF Tree, Parsing
<1>3. Len(ast) = Spans(line)
  BY <1>2 DEF ReadSoFar
<1>4. ASSUME NEW n \in 1 .. Len(ast) PROVE ast[n] = Reading(line', n)
  <2>1. n \in 1 .. Spans(line)
    BY <1>3
  <2>2. Reading(line', n) = Reading(line, n)
    BY <1>1, <2>1, ReadingStays
  <2> QED BY <1>2, <2>2 DEF ReadSoFar
<1>5. /\ Spans(line') = Spans(line) + 1
      /\ Reading(line', Spans(line) + 1) = NewCommand(TypeOf[curr])
      /\ Cuts(line')[Spans(line)] = Len(line)
  BY <1>1, ReadingBegins
<1>6. GoesOn(line')
  <2>1. Len(line') - 1 = Len(line)
    BY <1>1
  <2> QED BY <1>1, <2>1 DEF GoesOn, Separates
<1> QED BY <1>3, <1>4, <1>5, <1>6

LEMMA CallTree == Typed /\ Call => Tree'
<1> SUFFICES ASSUME Typed, Call PROVE Tree'
  OBVIOUS
<1>1. /\ pc' = "start" /\ line' = <<curr>> /\ cmd' = NewCommand("first") /\ ast' = <<>>
      /\ items' = 0
  BY DEF Call
<1>2. curr \in Token
  BY DEF Typed, TypeOK, curr, Last
<1>3. Len(line') = 1 /\ Len(ast') = 0
  BY <1>1
<1>4. Cuts(line') = <<>> /\ CutsRight(line') /\ GoesOn(line')
  BY <1>1, <1>2, CutsOne
<1>5. Spans(line') = 1
  BY <1>4 DEF Spans
<1>6. cmd' = Reading(line', 1) /\ cmd'.words = <<>>
  BY <1>1, <1>2, ReadingOne DEF NewCommand
<1>7. LineRead'
  BY <1>4 DEF LineRead
<1>8. ReadSoFar'
  BY <1>1, <1>3, <1>5, <1>6 DEF ReadSoFar
<1>9. Reached'
  BY <1>1, <1>3 DEF Reached
<1> QED BY <1>7, <1>8, <1>9 DEF Tree

LEMMA PassTree ==
    Typed /\ Tree /\ (SkipNewline \/ RedirNb \/ RedirOp) => Tree'
<1> SUFFICES ASSUME Typed, Tree, SkipNewline \/ RedirNb \/ RedirOp PROVE Tree'
  OBVIOUS
<1>1. /\ pc \in Building /\ Consume /\ TypeOf[curr] \in {"nl", "nb", "redir"}
      /\ UNCHANGED <<cmd, ast, items>> /\ pc' \in Building
      /\ pc' = "file" <=> TypeOf[curr] = "redir"
      /\ pc' # "file" /\ pc' # "number" => pc' = pc /\ TypeOf[curr] = "nl"
      /\ pc' # "prefix" /\ pc' # "words"
  BY DEF SkipNewline, RedirNb, RedirOp, tree, Building
<1>2. ReadSoFar /\ LineRead
  BY <1>1 DEF Tree, Parsing
<1>3. PICK t \in Token : OneMore(t)
  BY <1>1, <1>2, Consumed DEF Parsing, Building
<1>4. cmd = Reading(line, Spans(line)) /\ Spans(line) \in 1 .. Spans(line)
  BY <1>1, <1>2, <1>3 DEF ReadSoFar, OneMore
<1>5. cmd' = Reading(line', Spans(line))
  <2>1. ~IsWord(line[Len(line)])
    BY <1>1, <1>3 DEF IsWord, OneMore
  <2> QED BY <1>1, <1>3, <1>4, <2>1, ReadingStays DEF OneMore
<1>6. pc' \in {"start", "operand", "piped", "prefix"} => cmd'.words = <<>>
  BY <1>1, <1>2 DEF ReadSoFar
<1>7. TypeOf[curr] \notin Separator
  BY <1>1 DEF Separator
<1> QED BY <1>1, <1>3, <1>5, <1>6, <1>7, Passing

LEMMA WordTree == Typed /\ Tree /\ (Assignment \/ Word \/ RedirFile) => Tree'
<1> SUFFICES ASSUME Typed, Tree, Assignment \/ Word \/ RedirFile PROVE Tree'
  OBVIOUS
<1>1. /\ pc \in {"prefix", "words", "file"} /\ Consume /\ IsWord(curr)
      /\ UNCHANGED <<ast, items>>
  BY DEF Assignment, Word, RedirFile, IsWord
<1>2. ReadSoFar /\ LineRead
  BY <1>1 DEF Tree, Parsing, Building
<1>3. PICK t \in Token : OneMore(t)
  BY <1>1, <1>2, Consumed DEF Parsing, Building, IsWord
<1>4. /\ cmd = Reading(line, Spans(line)) /\ Len(line) \in Nat \ {0}
      /\ pc = "file" <=> Len(line) > 1 /\ TypeOf[line[Len(line) - 1]] = "redir"
      /\ pc = "prefix" => cmd.words = <<>>
      /\ pc = "words" => cmd.words # <<>>
  BY <1>1, <1>2, <1>3 DEF ReadSoFar, OneMore, Building
<1>5. /\ Growing(line, t) /\ CutsRight(line) /\ IsWord(line[Len(line)])
      /\ line' = Append(line, t) /\ curr = line[Len(line)]
  BY <1>1, <1>3 DEF OneMore
<1>6. Operand(line, Len(line)) <=> pc = "file"
  BY <1>4, <1>5 DEF Operand
<1>7. cmd \in Commands /\ Len(line) \in Nat
  BY <1>4 DEF Typed, TypeOK
<1>8. CASE Assignment
  <2>1. /\ pc = "prefix" /\ pc' = "prefix" /\ TypeOf[curr] = "assign"
        /\ cmd' = [cmd EXCEPT !.assigns = Append(@, Len(line))]
    BY <1>8 DEF Assignment
  <2>2. cmd' = Reading(line', Spans(line))
    BY <1>4, <1>5, <1>6, <2>1, ReadingGrows
  <2>3. cmd'.words = cmd.words
    BY <1>7, <2>1 DEF Commands
  <2>4. cmd'.words = <<>>
    BY <1>4, <2>1, <2>3
  <2> QED BY <1>1, <1>3, <2>1, <2>2, <2>4, Passing DEF Building, Separator
<1>9. CASE Word
  <2>1. /\ \/ pc = "prefix" /\ TypeOf[curr] = "word"
           \/ pc = "words"
        /\ cmd' = [cmd EXCEPT !.words = Append(@, Len(line))] /\ pc' = "words"
    BY <1>9 DEF Word
  <2>2. cmd' = Reading(line', Spans(line))
    BY <1>4, <1>5, <1>6, <2>1, ReadingGrows
  <2>3. cmd.words \in Seq(Position)
    BY <1>7 DEF Commands
  <2>4. Append(cmd.words, Len(line)) # <<>>
    <3>1. Len(Append(cmd.words, Len(line))) = Len(cmd.words) + 1 /\ Len(cmd.words) \in Nat
      BY <2>3
    <3>2. Len(Append(cmd.words, Len(line))) # 0 /\ Len(<<>>) = 0
      BY <3>1
    <3> QED BY <3>2, Zenon
  <2>5. cmd'.words = Append(cmd.words, Len(line))
    BY <1>7, <2>1 DEF Commands
  <2> QED BY <1>1, <1>3, <2>1, <2>2, <2>4, <2>5, Passing DEF Building, Separator, IsWord
<1>10. CASE RedirFile
  <2>1. /\ pc = "file" /\ cmd' = [cmd EXCEPT !.redirs = Append(@, Len(line))]
        /\ pc' = IF cmd.words = <<>> THEN "prefix" ELSE "words"
    BY <1>10 DEF RedirFile
  <2>2. cmd' = Reading(line', Spans(line))
    BY <1>4, <1>5, <1>6, <2>1, ReadingGrows
  <2>3. cmd'.words = cmd.words
    BY <1>7, <2>1 DEF Commands
  <2> QED BY <1>1, <1>3, <2>1, <2>2, <2>3, Passing DEF Building, Separator, IsWord
<1> QED BY <1>8, <1>9, <1>10

LEMMA DescendTree == Typed /\ Tree /\ Descend => Tree'
<1> SUFFICES ASSUME Typed, Tree, Descend PROVE Tree'
  OBVIOUS
<1>1. /\ pc \in {"start", "operand", "piped"} /\ pc' = "prefix"
      /\ UNCHANGED <<line, cmd, ast, items>>
  BY DEF Descend, Stay, tree
<1>2. ReadSoFar /\ LineRead
  BY <1>1 DEF Tree, Parsing, Building
<1>3. LineRead'
  BY <1>1, <1>2 DEF LineRead, Parsing, Building
<1>4. ReadSoFar'
  BY <1>1, <1>2 DEF ReadSoFar, Building
<1>5. Reached'
  BY <1>1 DEF Reached
<1> QED BY <1>3, <1>4, <1>5 DEF Tree

LEMMA EndCommandTree == Typed /\ Tree /\ EndCommand => Tree'
<1> SUFFICES ASSUME Typed, Tree, EndCommand PROVE Tree'
  OBVIOUS
<1>1. /\ pc \in {"prefix", "words"} /\ pc' = "joint" /\ ast' = Append(ast, cmd)
      /\ UNCHANGED <<line, cmd, items>>
  BY DEF EndCommand, Stay
<1>2. ReadSoFar /\ LineRead
  BY <1>1 DEF Tree, Parsing, Building
<1>3. LineRead'
  BY <1>1, <1>2 DEF LineRead, Parsing, Building
<1>4. ast \in Seq(Commands) /\ Len(ast) \in Nat /\ items \in 0 .. Len(ast)
  BY DEF Typed, TypeOK
<1>5. /\ Len(ast') = Len(ast) + 1 /\ ast'[Len(ast) + 1] = cmd
      /\ \A n \in 1 .. Len(ast) : ast'[n] = ast[n]
  BY <1>1, <1>4
<1>6. /\ Len(ast) + 1 = Spans(line) /\ cmd = Reading(line, Spans(line))
      /\ \A n \in 1 .. Len(ast) : ast[n] = Reading(line, n)
  BY <1>1, <1>2 DEF ReadSoFar, Building
<1>7. ASSUME NEW n \in 1 .. Len(ast') PROVE ast'[n] = Reading(line', n)
  <2>1. CASE n = Len(ast) + 1
    BY <1>1, <1>5, <1>6, <2>1
  <2>2. CASE n # Len(ast) + 1
    <3>1. n \in 1 .. Len(ast)
      BY <1>4, <1>5, <2>2
    <3> QED BY <1>1, <1>5, <1>6, <3>1
  <2> QED BY <2>1, <2>2
<1>8. Len(ast') = Spans(line') /\ items' < Len(ast')
  BY <1>1, <1>4, <1>5, <1>6
<1>9. ReadSoFar'
  BY <1>1, <1>7, <1>8 DEF ReadSoFar, Building
<1>10. Reached'
  BY <1>1 DEF Reached
<1> QED BY <1>3, <1>9, <1>10 DEF Tree

LEMMA OperatorTree == Typed /\ Tree /\ (Pipe \/ AndOr) => Tree'
<1> SUFFICES ASSUME Typed, Tree, Pipe \/ AndOr PROVE Tree'
  OBVIOUS
<1>1. /\ pc = "joint" /\ Consume /\ TypeOf[curr] \in {"pipe", "and", "or"}
      /\ cmd' = NewCommand(TypeOf[curr]) /\ UNCHANGED <<ast, items>>
      /\ pc' = IF TypeOf[curr] = "pipe" THEN "piped" ELSE "operand"
  BY DEF Pipe, AndOr
<1>2. ReadSoFar /\ LineRead
  BY <1>1 DEF Tree, Parsing
<1>3. PICK t \in Token : OneMore(t)
  BY <1>1, <1>2, Consumed DEF Parsing
<1>4. /\ Len(line) \in Nat \ {0} /\ Len(line') = Len(line) + 1 /\ CutsRight(line')
      /\ curr = line[Len(line)] /\ line'[Len(line)] = curr
  BY <1>3 DEF OneMore
<1>5. Separates(line, t)
  BY <1>1, <1>4 DEF Separates, Separator
<1>6. /\ \A n \in 1 .. Len(ast) : ast[n] = Reading(line', n)
      /\ Len(ast) + 1 = Spans(line') /\ GoesOn(line')
      /\ Reading(line', Spans(line')) = NewCommand(TypeOf[curr])
      /\ Cuts(line')[Len(ast)] = Len(line)
  BY <1>1, <1>3, <1>5, Separating
<1>7. items < Len(ast)
  BY <1>1, <1>2 DEF ReadSoFar
<1>8. LineRead'
  BY <1>4, <1>6 DEF LineRead
<1>9. ReadSoFar'
  <2>1. ~(Len(line') > 1 /\ TypeOf[line'[Len(line') - 1]] = "redir")
    <3>1. Len(line') - 1 = Len(line)
      BY <1>4
    <3> QED BY <1>1, <1>4, <3>1
  <2>2. cmd'.words = <<>>
    BY <1>1 DEF NewCommand
  <2> QED BY <1>1, <1>6, <2>1, <2>2 DEF ReadSoFar
<1>10. Reached'
  <2>1. Len(line) + 1 .. Len(line') - 1 = {}
    BY <1>4
  <2> QED BY <1>1, <1>4, <1>6, <1>7, <2>1 DEF Reached
<1> QED BY <1>8, <1>9, <1>10 DEF Tree

LEMMA SemiTree == Typed /\ Tree /\ Semi => Tree'
<1> SUFFICES ASSUME Typed, Tree, Semi PROVE Tree'
  OBVIOUS
<1>1. /\ pc = "joint" /\ Consume /\ TypeOf[curr] = "semi" /\ pc' = "semi"
      /\ items' = Len(ast) /\ UNCHANGED <<cmd, ast>>
  BY DEF Semi
<1>2. ReadSoFar /\ LineRead
  BY <1>1 DEF Tree, Parsing
<1>3. PICK t \in Token : OneMore(t)
  BY <1>1, <1>2, Consumed DEF Parsing
<1>4. /\ Len(line) \in Nat \ {0} /\ Len(line') = Len(line) + 1
      /\ CutsRight(line) /\ CutsRight(line') /\ Growing(line, t) /\ line' = Append(line, t)
      /\ curr = line[Len(line)] /\ line'[Len(line)] = curr /\ curr' = t
      /\ Len(Cuts(line)) \in Nat /\ Spans(line) = Len(Cuts(line)) + 1
  BY <1>3 DEF OneMore
<1>5. Len(ast) = Spans(line) /\ \A n \in 1 .. Len(ast) : ast[n] = Reading(line, n)
  BY <1>1, <1>2 DEF ReadSoFar
<1>6. LineRead'
  BY <1>1, <1>4 DEF LineRead
<1>7. Len(line') > 1 /\ TypeOf[line'[Len(line') - 1]] = "semi"
  <2>1. /\ Len(line) \in Nat \ {0} /\ Len(line') = Len(line) + 1
        /\ TypeOf[line'[Len(line)]] = "semi"
    BY <1>1, <1>4, Zenon
  <2> QED BY <2>1
<1>8. pc' \notin Building /\ pc' # "joint"
  BY <1>1 DEF Building
<1>9. CASE TypeOf[t] \in {"nl", "eof"}
  <2>1. ~Separates(line, t)
    BY <1>1, <1>4, <1>9 DEF Separates
  <2>2. Spans(line') = Spans(line)
    BY <1>4, <2>1, CutsAppend DEF Spans
  <2>3. ASSUME NEW n \in 1 .. Len(ast) PROVE ast[n] = Reading(line', n)
    <3>1. n \in 1 .. Spans(line) /\ ~IsWord(line[Len(line)])
      BY <1>1, <1>4, <1>5 DEF IsWord
    <3>2. Reading(line', n) = Reading(line, n)
      BY <1>4, <3>1, ReadingStays
    <3> QED BY <1>5, <3>2
  <2>4. ReadSoFar'
    BY <1>1, <1>8, <2>3 DEF ReadSoFar
  <2>5. Reached'
    BY <1>1, <1>4, <1>5, <1>7, <1>9, <2>2 DEF Reached
  <2> QED BY <1>6, <2>4, <2>5 DEF Tree
<1>10. CASE TypeOf[t] \notin {"nl", "eof"}
  <2>1. Separates(line, t)
    BY <1>1, <1>4, <1>10 DEF Separates, Separator
  <2>2. /\ \A n \in 1 .. Len(ast) : ast[n] = Reading(line', n)
        /\ Len(ast) + 1 = Spans(line')
        /\ Reading(line', Spans(line')) = NewCommand("semi")
    BY <1>1, <1>3, <2>1, Separating
  <2>3. ReadSoFar'
    BY <1>1, <1>8, <2>2 DEF ReadSoFar
  <2>4. Reached'
    BY <1>1, <1>4, <1>7, <1>10, <2>2 DEF Reached
  <2> QED BY <1>6, <2>3, <2>4 DEF Tree
<1> QED BY <1>9, <1>10

LEMMA NextItemTree == Typed /\ Tree /\ NextItem => Tree'
<1> SUFFICES ASSUME Typed, Tree, NextItem PROVE Tree'
  OBVIOUS
<1>1. /\ pc = "semi" /\ pc' = "prefix" /\ TypeOf[curr] \notin {"nl", "eof"}
      /\ cmd' = NewCommand("semi") /\ UNCHANGED <<line, ast, items>>
  BY DEF NextItem, Stay
<1>2. ReadSoFar /\ Reached /\ CutsRight(line)
  BY <1>1 DEF Tree, Parsing, LineRead
<1>3. /\ Len(line) > 1 /\ TypeOf[line[Len(line) - 1]] = "semi"
      /\ Len(ast) + 1 = Spans(line) /\ Reading(line, Spans(line)) = NewCommand("semi")
  BY <1>1, <1>2 DEF Reached
<1>4. LineRead'
  BY <1>1, <1>2 DEF LineRead, GoesOn, curr, Last
<1>5. cmd'.words = <<>>
  BY <1>1 DEF NewCommand
<1>6. ReadSoFar'
  BY <1>1, <1>2, <1>3, <1>5 DEF ReadSoFar
<1>7. Reached'
  BY <1>1 DEF Reached
<1> QED BY <1>4, <1>6, <1>7 DEF Tree

LEMMA TreeNext == Typed /\ Tree /\ [Next]_parser => Tree'
<1> SUFFICES ASSUME Typed, Tree, [Next]_parser PROVE Tree'
  OBVIOUS
<1>1. CASE NoInput \/ DoubleSemi \/ SkipLine \/ LineSkipped
  <2>1. pc' \in {"null", "double"}
    BY <1>1 DEF NoInput, DoubleSemi, SkipLine, LineSkipped
  <2> QED BY <2>1 DEF Tree, LineRead, Parsing, Building
<1>2. CASE Return \/ Fail
  <2>1. pc' \in {"null", "return"} /\ line' = line /\ pc \in Parsing
    BY <1>2 DEF Return, Fail, Stay, Parsing, Building
  <2>2. CutsRight(line')
    BY <2>1 DEF Tree, LineRead
  <2> QED BY <2>1, <2>2 DEF Tree, LineRead, Parsing, Building
<1>3. CASE UNCHANGED parser
  <2>1. UNCHANGED <<line, pc, cmd, ast, items>>
    BY <1>3 DEF parser, tree
  <2> QED BY <2>1 DEF Tree, LineRead, ReadSoFar, Reached, curr
<1> QED BY <1>1, <1>2, <1>3, CallTree, PassTree, WordTree, DescendTree, EndCommandTree,
           OperatorTree, SemiTree, NextItemTree DEF Next, ParseStep

LEMMA TreeInit == Init => Tree
<1> SUFFICES ASSUME Init PROVE Tree
  OBVIOUS
<1>1. PICK t \in Token : line = <<t>>
  BY DEF Init
<1>2. CutsRight(line) /\ pc = "return"
  BY <1>1, CutsOne DEF Init
<1> QED BY <1>2 DEF Tree, LineRead, Parsing, Building

-----------------------------------------------------------------------------
(* What a call returns *)

LEMMA FailMalformed ==
    ASSUME Typed, Tree, Fail
    PROVE  Malformed(line, items)
<1>1. /\ pc \in {"file", "piped"}
      /\ pc = "file" => ~IsWord(curr)
      /\ pc = "piped" => TypeOf[curr] \in {"eof", "pipe"}
  BY DEF Fail
<1>2. ReadSoFar /\ Reached /\ CutsRight(line)
  BY <1>1 DEF Tree, Parsing, Building, LineRead
<1>3. /\ Len(line) \in Nat \ {0} /\ items \in 0 .. Len(ast) /\ Len(ast) \in Nat
      /\ curr = line[Len(line)]
  BY DEF Typed, TypeOK, curr, Last
<1>4. Len(ast) = Len(Cuts(line))
  <2>1. Len(ast) + 1 = Len(Cuts(line)) + 1
    BY <1>1, <1>2 DEF ReadSoFar, Building, Spans
  <2>2. Len(Cuts(line)) \in Nat
    BY <1>2 DEF CutsRight
  <2> QED BY <1>3, <2>1, <2>2
<1>5. \A n \in 1 .. Len(ast) : /\ Cuts(line)[n] \in 1 .. Len(line) - 1
                               /\ TypeOf[line[Cuts(line)[n]]] \in Separator
  BY <1>2, <1>4 DEF CutsRight
<1> DEFINE from == IF items = 0 THEN 1 ELSE Cuts(line)[items] + 1
<1>6. CASE pc = "file"
  <2>1. Len(line) > 1 /\ TypeOf[line[Len(line) - 1]] = "redir"
    BY <1>2, <1>6 DEF ReadSoFar, Building
  <2>2. items # 0 => Cuts(line)[items] \in 1 .. Len(line) - 1
                     /\ Cuts(line)[items] # Len(line) - 1
    <3>1. items # 0 => items \in 1 .. Len(ast)
      BY <1>3
    <3> QED BY <1>5, <2>1, <3>1 DEF Separator
  <2>3. Len(line) > from
    BY <1>3, <2>1, <2>2
  <2> QED BY <1>1, <1>3, <1>6, <2>1, <2>3 DEF Malformed
<1>7. CASE pc = "piped"
  <2> DEFINE last == Cuts(line)[Len(ast)]
  <2>1. /\ items < Len(ast) /\ TypeOf[line[last]] = "pipe"
        /\ \A p \in last + 1 .. Len(line) - 1 : TypeOf[line[p]] = "nl"
    BY <1>2, <1>7 DEF Reached
  <2>2. Len(ast) \in 1 .. Len(ast)
    BY <1>3, <2>1
  <2>3. last \in 1 .. Len(line) - 1
    BY <1>5, <2>2
  <2>4. items # 0 => Cuts(line)[items] \in Nat /\ Cuts(line)[items] < last
    <3>1. items # 0 => items \in 1 .. Len(ast)
      BY <1>3
    <3> QED BY <1>2, <1>4, <1>5, <2>1, <2>2, <3>1 DEF CutsRight
  <2> HIDE DEF last
  <2>5. last \in from .. Len(line) - 1
    BY <1>3, <2>3, <2>4
  <2> QED BY <1>1, <1>3, <1>7, <2>1, <2>5 DEF Malformed
<1> QED BY <1>1, <1>6, <1>7

Outcome ==
    /\ TreeIsReading /\ OnlyMalformedDropped /\ NullIsDeserved
    /\ pc = "double" => parse_error /\ HasDoubleSemi(line)

LEMMA OutcomeNext == Typed /\ Tree /\ Outcome /\ [Next]_parser => Outcome'
<1> SUFFICES ASSUME Typed, Tree, Outcome, [Next]_parser PROVE Outcome'
  OBVIOUS
<1>0. /\ Len(line) \in Nat \ {0} /\ items \in 0 .. Len(ast) /\ Len(ast) \in Nat
      /\ curr = line[Len(line)] /\ ast \in Seq(Commands)
  BY DEF Typed, TypeOK, curr, Last
<1>1. CASE Call \/ SkipNewline \/ Descend \/ Assignment \/ Word \/ RedirNb \/ RedirOp
           \/ RedirFile \/ EndCommand \/ Pipe \/ AndOr \/ Semi \/ NextItem
  <2>1. pc' \notin {"return", "null", "double"}
    BY <1>1 DEF Call, SkipNewline, Descend, Assignment, Word, RedirNb, RedirOp,
                RedirFile, EndCommand, Pipe, AndOr, Semi, NextItem
  <2> QED BY <2>1 DEF Outcome, TreeIsReading, OnlyMalformedDropped, NullIsDeserved
<1>2. CASE NoInput
  <2>1. pc = "start" /\ pc' = "null" /\ TypeOf[curr] = "eof" /\ line' = line
    BY <1>2 DEF NoInput, Stay
  <2>2. \A p \in 1 .. Len(line) - 1 : TypeOf[line[p]] = "nl"
    BY <2>1 DEF Tree, Parsing, Building, Reached
  <2>3. ASSUME NEW p \in Position' PROVE TypeOf[line'[p]] \in {"nl", "eof"}
    <3>1. p \in 1 .. Len(line)
      BY <2>1, <2>3 DEF Position
    <3>2. CASE p = Len(line)
      BY <1>0, <2>1, <3>2
    <3>3. CASE p # Len(line)
      <4>1. p \in 1 .. Len(line) - 1
        BY <1>0, <3>1, <3>3
      <4> QED BY <2>1, <2>2, <4>1
    <3> QED BY <3>2, <3>3
  <2> QED BY <2>1, <2>3 DEF Outcome, TreeIsReading, OnlyMalformedDropped, NullIsDeserved
<1>3. CASE Return
  <2>1. /\ pc \in {"joint", "semi"} /\ TypeOf[curr] \in {"nl", "eof"} /\ pc' = "return"
        /\ UNCHANGED <<line, ast>>
    BY <1>3 DEF Return, Stay
  <2>2. ReadSoFar /\ Reached
    BY <2>1 DEF Tree, Parsing
  <2>3. Len(ast) = Spans(line) /\ \A n \in 1 .. Len(ast) : ast[n] = Reading(line, n)
    BY <2>1, <2>2 DEF ReadSoFar, Reached
  <2> QED BY <2>1, <2>3
          DEF Outcome, TreeIsReading, OnlyMalformedDropped, NullIsDeserved, curr
<1>4. CASE Fail
  <2>1. /\ pc \in {"file", "piped"} /\ pc' = IF items = 0 THEN "null" ELSE "return"
        /\ line' = line /\ ast' = SubSeq(ast, 1, items)
    BY <1>4 DEF Fail, Stay
  <2>2. \A n \in 1 .. Len(ast) : ast[n] = Reading(line, n)
    BY <2>1 DEF Tree, Parsing, Building, ReadSoFar
  <2>3. Len(ast') = items /\ \A n \in 1 .. items : ast'[n] = ast[n]
    BY <1>0, <2>1
  <2>4. Malformed(line', items)
    BY <1>4, <2>1, FailMalformed
  <2>5. TreeIsReading'
    <3>1. ASSUME NEW n \in 1 .. Len(ast') PROVE ast'[n] = Reading(line', n)
      <4>1. n \in 1 .. items /\ n \in 1 .. Len(ast)
        BY <1>0, <2>3
      <4> QED BY <2>1, <2>2, <2>3, <4>1
    <3> QED BY <3>1 DEF TreeIsReading
  <2>6. OnlyMalformedDropped'
    BY <2>3, <2>4 DEF OnlyMalformedDropped
  <2>7. NullIsDeserved'
    BY <2>1, <2>4 DEF NullIsDeserved
  <2>8. pc' # "double"
    BY <2>1
  <2> QED BY <2>5, <2>6, <2>7, <2>8 DEF Outcome
<1>5. CASE DoubleSemi
  <2>1. /\ pc = "semi" /\ TypeOf[curr] = "semi" /\ parse_error' = TRUE /\ pc' = "double"
        /\ line' = line
    BY <1>5 DEF DoubleSemi, Stay
  <2>2. Len(line) > 1 /\ TypeOf[line[Len(line) - 1]] = "semi"
    BY <2>1 DEF Tree, Parsing, Reached
  <2>3. Len(line) - 1 \in 1 .. Len(line) - 1 /\ (Len(line) - 1) + 1 = Len(line)
    BY <1>0, <2>2
  <2>4. HasDoubleSemi(line)
    BY <1>0, <2>1, <2>2, <2>3 DEF HasDoubleSemi
  <2> QED BY <2>1, <2>4 DEF Outcome, TreeIsReading, OnlyMalformedDropped, NullIsDeserved
<1>6. CASE SkipLine
  <2>1. pc = "double" /\ pc' = "double" /\ Consume /\ TypeOf[curr] # "eof"
        /\ parse_error' = parse_error
    BY <1>6 DEF SkipLine
  <2>2. PICK t \in Token : line' = Append(line, t)
    BY <2>1, ConsumeTyped
  <2>3. Len(line') = Len(line) + 1 /\ \A p \in 1 .. Len(line) : line'[p] = line[p]
    BY <2>2 DEF Typed, TypeOK
  <2>4. PICK p \in 1 .. Len(line) - 1 : TypeOf[line[p]] = "semi" /\ TypeOf[line[p + 1]] = "semi"
    BY <2>1 DEF Outcome, HasDoubleSemi
  <2>5. p \in 1 .. Len(line) /\ p + 1 \in 1 .. Len(line) /\ p \in 1 .. Len(line') - 1
    BY <1>0, <2>3, <2>4
  <2>6. HasDoubleSemi(line')
    BY <2>3, <2>4, <2>5 DEF HasDoubleSemi
  <2> QED BY <2>1, <2>6
          DEF Outcome, TreeIsReading, OnlyMalformedDropped, NullIsDeserved
<1>7. CASE LineSkipped
  <2>1. pc = "double" /\ pc' = "null" /\ line' = line /\ parse_error' = parse_error
    BY <1>7 DEF LineSkipped, Stay
  <2>2. parse_error /\ HasDoubleSemi(line)
    BY <2>1 DEF Outcome
  <2> QED BY <2>1, <2>2 DEF Outcome, TreeIsReading, OnlyMalformedDropped, NullIsDeserved
<1>8. CASE UNCHANGED parser
  BY <1>8 DEF parser, tree, Outcome, TreeIsReading, OnlyMalformedDropped, NullIsDeserved,
              Position, curr
<1> QED BY <1>1, <1>2, <1>3, <1>4, <1>5, <1>6, <1>7, <1>8 DEF Next, ParseStep

LEMMA OutcomeInit == Init => Outcome
<1> SUFFICES ASSUME Init PROVE Outcome
  OBVIOUS
<1>1. pc = "return" /\ ast = <<>>
  BY DEF Init
<1>2. Len(ast) = 0
  BY <1>1
<1> QED BY <1>1, <1>2 DEF Outcome, TreeIsReading, OnlyMalformedDropped, NullIsDeserved

LEMMA OutcomeAlways == Spec => [](Typed /\ Tree /\ Outcome)
BY TypedInit, TreeInit, OutcomeInit, TypedNext, TreeNext, OutcomeNext, PTL DEF Spec

(* TreeIsReading: the tree built one token after the other is the reading  *)
(* of the whole line, whichever tokens there are and however many.         *)
THEOREM TreeIsTheReading == Spec => []TreeIsReading
<1>1. Outcome => TreeIsReading
  BY DEF Outcome
<1> QED BY <1>1, OutcomeAlways, PTL

(* OnlyMalformedDropped: the tree is the whole line, unless what follows   *)
(* its last item is malformed.                                             *)
THEOREM NothingIsDropped == Spec => []OnlyMalformedDropped
<1>1. Outcome => OnlyMalformedDropped
  BY DEF Outcome
<1> QED BY <1>1, OutcomeAlways, PTL

(* NullIsDeserved: no line that could be run ends the shell.               *)
THEOREM NullEndsNoLine == Spec => []NullIsDeserved
<1>1. Outcome => NullIsDeserved
  BY DEF Outcome
<1> QED BY <1>1, OutcomeAlways, PTL

-----------------------------------------------------------------------------
(* Assignments *)

(* p is an assignment of a command that has ended. *)
Kept(p) == \E n \in 1 .. Len(ast) : p \in ToSet(ast[n].assigns)

InTurn ==
    /\ \A p \in Position : Kept(p) => p < Len(line)
    /\ pc \in Building =>
          /\ \A i \in DOMAIN cmd.assigns :
                /\ cmd.assigns[i] < Len(line) /\ TypeOf[line[cmd.assigns[i]]] = "assign"
                /\ \A p \in Position : Kept(p) => p < cmd.assigns[i]
          /\ \A i, j \in DOMAIN cmd.assigns : i < j => cmd.assigns[i] < cmd.assigns[j]

LastOf(S, v) == \E p \in S : var[v] = line[p] /\ \A q \in S : q <= p

SetRight == \A v \in Var : AssignedTo(v) # {} => LastOf(AssignedTo(v), v)

Assigns ==
    /\ pc \in Parsing => InTurn /\ SetRight
    /\ pc = "return" /\ Len(ast) = Spans(line) => SetRight

(* What was assigned stays assigned when the line grows. *)
LEMMA AssignsPass ==
    ASSUME Typed, InTurn, Consume, TypeOf[curr] # "eof", UNCHANGED <<ast, var>>
    PROVE  /\ \A p \in Position' : Kept(p)' => p \in Position /\ Kept(p) /\ p < Len(line)
           /\ \A p \in Position' : Kept(p)' => p < Len(line')
           /\ SetRight => SetRight'
<1>1. PICK t \in Token : line' = Append(line, t)
  BY ConsumeTyped
<1>2. /\ Len(line) \in Nat \ {0} /\ Len(line') = Len(line) + 1
      /\ \A p \in 1 .. Len(line) : line'[p] = line[p]
  BY <1>1 DEF Typed, TypeOK
<1>3. ASSUME NEW p, Kept(p) PROVE p \in Position
  <2>1. PICK n \in 1 .. Len(ast) : p \in ToSet(ast[n].assigns)
    BY <1>3 DEF Kept
  <2>2. ast[n] \in Commands
    BY DEF Typed, TypeOK
  <2>3. ast[n].assigns \in Seq(Position)
    BY <2>2 DEF Commands
  <2> QED BY <2>1, <2>3 DEF ToSet
<1>4. ASSUME NEW p PROVE Kept(p)' <=> Kept(p)
  BY DEF Kept
<1>5. \A p \in Position' : Kept(p)' => p \in Position /\ Kept(p) /\ p < Len(line)
  BY <1>3, <1>4 DEF InTurn
<1>6. \A p \in Position' : Kept(p)' => p < Len(line')
  BY <1>2, <1>5 DEF Position
<1>7. Position \subseteq Position'
  BY <1>2 DEF Position
<1>8. ASSUME NEW v \in Var PROVE AssignedTo(v)' = AssignedTo(v)
  <2>1. ASSUME NEW p \in Position, Kept(p)
        PROVE  line'[p] = line[p] /\ p \in Position'
    BY <1>2, <1>7, <2>1 DEF Position
  <2>2. AssignedTo(v) = {p \in Position : TypeOf[line[p]] = "assign" /\ NameOf[line[p]] = v
                                          /\ Kept(p)}
    BY DEF AssignedTo, Kept
  <2>3. AssignedTo(v)' = {p \in Position' : TypeOf[line'[p]] = "assign"
                                            /\ NameOf[line'[p]] = v /\ Kept(p)'}
    BY DEF AssignedTo, Kept
  <2> QED BY <1>4, <1>5, <2>1, <2>2, <2>3
<1>9. ASSUME SetRight PROVE SetRight'
  <2> SUFFICES ASSUME NEW v \in Var, AssignedTo(v)' # {}
               PROVE  \E p \in AssignedTo(v)' : var'[v] = line'[p]
                                                /\ \A q \in AssignedTo(v)' : q <= p
    BY DEF SetRight, LastOf
  <2>1. PICK p \in AssignedTo(v) : var[v] = line[p] /\ \A q \in AssignedTo(v) : q <= p
    BY <1>8, <1>9 DEF SetRight, LastOf
  <2>2. p \in 1 .. Len(line)
    BY <2>1 DEF AssignedTo, Position
  <2> QED BY <1>2, <1>8, <2>1, <2>2
<1> QED BY <1>5, <1>6, <1>9

(* The pops that leave the assignments of the command alone. *)
LEMMA AssignsKept ==
    ASSUME Typed, Assigns, pc \in Parsing, Consume, TypeOf[curr] # "eof",
           UNCHANGED <<ast, var>>, pc' \in Parsing,
           pc' \in Building => \/ cmd'.assigns = <<>>
                               \/ pc \in Building /\ cmd'.assigns = cmd.assigns
    PROVE  Assigns'
<1>1. InTurn /\ SetRight
  BY DEF Assigns
<1>2. /\ \A p \in Position' : Kept(p)' => p \in Position /\ Kept(p) /\ p < Len(line)
      /\ \A p \in Position' : Kept(p)' => p < Len(line')
      /\ SetRight'
  BY <1>1, AssignsPass
<1>3. PICK t \in Token : line' = Append(line, t)
  BY ConsumeTyped
<1>4. /\ Len(line) \in Nat \ {0} /\ Len(line') = Len(line) + 1
      /\ \A p \in 1 .. Len(line) : line'[p] = line[p]
  BY <1>3 DEF Typed, TypeOK
<1>5. CASE pc' \in Building /\ cmd'.assigns = <<>>
  BY <1>2, <1>5 DEF Assigns, InTurn, Parsing, Building
<1>6. CASE pc' \in Building /\ pc \in Building /\ cmd'.assigns = cmd.assigns
  <2>1. ASSUME NEW i \in DOMAIN cmd.assigns
        PROVE  /\ cmd.assigns[i] < Len(line') /\ TypeOf[line'[cmd.assigns[i]]] = "assign"
               /\ \A p \in Position' : Kept(p)' => p < cmd.assigns[i]
    <3>1. /\ cmd.assigns[i] < Len(line) /\ TypeOf[line[cmd.assigns[i]]] = "assign"
          /\ \A p \in Position : Kept(p) => p < cmd.assigns[i]
      BY <1>1, <1>6, <2>1 DEF InTurn
    <3>2. cmd.assigns[i] \in 1 .. Len(line)
      BY <2>1 DEF Typed, TypeOK, Commands, Position
    <3> QED BY <1>2, <1>4, <3>1, <3>2
  <2>2. \A i, j \in DOMAIN cmd.assigns : i < j => cmd.assigns[i] < cmd.assigns[j]
    BY <1>1, <1>6 DEF InTurn
  <2> QED BY <1>2, <1>6, <2>1, <2>2 DEF Assigns, InTurn, Parsing, Building
<1>7. CASE pc' \notin Building
  BY <1>2, <1>7 DEF Assigns, InTurn, Parsing
<1> QED BY <1>5, <1>6, <1>7

LEMMA AssignmentAssigns ==
    ASSUME Typed, Assigns, Assignment
    PROVE  Assigns'
<1>1. /\ pc = "prefix" /\ pc' = "prefix" /\ TypeOf[curr] = "assign" /\ Consume
      /\ cmd' = [cmd EXCEPT !.assigns = Append(@, Len(line))] /\ UNCHANGED <<ast, var>>
  BY DEF Assignment
<1>2. InTurn /\ SetRight
  BY <1>1 DEF Assigns, Parsing, Building
<1>3. /\ \A p \in Position' : Kept(p)' => p \in Position /\ Kept(p) /\ p < Len(line)
      /\ \A p \in Position' : Kept(p)' => p < Len(line')
      /\ SetRight'
  BY <1>1, <1>2, AssignsPass
<1>4. PICK t \in Token : line' = Append(line, t)
  BY <1>1, ConsumeTyped
<1>5. /\ Len(line) \in Nat \ {0} /\ Len(line') = Len(line) + 1
      /\ \A p \in 1 .. Len(line) : line'[p] = line[p]
      /\ curr = line[Len(line)]
  BY <1>4 DEF Typed, TypeOK, curr, Last
<1>6. cmd \in Commands
  BY DEF Typed, TypeOK
<1>7. cmd'.assigns = Append(cmd.assigns, Len(line)) /\ cmd.assigns \in Seq(Position)
  BY <1>1, <1>6 DEF Commands
<1> DEFINE k == Len(cmd.assigns)
<1>8. /\ k \in Nat /\ DOMAIN cmd'.assigns = 1 .. k + 1 /\ DOMAIN cmd.assigns = 1 .. k
      /\ cmd'.assigns[k + 1] = Len(line)
      /\ \A i \in 1 .. k : cmd'.assigns[i] = cmd.assigns[i] /\ cmd.assigns[i] \in 1 .. Len(line)
  BY <1>7 DEF Position
<1> HIDE DEF k
<1>9. ASSUME NEW i \in 1 .. k
      PROVE  /\ cmd.assigns[i] < Len(line) /\ TypeOf[line[cmd.assigns[i]]] = "assign"
             /\ \A p \in Position : Kept(p) => p < cmd.assigns[i]
             /\ \A j \in 1 .. k : i < j => cmd.assigns[i] < cmd.assigns[j]
  BY <1>1, <1>2, <1>8 DEF InTurn, Building
<1>10. ASSUME NEW i \in DOMAIN cmd'.assigns
       PROVE  /\ cmd'.assigns[i] < Len(line') /\ TypeOf[line'[cmd'.assigns[i]]] = "assign"
              /\ \A p \in Position' : Kept(p)' => p < cmd'.assigns[i]
  <2>1. i \in 1 .. k + 1
    BY <1>8
  <2>2. CASE i = k + 1
    <3>1. cmd'.assigns[i] = Len(line) /\ Len(line) \in 1 .. Len(line)
      BY <1>5, <1>8, <2>2
    <3> QED BY <1>1, <1>3, <1>5, <3>1
  <2>3. CASE i # k + 1
    <3>1. i \in 1 .. k
      BY <1>8, <2>1, <2>3
    <3> QED BY <1>3, <1>5, <1>8, <1>9, <3>1
  <2> QED BY <2>2, <2>3
<1>11. ASSUME NEW i \in DOMAIN cmd'.assigns, NEW j \in DOMAIN cmd'.assigns, i < j
       PROVE  cmd'.assigns[i] < cmd'.assigns[j]
  <2>1. i \in 1 .. k /\ j \in 1 .. k + 1
    BY <1>8, <1>11
  <2>2. CASE j = k + 1
    BY <1>8, <1>9, <2>1, <2>2
  <2>3. CASE j # k + 1
    <3>1. j \in 1 .. k
      BY <1>8, <2>1, <2>3
    <3> QED BY <1>8, <1>9, <1>11, <2>1, <3>1
  <2> QED BY <2>2, <2>3
<1> QED BY <1>1, <1>3, <1>10, <1>11 DEF Assigns, InTurn, Parsing, Building

LEMMA EndCommandAssigns ==
    ASSUME Typed, Assigns, EndCommand
    PROVE  Assigns'
<1>1. /\ pc \in Building /\ pc' = "joint" /\ ast' = Append(ast, cmd) /\ line' = line
      /\ var' = [v \in Var |-> IF Assigned(v) = {} THEN var[v]
                               ELSE CHOOSE t \in Assigned(v) : TRUE]
  BY DEF EndCommand, Stay, Building
<1>2. InTurn /\ SetRight
  BY <1>1 DEF Assigns, Parsing
<1>3. /\ ast \in Seq(Commands) /\ cmd \in Commands /\ Len(ast) \in Nat
      /\ Len(line) \in Nat \ {0}
  BY DEF Typed, TypeOK
<1>4. /\ Len(ast') = Len(ast) + 1 /\ ast'[Len(ast) + 1] = cmd
      /\ \A n \in 1 .. Len(ast) : ast'[n] = ast[n]
  BY <1>1, <1>3
<1>5. ASSUME NEW p PROVE Kept(p)' <=> Kept(p) \/ p \in ToSet(cmd.assigns)
  <2>1. Kept(p)' <=> \E n \in 1 .. Len(ast) + 1 : p \in ToSet(ast'[n].assigns)
    BY <1>4 DEF Kept
  <2>2. 1 .. Len(ast) + 1 = (1 .. Len(ast)) \cup {Len(ast) + 1}
    BY <1>3
  <2> QED BY <1>4, <2>1, <2>2 DEF Kept
<1>6. cmd.assigns \in Seq(Position) /\ DOMAIN cmd.assigns = 1 .. Len(cmd.assigns)
      /\ Len(cmd.assigns) \in Nat
  BY <1>3 DEF Commands
<1>7. \A i \in DOMAIN cmd.assigns :
         /\ cmd.assigns[i] \in Position /\ cmd.assigns[i] < Len(line)
         /\ TypeOf[line[cmd.assigns[i]]] = "assign"
         /\ \A p \in Position : Kept(p) => p < cmd.assigns[i]
  BY <1>1, <1>2, <1>6 DEF InTurn
<1>8. \A i, j \in DOMAIN cmd.assigns : i < j => cmd.assigns[i] < cmd.assigns[j]
  BY <1>1, <1>2 DEF InTurn
<1>9. \A p \in Position : Kept(p) => p < Len(line)
  BY <1>2 DEF InTurn
<1>10. \A p \in Position' : Kept(p)' => p < Len(line')
  BY <1>1, <1>5, <1>7, <1>9 DEF ToSet, Position
<1>11. SetRight'
  <2> SUFFICES ASSUME NEW v \in Var, AssignedTo(v)' # {}
               PROVE  \E p \in AssignedTo(v)' : var'[v] = line'[p]
                                                /\ \A q \in AssignedTo(v)' : q <= p
    BY DEF SetRight, LastOf
  <2> DEFINE to == {n \in DOMAIN cmd.assigns : NameOf[line[cmd.assigns[n]]] = v}
  <2>1. AssignedTo(v) = {p \in Position : TypeOf[line[p]] = "assign" /\ NameOf[line[p]] = v
                                          /\ Kept(p)}
    BY DEF AssignedTo, Kept
  <2>2. AssignedTo(v)' = {p \in Position : TypeOf[line[p]] = "assign"
                                           /\ NameOf[line[p]] = v /\ Kept(p)'}
    BY <1>1 DEF AssignedTo, Kept, Position
  <2>3. Assigned(v) = IF to = {} THEN {} ELSE {line[cmd.assigns[n]] : n \in {Max(to)}}
    BY DEF Assigned
  <2>4. /\ \A n \in to : n \in DOMAIN cmd.assigns /\ NameOf[line[cmd.assigns[n]]] = v
        /\ \A n \in DOMAIN cmd.assigns : NameOf[line[cmd.assigns[n]]] = v => n \in to
        /\ to \in SUBSET (1 .. Len(cmd.assigns))
    BY <1>6
  <2> HIDE DEF to
  <2>5. CASE to = {}
    <3>1. AssignedTo(v)' = AssignedTo(v)
      BY <1>5, <2>1, <2>2, <2>4, <2>5 DEF ToSet
    <3>2. var'[v] = var[v]
      BY <1>1, <2>3, <2>5
    <3>3. LastOf(AssignedTo(v), v)
      BY <1>2, <3>1 DEF SetRight
    <3> QED BY <1>1, <3>1, <3>2, <3>3 DEF LastOf
  <2>6. CASE to # {}
    <3>1. PICK m \in to : \A n \in to : n <= m
      BY <1>6, <2>4, <2>6, Greatest
    <3>2. to \in SUBSET Nat
      BY <2>4
    <3>3. Max(to) = m
      BY <3>1, <3>2, MaxIs
    <3> DEFINE p == cmd.assigns[m]
    <3>4. Assigned(v) = {line[p]}
      BY <2>3, <2>6, <3>3
    <3>5. var'[v] = line[p]
      BY <1>1, <3>4
    <3>6. m \in DOMAIN cmd.assigns /\ NameOf[line[p]] = v
      BY <2>4, <3>1
    <3>7. p \in AssignedTo(v)'
      <4>1. p \in ToSet(cmd.assigns) /\ p \in Position /\ TypeOf[line[p]] = "assign"
        BY <1>7, <3>6 DEF ToSet
      <4> QED BY <1>5, <2>2, <3>6, <4>1
    <3>8. ASSUME NEW q \in AssignedTo(v)' PROVE q <= p
      <4>1. q \in Position /\ NameOf[line[q]] = v /\ Kept(q)'
        BY <2>2, <3>8
      <4>2. p \in Position
        BY <1>7, <3>6
      <4>3. CASE Kept(q)
        <5>1. q < p
          BY <1>7, <3>6, <4>1, <4>3
        <5> QED BY <4>1, <4>2, <5>1 DEF Position
      <4>4. CASE q \in ToSet(cmd.assigns)
        <5>1. PICK n \in DOMAIN cmd.assigns : q = cmd.assigns[n]
          BY <4>4 DEF ToSet
        <5>2. n \in to
          BY <2>4, <4>1, <5>1
        <5>3. n <= m /\ n \in Nat /\ m \in Nat
          BY <3>1, <3>2, <5>2
        <5>4. CASE n = m
          BY <4>1, <5>1, <5>4 DEF Position
        <5>5. CASE n # m
          <6>1. n < m
            BY <5>3, <5>5
          <6>2. q < p
            BY <1>8, <3>6, <5>1, <6>1
          <6> QED BY <4>1, <4>2, <6>2 DEF Position
        <5> QED BY <5>4, <5>5
      <4> QED BY <1>5, <4>1, <4>3, <4>4
    <3> QED BY <1>1, <3>5, <3>7, <3>8
  <2> QED BY <2>5, <2>6
<1> QED BY <1>1, <1>10, <1>11 DEF Assigns, InTurn, Parsing, Building

(* A tree that Fail returns has fewer commands than the line. *)
LEMMA FailShort ==
    ASSUME Typed, Tree, Fail
    PROVE  Len(ast') # Spans(line')
<1>1. /\ pc \in {"file", "piped"} /\ ast' = SubSeq(ast, 1, items) /\ line' = line
  BY DEF Fail, Stay
<1>2. Len(ast) + 1 = Spans(line)
  BY <1>1 DEF Tree, Parsing, Building, ReadSoFar
<1>3. items \in 0 .. Len(ast) /\ ast \in Seq(Commands) /\ Len(ast) \in Nat
  BY DEF Typed, TypeOK
<1>4. Len(ast') = items
  BY <1>1, <1>3
<1> QED BY <1>1, <1>2, <1>3, <1>4

LEMMA AssignsNext == Typed /\ Tree /\ Assigns /\ [Next]_parser => Assigns'
<1> SUFFICES ASSUME Typed, Tree, Assigns, [Next]_parser PROVE Assigns'
  OBVIOUS
<1>1. CASE Call
  <2>1. ast' = <<>> /\ pc' = "start" /\ cmd' = NewCommand("first")
    BY <1>1 DEF Call
  <2>2. \A p : ~Kept(p)'
    <3>1. Len(ast') = 0
      BY <2>1
    <3> QED BY <3>1 DEF Kept
  <2>3. \A v \in Var : AssignedTo(v)' = {}
    BY <2>2 DEF AssignedTo, Kept
  <2>4. cmd'.assigns = <<>>
    BY <2>1 DEF NewCommand
  <2> QED BY <2>1, <2>2, <2>3, <2>4 DEF Assigns, InTurn, SetRight
<1>2. CASE SkipNewline \/ RedirNb \/ RedirOp
  <2>1. /\ pc \in Building /\ pc' \in Building /\ Consume /\ TypeOf[curr] # "eof"
        /\ UNCHANGED <<cmd, ast, var>>
    BY <1>2 DEF SkipNewline, RedirNb, RedirOp, tree, Building
  <2> QED BY <2>1, AssignsKept DEF Parsing
<1>3. CASE Word \/ RedirFile
  <2>1. /\ pc \in Building /\ pc' \in Building /\ Consume /\ TypeOf[curr] # "eof"
        /\ UNCHANGED <<ast, var>>
        /\ \/ cmd' = [cmd EXCEPT !.words = Append(@, Len(line))]
           \/ cmd' = [cmd EXCEPT !.redirs = Append(@, Len(line))]
    BY <1>3 DEF Word, RedirFile, Building, IsWord
  <2>2. cmd \in Commands
    BY DEF Typed, TypeOK
  <2>3. cmd'.assigns = cmd.assigns
    BY <2>1, <2>2 DEF Commands
  <2> QED BY <2>1, <2>3, AssignsKept DEF Parsing
<1>4. CASE Pipe \/ AndOr \/ Semi
  <2>1. /\ pc = "joint" /\ pc' \in Parsing /\ Consume /\ TypeOf[curr] # "eof"
        /\ UNCHANGED <<ast, var>>
        /\ pc' = "semi" \/ cmd' = NewCommand(TypeOf[curr])
    BY <1>4 DEF Pipe, AndOr, Semi, Parsing, Building
  <2>2. pc' \in Building => cmd'.assigns = <<>>
    BY <2>1 DEF NewCommand, Building
  <2> QED BY <2>1, <2>2, AssignsKept DEF Parsing
<1>5. CASE Descend
  <2>1. /\ pc \in Building /\ pc' = "prefix" /\ UNCHANGED <<line, cmd, ast, var>>
    BY <1>5 DEF Descend, Stay, tree, Building
  <2> QED BY <2>1 DEF Assigns, InTurn, SetRight, LastOf, AssignedTo, Kept, Position,
                      Parsing, Building
<1>6. CASE NextItem
  <2>1. /\ pc = "semi" /\ pc' = "prefix" /\ cmd' = NewCommand("semi")
        /\ UNCHANGED <<line, ast, var>>
    BY <1>6 DEF NextItem, Stay
  <2>2. cmd'.assigns = <<>>
    BY <2>1 DEF NewCommand
  <2> QED BY <2>1, <2>2 DEF Assigns, InTurn, SetRight, LastOf, AssignedTo, Kept, Position,
                            Parsing, Building
<1>7. CASE Return
  <2>1. /\ pc \in {"joint", "semi"} /\ pc' = "return" /\ UNCHANGED <<line, ast, var>>
    BY <1>7 DEF Return, Stay
  <2> QED BY <2>1 DEF Assigns, SetRight, LastOf, AssignedTo, Kept, Position,
                      Parsing, Building
<1>8. CASE Fail
  <2>1. pc' \in {"null", "return"}
    BY <1>8 DEF Fail
  <2> QED BY <1>8, <2>1, FailShort DEF Assigns, Parsing, Building
<1>9. CASE NoInput \/ DoubleSemi \/ SkipLine \/ LineSkipped
  <2>1. pc' \in {"null", "double"}
    BY <1>9 DEF NoInput, DoubleSemi, SkipLine, LineSkipped
  <2> QED BY <2>1 DEF Assigns, Parsing, Building
<1>10. CASE UNCHANGED parser
  BY <1>10 DEF parser, tree, Assigns, InTurn, SetRight, LastOf, AssignedTo, Kept, Position
<1> QED BY <1>1, <1>2, <1>3, <1>4, <1>5, <1>6, <1>7, <1>8, <1>9, <1>10,
           AssignmentAssigns, EndCommandAssigns DEF Next, ParseStep

LEMMA AssignsInit == Init => Assigns
<1> SUFFICES ASSUME Init PROVE Assigns
  OBVIOUS
<1>1. pc = "return" /\ ast = <<>>
  BY DEF Init
<1>2. Len(ast) = 0
  BY <1>1
<1>3. \A v \in Var : AssignedTo(v) = {}
  BY <1>2 DEF AssignedTo
<1> QED BY <1>1, <1>3 DEF Assigns, SetRight, Parsing, Building

(* LastAssignmentWins: whatever commands the assignments of a line are in, *)
(* the last of them to a variable is the one it has when the line is run.  *)
THEOREM LastOneWins == Spec => []LastAssignmentWins
<1>1. Spec => [](Typed /\ Tree /\ Assigns)
  BY TypedInit, TreeInit, AssignsInit, TypedNext, TreeNext, AssignsNext, PTL DEF Spec
<1>2. ASSUME Typed, Assigns PROVE LastAssignmentWins
  <2> SUFFICES ASSUME pc = "return", Len(ast) = Spans(line), NEW v \in Var, AssignedTo(v) # {}
               PROVE  var[v] = line[Max(AssignedTo(v))]
    BY DEF LastAssignmentWins
  <2>1. PICK p \in AssignedTo(v) : var[v] = line[p] /\ \A q \in AssignedTo(v) : q <= p
    BY <1>2 DEF Assigns, SetRight, LastOf
  <2>2. AssignedTo(v) \in SUBSET Nat
    <3>1. Position \subseteq Nat
      BY DEF Position
    <3> QED BY <3>1 DEF AssignedTo
  <2>3. Max(AssignedTo(v)) = p
    BY <2>1, <2>2, MaxIs
  <2> QED BY <2>1, <2>3
<1>3. Typed /\ Tree /\ Assigns => LastAssignmentWins
  BY <1>2
<1> QED BY <1>1, <1>3, PTL

=============================================================================
