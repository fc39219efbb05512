--------------------------- MODULE CommandProofs ---------------------------
(***************************************************************************)
(* The buffer of expand holds what is put there and the NUL behind it, and *)
(* its indices stay on the word, for every word and all variables, called  *)
(* by exec_command and echo or in any other order.  What is in it, with    *)
(* what is left of a value, is at any time what the word up to idx means,  *)
(* so that expand answers with what the whole word means.  Then what the   *)
(* callers make of it: the arguments so far are what the words so far      *)
(* mean, and what echo has printed is at any time what the words up to k   *)
(* mean.  Last, what a word means does not change when characters that are *)
(* only copied are put in between or taken away, outside of its references *)
(* (SpreadReads).                                                          *)
(***************************************************************************)
EXTENDS Command, FiniteSetTheorems, SequenceTheorems, WellFoundedInduction, TLAPS

LEMMA WordAt ==
    ASSUME word \in Seq(Char), NEW p \in Nat \ {0}
    PROVE  /\ p <= Len(word) => CharAt(p) \in Char
           /\ p > Len(word) => CharAt(p) = "nul"
           /\ CharAt(p) # "nul" => p <= Len(word)
BY CharAssumption DEF CharAt

(* Beyond never goes further than to the terminating NUL. *)
LEMMA BeyondRange ==
    ASSUME word \in Seq(Char), NEW p \in 1 .. Len(word) + 1, NEW S
    PROVE  Beyond(p, S) \in p .. Len(word) + 1
<1> DEFINE Q == {q \in p .. Len(word) : \A r \in p .. q : word[r] \in S}
<1>1. Len(word) \in Int /\ p \in Int
  OBVIOUS
<1>2. IsFiniteSet(p .. Len(word))
      /\ Cardinality(p .. Len(word)) = IF p > Len(word) THEN 0 ELSE Len(word) - p + 1
  BY <1>1, FS_Interval, Zenon
<1>3. Q \subseteq p .. Len(word)
  OBVIOUS
<1>4. Cardinality(Q) \in Nat /\ Cardinality(Q) <= Cardinality(p .. Len(word))
  BY <1>2, <1>3, FS_Subset, FS_CardinalityType, Zenon
<1>5. Beyond(p, S) = p + Cardinality(Q)
  BY DEF Beyond
<1> HIDE DEF Q
<1> QED BY <1>1, <1>2, <1>4, <1>5

(* A closing brace is part of the word. *)
LEMMA PastRange ==
    ASSUME word \in Seq(Char), NEW p \in 1 .. Len(word) + 1
    PROVE  Past(p) \in 1 .. Len(word) + 1
<1>1. CharAt(p) = "rb" => p <= Len(word)
  BY WordAt
<1> QED BY <1>1 DEF Past

LEMMA MiddleLen ==
    ASSUME NEW w \in Seq(Char), Len(w) >= 2
    PROVE  Len(SubSeq(w, 2, Len(w) - 1)) = Len(w) - 2
<1>1. PICK n \in Nat : n = Len(w)
  OBVIOUS
<1>2. \A i \in 2 .. n - 1 : w[i] \in Char
  BY <1>1
<1>3. n - 1 \in Int /\ 2 \in Int
  BY <1>1
<1>4. Len(SubSeq(w, 2, n - 1)) = IF 2 <= n - 1 THEN (n - 1) - 2 + 1 ELSE 0
  BY <1>2, <1>3, SubSeqProperties, SMT
<1>5. (IF 2 <= n - 1 THEN (n - 1) - 2 + 1 ELSE 0) = n - 2
  BY <1>1
<1> QED BY <1>1, <1>4, <1>5, Zenon

LEMMA ValueType == \A name : Value(name) \in Seq(Char)
<1>1. <<>> \in Seq(Char)
  OBVIOUS
<1> QED BY <1>1, ValueAssumption DEF Value
-----------------------------------------------------------------------------
(* The buffer is larger than what is in it, and stays so when it grows. *)
Empty == xpc = "start" => res = <<>>
XInv == XTypeOK /\ InBounds /\ Empty

LEMMA PutType ==
    ASSUME XInv, xpc = "loop", NEW c \in Char, Put(c)
    PROVE  res' \in Seq(Char) /\ sz' \in Nat /\ Len(res') < sz'
<1>1. res \in Seq(Char) /\ sz \in Nat /\ Len(res) < sz
  BY DEF XInv, XTypeOK, InBounds, Empty
<1>2. res' = Append(res, c) /\ sz' = IF Len(res) >= sz - 1 THEN sz * 2 ELSE sz
  BY DEF Put
<1>3. res' \in Seq(Char) /\ Len(res') = Len(res) + 1 /\ Len(res) \in Nat
  BY <1>1, <1>2
<1>4. sz' \in Nat /\ (Len(res) + 1 < sz' \/ (Len(res) >= sz - 1 /\ sz' = sz * 2))
  BY <1>1, <1>2, <1>3
<1>5. ASSUME Len(res) >= sz - 1, sz' = sz * 2
      PROVE  sz' \in Nat /\ Len(res) + 1 < sz'
  BY <1>1, <1>3, <1>5
<1> QED BY <1>1, <1>2, <1>3, <1>5

(* A reference leaves the buffer as it is and has a value of characters. *)
LEMMA ReferType ==
    ASSUME XInv, xpc = "loop", NEW v \in Seq(Char), NEW p \in 1 .. Len(word) + 1,
           Refer(v, p)
    PROVE  XInv'
BY DEF XInv, XTypeOK, InBounds, Empty, Refer

LEMMA KeepType ==
    ASSUME XInv, xpc = "loop", idx <= Len(word), NEW c \in Char, Keep(c)
    PROVE  XInv'
<1>1. Put(c) /\ idx' = idx + 1 /\ xpc' = xpc /\ word' = word /\ rest' = rest
  BY DEF Keep
<1>2. res' \in Seq(Char) /\ sz' \in Nat /\ Len(res') < sz'
  BY <1>1, PutType
<1>3. idx' \in 1 .. Len(word) + 1
  BY <1>1 DEF XInv, XTypeOK
<1> QED BY <1>1, <1>2, <1>3 DEF XInv, XTypeOK, InBounds, Empty

LEMMA Initially == XInit => XInv
BY DEF XInit, XInv, XTypeOK, InBounds, Empty

LEMMA CallType == ASSUME XInv, NEW w \in Seq(Char), Call(w) PROVE XInv'
BY DEF XInv, XTypeOK, InBounds, Empty, Call

LEMMA TakenType == ASSUME XInv, Taken PROVE XInv'
BY DEF XInv, XTypeOK, InBounds, Empty, Taken

LEMMA StepType == ASSUME XInv, XStep PROVE XInv'
<1>0. /\ word \in Seq(Char) /\ idx \in 1 .. Len(word) + 1 /\ Len(word) \in Nat
      /\ rest \in Seq(Char) /\ res \in Seq(Char) /\ sz \in Nat
  BY DEF XInv, XTypeOK
<1>a. CharAt(idx) # "nul" => idx <= Len(word)
  BY <1>0, WordAt
<1>b. "dollar" \in Char
  BY DEF Char, Mark
<1>c. /\ CharAt(idx) = "dollar" => idx + 1 \in 1 .. Len(word) + 1
      /\ CharAt(idx) = "dollar" /\ Behind = "lb" => idx + 2 \in 1 .. Len(word) + 1
      /\ CharAt(idx) = "dollar" /\ Behind = "quest" => idx + 2 \in 1 .. Len(word) + 1
      /\ CharAt(idx) = "dollar" /\ Behind = "lb" /\ CharAt(idx + 2) = "quest"
            => idx + 3 \in 1 .. Len(word) + 1
  <2>1. idx \in Nat \ {0} /\ idx + 1 \in Nat \ {0} /\ idx + 2 \in Nat \ {0}
    BY <1>0
  <2>2. /\ CharAt(idx) # "nul" => idx <= Len(word)
        /\ CharAt(idx + 1) # "nul" => idx + 1 <= Len(word)
        /\ CharAt(idx + 2) # "nul" => idx + 2 <= Len(word)
    BY <1>0, <2>1, WordAt
  <2>3. "nul" # "dollar" /\ "nul" # "lb" /\ "nul" # "quest"
    OBVIOUS
  <2> HIDE DEF CharAt
  <2> QED BY <1>0, <2>1, <2>2, <2>3, SMT DEF Behind
<1>1. CASE Strip
  <2>1. Len(word) >= 2 /\ res' = SubSeq(word, 2, Len(word) - 1) /\ sz' = Len(word) - 1
        /\ xpc' = "done" /\ word' = word /\ idx' = idx /\ rest' = rest
    BY <1>1 DEF Strip, InQuotes
  <2>2. SubSeq(word, 2, Len(word) - 1) \in Seq(Char)
    BY <1>0, <2>1
  <2>3. Len(SubSeq(word, 2, Len(word) - 1)) = Len(word) - 2
    BY <1>0, <2>1, MiddleLen
  <2> QED BY <1>0, <2>1, <2>2, <2>3 DEF XInv, XTypeOK, InBounds, Empty
<1>2. CASE InitCtx
  <2>1. xpc = "start" /\ xpc' = "loop" /\ sz' = Len(word) * 2 + Slack
        /\ word' = word /\ idx' = idx /\ rest' = rest /\ res' = res
    BY <1>2 DEF InitCtx
  <2> QED BY <1>0, <2>1, SlackAssumption DEF XInv, XTypeOK, InBounds, Empty
<1>3. CASE Escape
  BY <1>3, <1>a, <1>b, KeepType DEF Escape, Looping
<1>4. CASE Ordinary
  <2>1. CharAt(idx) \in Char /\ idx <= Len(word)
    BY <1>0, <1>4, <1>a, WordAt DEF Ordinary
  <2> QED BY <1>4, <2>1, KeepType DEF Ordinary, Looping
<1>5. CASE LoneDollar
  BY <1>5, <1>a, <1>b, KeepType DEF LoneDollar, Looping
<1>6. CASE Name
  <2> DEFINE end == Beyond(idx + 1, Alpha \cup Numeric)
  <2>1. xpc = "loop" /\ CharAt(idx) = "dollar"
        /\ Refer(Value(SubSeq(word, idx + 1, end - 1)), end)
    BY <1>6 DEF Name, Looping
  <2>2. end \in 1 .. Len(word) + 1
    BY <1>0, <1>c, <2>1, BeyondRange
  <2> HIDE DEF end
  <2> QED BY <2>1, <2>2, ReferType, ValueType
<1>7. CASE ExitStatus
  <2>1. xpc = "loop" /\ CharAt(idx) = "dollar" /\ Behind = "quest" /\ Refer(Status, idx + 2)
    BY <1>7 DEF ExitStatus, Looping
  <2> QED BY <1>c, <2>1, ReferType, ValueAssumption
<1>8. CASE BracedStatus
  <2>1. xpc = "loop" /\ CharAt(idx) = "dollar" /\ Behind = "lb" /\ CharAt(idx + 2) = "quest"
        /\ Refer(Status, Past(idx + 3))
    BY <1>8 DEF BracedStatus, Looping
  <2>2. Past(idx + 3) \in 1 .. Len(word) + 1
    BY <1>0, <1>c, <2>1, PastRange
  <2> QED BY <2>1, <2>2, ReferType, ValueAssumption
<1>9. CASE Braced
  <2> DEFINE end  == Beyond(idx + 2, Char \ {"rb"})
             name == SubSeq(word, idx + 2, end - 1)
             v    == IF name = <<>> THEN <<>> ELSE Value(name)
  <2>1. xpc = "loop" /\ CharAt(idx) = "dollar" /\ Behind = "lb" /\ Refer(v, Past(end))
    BY <1>9 DEF Braced, Looping
  <2>2. end \in idx + 2 .. Len(word) + 1
    BY <1>0, <1>c, <2>1, BeyondRange
  <2>3. end \in 1 .. Len(word) + 1
    BY <1>0, <2>2
  <2>4. Past(end) \in 1 .. Len(word) + 1
    BY <1>0, <2>3, PastRange
  <2>5. v \in Seq(Char)
    BY ValueType
  <2> HIDE DEF end, name, v
  <2> QED BY <2>1, <2>4, <2>5, ReferType
<1>10. CASE Copy
  <2>1. xpc = "loop" /\ rest # <<>> /\ Put(Head(rest)) /\ rest' = Tail(rest)
        /\ xpc' = xpc /\ word' = word /\ idx' = idx
    BY <1>10 DEF Copy
  <2>2. Head(rest) \in Char /\ Tail(rest) \in Seq(Char)
    BY <1>0, <2>1
  <2>3. res' \in Seq(Char) /\ sz' \in Nat /\ Len(res') < sz'
    BY <2>1, <2>2, PutType
  <2> QED BY <1>0, <2>1, <2>2, <2>3 DEF XInv, XTypeOK, InBounds, Empty
<1>11. CASE Finish
  BY <1>11 DEF Finish, Looping, XInv, XTypeOK, InBounds, Empty
<1> QED
  BY <1>1, <1>2, <1>3, <1>4, <1>5, <1>6, <1>7, <1>8, <1>9, <1>10, <1>11 DEF XStep

LEMMA Unchanged == ASSUME XInv, UNCHANGED xvars PROVE XInv'
BY DEF XInv, XTypeOK, InBounds, Empty, xvars

LEMMA Inductive == XSpec => []XInv
<1>1. XInv /\ [XNext]_xvars => XInv'
  BY CallType, StepType, TakenType, Unchanged DEF XNext
<1> QED BY Initially, <1>1, PTL DEF XSpec

(* The indices of expand never leave the word and its NUL, whatever $, {   *)
(* and } are in it and wherever it ends (expansion.c:13, 109-154).         *)
THEOREM IndicesInWord == XSpec => []XTypeOK
<1>1. XInv => XTypeOK
  BY DEF XInv
<1> QED BY Inductive, <1>1, PTL

(* expand never writes behind its buffer, however much longer the values   *)
(* are than the word (expansion.c:49, 96, 242, 363).                       *)
THEOREM BufferHolds == XSpec => []InBounds
<1>1. XInv => InBounds
  BY DEF XInv
<1> QED BY Inductive, <1>1, PTL
-----------------------------------------------------------------------------
(* exec_command and echo call expand with words of characters only: what   *)
(* the parser left, and what expand itself has answered.                   *)
WordsType ==
    /\ XInv
    /\ argv \in Seq(Seq(Char))
    /\ exp \in Seq(Seq(Char))
    /\ k \in Nat \ {0}

LEMMA WordsInit == Init => WordsType
<1>1. <<>> \in Seq(Seq(Char))
  OBVIOUS
<1> QED BY <1>1, Initially DEF Init, WordsType

(* What expand does in a step of a command. *)
LEMMA StepOfExpand == ASSUME WordsType, [Next]_vars PROVE [XNext]_xvars
<1> USE DEF WordsType
<1>1. ASSUME NEW c, NEW a, Enter(c, a) PROVE UNCHANGED xvars
  BY <1>1 DEF Enter
<1>2. ASSUME ExpandArg PROVE XNext
  <2>1. Len(exp) + 1 \in DOMAIN argv /\ Call(argv[Len(exp) + 1])
    BY <1>2 DEF ExpandArg
  <2> QED BY <2>1 DEF XNext
<1>3. ASSUME ArgExpanded \/ EchoPrint PROVE XNext
  BY <1>3 DEF ArgExpanded, EchoPrint, XNext
<1>4. ASSUME Dispatch \/ Flag \/ FlagsEnd \/ EchoEnd PROVE UNCHANGED xvars
  BY <1>4, Zenon DEF Dispatch, Flag, FlagsEnd, EchoEnd
<1>5. ASSUME EchoExpand PROVE XNext
  <2>1. k \in DOMAIN exp /\ Call(exp[k])
    BY <1>5 DEF EchoExpand
  <2> QED BY <2>1 DEF XNext
<1>6. ASSUME XStep PROVE XNext
  BY <1>6 DEF XNext
<1>7. ASSUME UNCHANGED vars PROVE UNCHANGED xvars
  BY <1>7 DEF vars
<1> QED BY <1>1, <1>2, <1>3, <1>4, <1>5, <1>6, <1>7, Zenon DEF Next, CommandStep

LEMMA WordsNext == ASSUME WordsType, [Next]_vars PROVE WordsType'
<1>1. XInv'
  BY StepOfExpand, CallType, StepType, TakenType, Unchanged DEF WordsType, XNext
<1> USE DEF WordsType
<1>2. ASSUME NEW c, NEW a \in Seq(Seq(Char)), Enter(c, a) PROVE WordsType'
  BY <1>1, <1>2 DEF Enter
<1>3. ASSUME ArgExpanded PROVE WordsType'
  <2>1. res \in Seq(Char) /\ exp' = Append(exp, res) /\ argv' = argv /\ k' = k
    BY <1>3 DEF ArgExpanded, XInv, XTypeOK
  <2> QED BY <1>1, <2>1
<1>4. ASSUME Flag PROVE WordsType'
  <2>1. argv' = argv /\ exp' = exp /\ k' \in {k, k + 1}
    BY <1>4, Zenon DEF Flag
  <2> QED BY <1>1, <2>1
<1>5. ASSUME EchoPrint PROVE WordsType'
  BY <1>1, <1>5 DEF EchoPrint
<1>6. ASSUME UNCHANGED <<argv, exp, k>> PROVE WordsType'
  BY <1>1, <1>6
<1> HIDE DEF WordsType
<1>7. ASSUME ExpandArg \/ Dispatch \/ FlagsEnd \/ EchoExpand \/ EchoEnd
      PROVE  WordsType'
  BY <1>6, <1>7 DEF ExpandArg, Dispatch, FlagsEnd, EchoExpand, EchoEnd, cvars
<1>8. ASSUME UNCHANGED cvars PROVE WordsType'
  BY <1>6, <1>8 DEF cvars
<1>9. ASSUME UNCHANGED vars PROVE WordsType'
  BY <1>8, <1>9 DEF vars
<1> QED
  BY <1>2, <1>3, <1>4, <1>5, <1>7, <1>8, <1>9 DEF Next, CommandStep

LEMMA WordsHold == Spec => []WordsType
BY WordsInit, WordsNext, PTL DEF Spec

(* A command does nothing with expand but call it, let it run and take its *)
(* answer (exec.c:69, builtin.c:115).                                      *)
THEOREM CommandExpands == Spec => XSpec
<1>1. Init => XInit
  BY DEF Init
<1>2. WordsType /\ [Next]_vars => WordsType' /\ [XNext]_xvars
  BY WordsNext, StepOfExpand
<1> QED BY WordsInit, <1>1, <1>2, PTL DEF Spec, XSpec

(* Whatever the words of a command and the values of its variables are, no *)
(* write of expand is outside of its buffer (expansion.c:49).              *)
THEOREM CommandInBounds == Spec => []InBounds
BY CommandExpands, BufferHolds, PTL
-----------------------------------------------------------------------------
(* Recursive functions.  A set of numbers that has a member has a least    *)
(* one, which is how what follows reasons from each number to the next.    *)
LEMMA Least ==
    ASSUME NEW S \in SUBSET Nat, S # {}
    PROVE  \E m \in S : \A n \in S : m <= n
<1> DEFINE R == {ss \in Nat \X Nat : ss[1] < ss[2]}
<1>1. IsWellFoundedOn(R, Nat)
  BY NatLessThanWellFounded, Zenon DEF OpToRel
<1> HIDE DEF R
<1>2. PICK m \in S : \A n \in S : ~(<<n, m>> \in R)
  BY <1>1, WFMin
<1>3. ASSUME NEW n \in S PROVE m <= n
  <2>1. n < m => <<n, m>> \in R
    BY DEF R
  <2> QED BY <1>2, <2>1
<1> QED BY <1>3

(* A set that holds a and with each number the next holds all up to b. *)
LEMMA Climb ==
    ASSUME NEW a \in Nat, NEW b \in Nat, NEW S, a \in S,
           \A j \in a + 1 .. b : j - 1 \in S => j \in S
    PROVE  \A j \in a .. b : j \in S
<1> DEFINE Missing == {j \in a .. b : j \notin S}
<1>1. SUFFICES ASSUME Missing # {} PROVE FALSE
  OBVIOUS
<1>2. Missing \in SUBSET Nat
  OBVIOUS
<1>3. PICK m \in Missing : \A n \in Missing : m <= n
  BY <1>1, <1>2, Least, Zenon
<1>4. m \in a + 1 .. b /\ m - 1 \in a .. b /\ m - 1 < m
  BY <1>3
<1>5. m - 1 \notin Missing
  <2> HIDE DEF Missing
  <2> QED BY <1>3, <1>4
<1> QED BY <1>3, <1>4, <1>5

(* There is a function that begins with z and goes on by the steps of f. *)
Goes(g, n, z, f) == g[0] = z /\ \A j \in 1 .. n : g[j] = f[<<j, g[j - 1]>>]

LEMMA Chain ==
    ASSUME NEW T, NEW n \in Nat, NEW z \in T, NEW f \in [(1 .. n) \X T -> T]
    PROVE  \E g \in [0 .. n -> T] : Goes(g, n, z, f)
<1> DEFINE S == {m \in 0 .. n : \E g \in [0 .. m -> T] : Goes(g, m, z, f)}
<1>1. 0 \in S
  <2> DEFINE g == [j \in 0 .. 0 |-> z]
  <2>1. g \in [0 .. 0 -> T] /\ Goes(g, 0, z, f)
    BY DEF Goes
  <2> HIDE DEF g
  <2> QED BY <2>1
<1>2. ASSUME NEW m \in 0 + 1 .. n, m - 1 \in S PROVE m \in S
  <2>0. m \in 1 .. n /\ m - 1 \in 0 .. n /\ m \in 0 .. n /\ m - 1 \in 0 .. m - 1
    OBVIOUS
  <2>1. PICK g \in [0 .. m - 1 -> T] : Goes(g, m - 1, z, f)
    BY <1>2, Zenon
  <2> DEFINE v == f[<<m, g[m - 1]>>]
             h == [j \in 0 .. m |-> IF j = m THEN v ELSE g[j]]
  <2>2. v \in T
    <3>1. g[m - 1] \in T
      BY <2>0
    <3>2. <<m, g[m - 1]>> \in (1 .. n) \X T
      BY <2>0, <3>1
    <3> QED BY <3>2
  <2> HIDE DEF v
  <2>3. h \in [0 .. m -> T]
    <3>1. \A j \in 0 .. m : j # m => g[j] \in T
      BY <2>0
    <3> QED BY <2>2, <3>1
  <2>4. h[0] = z
    <3>1. g[0] = z
      BY <2>1 DEF Goes
    <3> QED BY <2>0, <3>1
  <2>5. ASSUME NEW j \in 1 .. m PROVE h[j] = f[<<j, h[j - 1]>>]
    <3>1. j - 1 \in 0 .. m /\ j - 1 # m /\ j \in 0 .. m
      BY <2>0
    <3>2. h[j - 1] = g[j - 1]
      BY <3>1
    <3>3. CASE j = m
      BY <3>1, <3>2, <3>3 DEF v
    <3>4. CASE j # m
      <4>1. j \in 1 .. m - 1 /\ h[j] = g[j]
        BY <2>0, <3>1, <3>4
      <4>2. g[j] = f[<<j, g[j - 1]>>]
        BY <2>1, <4>1 DEF Goes
      <4> QED BY <3>2, <4>1, <4>2
    <3> QED BY <3>3, <3>4
  <2>6. Goes(h, m, z, f)
    BY <2>4, <2>5 DEF Goes
  <2> HIDE DEF h
  <2> QED BY <2>0, <2>3, <2>6
<1>3. \A j \in 0 .. n : j \in S
  <2> HIDE DEF S
  <2>1. 0 \in Nat
    OBVIOUS
  <2> QED BY <1>1, <1>2, <2>1, Climb, Zenon
<1>4. n \in S
  <2> HIDE DEF S
  <2> QED BY <1>3
<1> QED BY <1>4

(* FlattenSeq puts one sequence after the other. *)
LEMMA Flat ==
    ASSUME NEW T, NEW s \in Seq(Seq(T))
    PROVE  \E g \in [0 .. Len(s) -> Seq(T)] :
               /\ g[0] = <<>>
               /\ \A j \in 1 .. Len(s) : g[j] = g[j - 1] \o s[j]
               /\ FlattenSeq(s) = g[Len(s)]
<1> DEFINE n == Len(s)
           f == [e \in (1 .. n) \X Seq(T) |-> e[2] \o s[e[1]]]
           Turn(h) == [i \in 1 .. n |-> IF i = 1 THEN s[i] ELSE h[i - 1] \o s[i]]
           flatten == CHOOSE h : h = Turn(h)
<1>0. n \in Nat /\ \A j \in 1 .. n : s[j] \in Seq(T)
  OBVIOUS
<1>1. f \in [(1 .. n) \X Seq(T) -> Seq(T)]
  <2>1. ASSUME NEW e \in (1 .. n) \X Seq(T) PROVE e[2] \o s[e[1]] \in Seq(T)
    <3>1. e[2] \in Seq(T) /\ s[e[1]] \in Seq(T)
      BY <1>0
    <3> QED BY <3>1
  <2> QED BY <2>1
<1>2. PICK g \in [0 .. n -> Seq(T)] : Goes(g, n, <<>>, f)
  <2>1. <<>> \in Seq(T)
    OBVIOUS
  <2>2. n \in Nat
    BY <1>0
  <2> HIDE DEF f, n
  <2> QED BY <1>1, <2>1, <2>2, Chain
<1>3. \A j \in 1 .. n : j - 1 \in 0 .. n /\ g[j] = g[j - 1] \o s[j]
  <2>1. ASSUME NEW j \in 1 .. n PROVE j - 1 \in 0 .. n /\ g[j] = g[j - 1] \o s[j]
    <3>0. j - 1 \in 0 .. n
      BY <1>0
    <3>1. g[j - 1] \in Seq(T)
      <4> HIDE DEF n
      <4> QED BY <3>0
    <3>2. <<j, g[j - 1]>> \in (1 .. n) \X Seq(T)
      BY <3>1
    <3>3. f[<<j, g[j - 1]>>] = g[j - 1] \o s[j]
      BY <3>2
    <3> QED BY <1>2, <3>0, <3>3 DEF Goes
  <2> QED BY <2>1
<1>b. g[0] = <<>>
  BY <1>2 DEF Goes
<1> HIDE DEF f
<1>4. CASE n = 0
  <2>1. FlattenSeq(s) = s /\ s = <<>>
    BY <1>4 DEF FlattenSeq
  <2> QED BY <1>0, <1>b, <1>3, <1>4, <2>1
<1>5. CASE n # 0
  <2>1. FlattenSeq(s) = flatten[n]
    BY <1>5 DEF FlattenSeq
  <2>2. flatten = Turn(flatten)
    <3> DEFINE h == [i \in 1 .. n |-> g[i]]
    <3>1. ASSUME NEW i \in 1 .. n PROVE g[i] = IF i = 1 THEN s[i] ELSE h[i - 1] \o s[i]
      <4>1. CASE i = 1
        <5>1. 1 \in 1 .. n /\ 1 - 1 = 0
          BY <1>0, <4>1
        <5>2. g[1] = g[0] \o s[1] /\ s[1] \in Seq(T)
          BY <1>0, <1>3, <5>1
        <5> QED BY <1>b, <4>1, <5>2
      <4>2. CASE i # 1
        <5>1. i - 1 \in 1 .. n
          BY <1>0, <4>2
        <5> QED BY <1>3, <4>2, <5>1
      <4> QED BY <4>1, <4>2
    <3>2. h = Turn(h)
      BY <3>1
    <3> HIDE DEF h, Turn
    <3> QED BY <3>2
  <2> HIDE DEF flatten
  <2>3. \A i \in 1 .. n : flatten[i] = IF i = 1 THEN s[i] ELSE flatten[i - 1] \o s[i]
    BY <2>2, Zenon
  <2> DEFINE S == {j \in 1 .. n : flatten[j] = g[j]}
  <2>4. 1 \in S
    <3>1. 1 \in 1 .. n /\ 1 - 1 = 0
      BY <1>0, <1>5
    <3>2. g[1] = <<>> \o s[1] /\ flatten[1] = s[1] /\ s[1] \in Seq(T)
      BY <1>0, <1>b, <1>3, <2>3, <3>1
    <3> QED BY <3>1, <3>2
  <2>5. ASSUME NEW j \in 1 + 1 .. n, j - 1 \in S PROVE j \in S
    <3>1. j \in 1 .. n /\ j # 1
      BY <1>0
    <3>2. flatten[j] = flatten[j - 1] \o s[j] /\ g[j] = g[j - 1] \o s[j]
      BY <1>3, <2>3, <3>1
    <3>3. flatten[j - 1] = g[j - 1]
      BY <2>5
    <3> QED BY <3>1, <3>2, <3>3
  <2>6. \A j \in 1 .. n : j \in S
    <3> HIDE DEF S
    <3>1. 1 \in Nat
      OBVIOUS
    <3> QED BY <1>0, <2>4, <2>5, <3>1, Climb, Zenon
  <2>7. n \in 1 .. n
    BY <1>0, <1>5
  <2>8. FlattenSeq(s) = g[n]
    BY <2>1, <2>6, <2>7
  <2> QED BY <1>b, <1>3, <2>8
<1> QED BY <1>4, <1>5
-----------------------------------------------------------------------------
(* How far the characters from p on are in S: so says the code's loop, and *)
(* so the reading of the word as a whole.                                  *)
LEMMA RunIs ==
    ASSUME NEW w \in Seq(Char), NEW p \in 1 .. Len(w) + 1, NEW S
    PROVE  \E m \in 0 .. Len(w) - p + 1 :
               /\ Asked!Run(w, p, S) = m
               /\ word = w => Beyond(p, S) = p + m
<1> DEFINE n == Len(w) - p + 1
           Ends == {m \in 0 .. n : m = n \/ w[p + m] \notin S}
<1>0. Len(w) \in Nat /\ n \in Nat /\ p \in Nat
  OBVIOUS
<1>1. Ends \in SUBSET Nat /\ Ends # {}
  <2>1. n \in Ends
    BY <1>0
  <2>2. Ends \in SUBSET Nat
    OBVIOUS
  <2> HIDE DEF Ends
  <2> QED BY <2>1, <2>2
<1>2. PICK m \in Ends : \A j \in Ends : m <= j
  <2> HIDE DEF Ends
  <2> QED BY <1>1, Least
<1>3. m \in 0 .. n /\ m \in Nat /\ (m = n \/ w[p + m] \notin S)
  BY <1>0, <1>2
<1>4. ASSUME NEW j \in 0 .. m - 1 PROVE w[p + j] \in S
  <2>1. j \in 0 .. n /\ j \notin Ends
    <3> HIDE DEF Ends
    <3> QED BY <1>0, <1>2, <1>3
  <2> QED BY <2>1
<1>5. \A q \in p .. p + m - 1 : w[q] \in S
  <2>1. ASSUME NEW q \in p .. p + m - 1 PROVE w[q] \in S
    <3>1. q - p \in 0 .. m - 1 /\ p + (q - p) = q
      BY <1>0, <1>3
    <3>2. w[p + (q - p)] \in S
      BY <1>4, <3>1
    <3> QED BY <3>1, <3>2
  <2> QED BY <2>1
<1> HIDE DEF Ends
<1>6. Asked!Run(w, p, S) = m
  <2> DEFINE Fit == {j \in 0 .. n : \A q \in p .. p + j - 1 : w[q] \in S}
  <2>1. m \in Fit
    BY <1>3, <1>5
  <2>2. ASSUME NEW j \in Fit PROVE m >= j
    <3>1. SUFFICES ASSUME j > m PROVE FALSE
      BY <1>0, <1>3
    <3>2. p + m \in p .. p + j - 1 /\ m # n
      BY <1>0, <1>3, <3>1
    <3> QED BY <1>3, <3>2
  <2>3. Asked!Run(w, p, S) = CHOOSE x \in Fit : \A y \in Fit : x >= y
    BY DEF Asked!Run, Asked!Max
  <2>4. \A j \in Fit : j \in Nat
    BY <1>0
  <2> HIDE DEF Fit
  <2>5. \A x \in Fit : (\A y \in Fit : x >= y) => x = m
    BY <1>3, <2>1, <2>2, <2>4
  <2> QED BY <2>1, <2>2, <2>3, <2>5
<1>7. ASSUME word = w PROVE Beyond(p, S) = p + m
  <2>1. {q \in p .. Len(word) : \A r \in p .. q : word[r] \in S} = p .. p + m - 1
    <3>1. ASSUME NEW q \in p .. Len(w), \A r \in p .. q : w[r] \in S
          PROVE  q \in p .. p + m - 1
      <4>1. m # n => ~(p + m \in p .. q)
        BY <1>3, <3>1
      <4> QED BY <1>0, <1>3, <4>1
    <3>2. ASSUME NEW q \in p .. p + m - 1
          PROVE  q \in p .. Len(w) /\ \A r \in p .. q : w[r] \in S
      <4>1. q \in p .. Len(w) /\ \A r \in p .. q : r \in p .. p + m - 1
        BY <1>0, <1>3
      <4> QED BY <1>5, <4>1
    <3> QED BY <1>7, <3>1, <3>2
  <2>2. Cardinality(p .. p + m - 1) = m
    <3>1. p \in Int /\ p + m - 1 \in Int
      BY <1>0, <1>3
    <3>2. Cardinality(p .. p + m - 1) = IF p > p + m - 1 THEN 0 ELSE (p + m - 1) - p + 1
      BY <3>1, FS_Interval, Zenon
    <3> QED BY <1>0, <1>3, <3>2
  <2> QED BY <2>1, <2>2 DEF Beyond
<1> QED BY <1>3, <1>6, <1>7

(* Reading's set of positions that a reference in front of them covers. *)
Size(w, p) == Asked!Reference(w, p).size
Covered(w) ==
    LET covered[p \in 1 .. Len(w)] ==
            \E q \in 1 .. p - 1 :
                w[q] = "dollar" /\ ~covered[q] /\ p < q + Asked!Reference(w, q).size
    IN  covered

LEMMA CoveredIs ==
    ASSUME NEW w \in Seq(Char)
    PROVE  \A p \in 1 .. Len(w) :
               Covered(w)[p] = \E q \in 1 .. p - 1 :
                   w[q] = "dollar" /\ ~Covered(w)[q] /\ p < q + Size(w, q)
<1> DEFINE n == Len(w)
           Hit(p, C) == \E q \in 1 .. p - 1 : w[q] = "dollar" /\ q \notin C /\ p < q + Size(w, q)
           f == [e \in (1 .. n) \X SUBSET (1 .. n) |->
                    IF Hit(e[1], e[2]) THEN e[2] \cup {e[1]} ELSE e[2]]
           Turn(h) == [p \in 1 .. n |-> \E q \in 1 .. p - 1 :
                          w[q] = "dollar" /\ ~h[q] /\ p < q + Asked!Reference(w, q).size]
<1>0. n \in Nat /\ {} \in SUBSET (1 .. n)
  OBVIOUS
<1>1. f \in [(1 .. n) \X SUBSET (1 .. n) -> SUBSET (1 .. n)]
  <2> HIDE DEF Hit
  <2> QED OBVIOUS
<1>2. PICK g \in [0 .. n -> SUBSET (1 .. n)] : Goes(g, n, {}, f)
  <2> HIDE DEF f, n
  <2> QED BY <1>0, <1>1, Chain
<1>3. ASSUME NEW j \in 1 .. n
      PROVE  /\ j - 1 \in 0 .. n /\ g[j - 1] \in SUBSET (1 .. n)
             /\ g[j] = IF Hit(j, g[j - 1]) THEN g[j - 1] \cup {j} ELSE g[j - 1]
  <2>1. j - 1 \in 0 .. n /\ g[j - 1] \in SUBSET (1 .. n)
    BY <1>0
  <2> HIDE DEF Hit
  <2>2. g[j] = f[<<j, g[j - 1]>>]
    BY <1>2 DEF Goes
  <2> QED BY <2>1, <2>2
<1> HIDE DEF f, Hit
<1>4. \A j \in 0 .. n : g[j] \subseteq 1 .. j
  <2> DEFINE S == {j \in 0 .. n : g[j] \subseteq 1 .. j}
  <2>1. 0 \in S
    BY <1>0, <1>2 DEF Goes
  <2>2. ASSUME NEW j \in 0 + 1 .. n, j - 1 \in S PROVE j \in S
    <3>1. j \in 1 .. n /\ j \in 0 .. n
      OBVIOUS
    <3>2. g[j - 1] \subseteq 1 .. j - 1
      BY <2>2
    <3>3. g[j] \subseteq g[j - 1] \cup {j}
      BY <1>3, <3>1
    <3> QED BY <3>1, <3>2, <3>3
  <2>3. \A j \in 0 .. n : j \in S
    <3> HIDE DEF S
    <3>1. 0 \in Nat
      OBVIOUS
    <3> QED BY <1>0, <2>1, <2>2, <3>1, Climb, Zenon
  <2> QED BY <2>3
<1>5. ASSUME NEW q \in 1 .. n PROVE \A j \in q .. n : q \in g[j] <=> q \in g[q]
  <2> DEFINE S == {j \in q .. n : q \in g[j] <=> q \in g[q]}
  <2>1. q \in S
    OBVIOUS
  <2>2. ASSUME NEW j \in q + 1 .. n, j - 1 \in S PROVE j \in S
    <3>1. j \in 1 .. n /\ j \in q .. n /\ q # j
      BY <1>0
    <3>2. q \in g[j] <=> q \in g[j - 1]
      BY <1>3, <3>1
    <3> QED BY <2>2, <3>1, <3>2
  <2>3. \A j \in q .. n : j \in S
    <3> HIDE DEF S
    <3>1. q \in Nat
      OBVIOUS
    <3> QED BY <1>0, <2>1, <2>2, <3>1, Climb, Zenon
  <2> QED BY <2>3
<1>6. \A p \in 1 .. n : p \in g[p] <=> Hit(p, g[p - 1])
  <2>1. ASSUME NEW p \in 1 .. n PROVE p \in g[p] <=> Hit(p, g[p - 1])
    <3>1. p - 1 \in 0 .. n /\ p \notin 1 .. p - 1
      BY <1>0
    <3>2. p \notin g[p - 1]
      BY <1>4, <3>1
    <3> QED BY <1>3, <3>2
  <2> QED BY <2>1
<1> DEFINE h == [p \in 1 .. n |-> p \in g[p]]
<1>7. h = Turn(h)
  <2>1. ASSUME NEW p \in 1 .. n
        PROVE  (p \in g[p]) = \E q \in 1 .. p - 1 :
                   w[q] = "dollar" /\ ~h[q] /\ p < q + Asked!Reference(w, q).size
    <3>1. \A q \in 1 .. p - 1 : q \in 1 .. n /\ p - 1 \in q .. n
      BY <1>0
    <3>2. \A q \in 1 .. p - 1 : (q \in g[p - 1]) <=> h[q]
      BY <1>5, <3>1
    <3> HIDE DEF h
    <3>3. (p \in g[p]) = Hit(p, g[p - 1])
      BY <1>6
    <3>4. \A q \in 1 .. p - 1 : (q \notin g[p - 1]) = ~h[q]
      BY <3>2
    <3> QED BY <3>3, <3>4, Zenon DEF Hit, Size
  <2> HIDE DEF n
  <2> QED BY <2>1
<1>8. Covered(w) = Turn(Covered(w))
  <2>1. Covered(w) = CHOOSE c : c = Turn(c)
    BY DEF Covered
  <2> HIDE DEF h, Turn
  <2> QED BY <1>7, <2>1
<1> HIDE DEF h
<1> QED BY <1>8, Zenon DEF Size

LEMMA AskedSame ==
    /\ Asked!Char = Char
    /\ \A name : Asked!Value(name) = Value(name)
    /\ \A s : Asked!FlattenSeq(s) = FlattenSeq(s)
BY DEF Asked!Char, Asked!Mark, Char, Mark, Asked!Value, Value, Asked!FlattenSeq, FlattenSeq

LEMMA ReferenceType ==
    ASSUME NEW w, NEW p
    PROVE  Asked!Reference(w, p).value \in Seq(Char)
<1>1. Status \in Seq(Char) /\ <<>> \in Seq(Char) /\ <<"dollar">> \in Seq(Char)
  <2>1. "dollar" \in Char
    BY DEF Char, Mark
  <2> QED BY <2>1, ValueAssumption
<1>2. \A name : Asked!Value(name) \in Seq(Char)
  BY AskedSame, ValueType
<1> QED BY <1>1, <1>2 DEF Asked!Reference

LEMMA SizeType ==
    ASSUME NEW w \in Seq(Char), NEW p \in 1 .. Len(w)
    PROVE  Size(w, p) \in Nat \ {0}
<1>0. /\ Len(w) \in Nat /\ p + 1 \in 1 .. Len(w) + 1
      /\ p + 1 <= Len(w) => p + 2 \in 1 .. Len(w) + 1
  OBVIOUS
<1>1. \A j \in 1 .. Len(w) + 1 : \A S : Asked!Run(w, j, S) \in Nat
  <2>1. ASSUME NEW j \in 1 .. Len(w) + 1, NEW S PROVE Asked!Run(w, j, S) \in Nat
    <3>1. \E m \in 0 .. Len(w) - j + 1 : Asked!Run(w, j, S) = m
      BY RunIs
    <3> QED BY <1>0, <3>1
  <2> QED BY <2>1
<1>2. \A j : Asked!Closing(w, j) \in {0, 1}
  BY DEF Asked!Closing
<1>3. \A S : Asked!Has(w, p + 1, S) => p + 1 <= Len(w)
  BY DEF Asked!Has
<1> DEFINE named == Asked!Run(w, p + 1, Alpha \cup Numeric)
           braced == Asked!Run(w, p + 2, Asked!Char \ {"rb"})
<1>4. /\ named \in Nat
      /\ p + 1 <= Len(w) => braced \in Nat
  BY <1>0, <1>1
<1>5. \/ Size(w, p) \in {2, 1, 1 + named, 3 + Asked!Closing(w, p + 3)}
      \/ p + 1 <= Len(w) /\ Size(w, p) = 2 + braced + Asked!Closing(w, p + 2 + braced)
  <2> HIDE DEF named, braced
  <2> QED BY <1>3 DEF Size, Asked!Reference, named, braced
<1> HIDE DEF named, braced
<1> QED BY <1>2, <1>4, <1>5

(* What the character at p adds to the answer. *)
Item(w, p) ==
    IF Covered(w)[p] THEN <<>>
    ELSE IF w[p] = "dollar" THEN Asked!Reference(w, p).value
    ELSE IF w[p] = "esc" THEN <<"dollar">>
    ELSE <<w[p]>>

LEMMA ItemType ==
    ASSUME NEW w \in Seq(Char), NEW p \in 1 .. Len(w)
    PROVE  Item(w, p) \in Seq(Char)
<1>1. "dollar" \in Char /\ w[p] \in Char
  BY DEF Char, Mark
<1>2. <<>> \in Seq(Char) /\ <<"dollar">> \in Seq(Char) /\ <<w[p]>> \in Seq(Char)
  BY <1>1
<1> QED BY <1>2, ReferenceType, Zenon DEF Item

LEMMA ReadingIs ==
    ASSUME NEW w \in Seq(Char)
    PROVE  Asked!Reading(w) = FlattenSeq([p \in 1 .. Len(w) |-> Item(w, p)])
<1>1. Asked!Reading(w) =
          Asked!FlattenSeq([p \in 1 .. Len(w) |->
              CASE Covered(w)[p] -> <<>>
                [] ~Covered(w)[p] /\ w[p] = "dollar" -> Asked!Reference(w, p).value
                [] ~Covered(w)[p] /\ w[p] = "esc" -> <<"dollar">>
                [] OTHER -> <<w[p]>>])
  BY Zenon DEF Asked!Reading, Covered
<1>2. ASSUME NEW p \in 1 .. Len(w)
      PROVE  (CASE Covered(w)[p] -> <<>>
                [] ~Covered(w)[p] /\ w[p] = "dollar" -> Asked!Reference(w, p).value
                [] ~Covered(w)[p] /\ w[p] = "esc" -> <<"dollar">>
                [] OTHER -> <<w[p]>>) = Item(w, p)
  BY DEF Item
<1> QED BY <1>1, <1>2, AskedSame

(* The answer for what is in front of each position. *)
Flows(g, w) ==
    /\ g[0] = <<>>
    /\ \A j \in 1 .. Len(w) : g[j] = g[j - 1] \o Item(w, j)
    /\ Asked!Reading(w) = g[Len(w)]
Upto(w) == CHOOSE g \in [0 .. Len(w) -> Seq(Char)] : Flows(g, w)

LEMMA UptoIs ==
    ASSUME NEW w \in Seq(Char)
    PROVE  /\ Upto(w) \in [0 .. Len(w) -> Seq(Char)]
           /\ Flows(Upto(w), w)
<1> DEFINE s == [p \in 1 .. Len(w) |-> Item(w, p)]
<1>1. s \in Seq(Seq(Char)) /\ Len(s) = Len(w) /\ \A j \in 1 .. Len(w) : s[j] = Item(w, j)
  BY ItemType
<1> HIDE DEF s
<1>2. PICK g \in [0 .. Len(s) -> Seq(Char)] :
          /\ g[0] = <<>>
          /\ \A j \in 1 .. Len(s) : g[j] = g[j - 1] \o s[j]
          /\ FlattenSeq(s) = g[Len(s)]
  BY <1>1, Flat
<1>3. Asked!Reading(w) = FlattenSeq(s)
  BY ReadingIs DEF s
<1>4. g \in [0 .. Len(w) -> Seq(Char)] /\ Flows(g, w)
  BY <1>1, <1>2, <1>3 DEF Flows
<1> QED BY <1>4, Zenon DEF Upto

Before(w, p) == Upto(w)[p - 1]

(* No reference in front of p reaches further than to p. *)
Clear(w, p) ==
    \A q \in 1 .. p - 1 : w[q] = "dollar" /\ ~Covered(w)[q] => q + Size(w, q) <= p

LEMMA ClearIsBare ==
    ASSUME NEW w \in Seq(Char), NEW p \in 1 .. Len(w), Clear(w, p)
    PROVE  ~Covered(w)[p]
<1>1. \A q \in 1 .. p - 1 : q \in 1 .. Len(w) /\ q \in Nat /\ Size(w, q) \in Nat
  <2>1. ASSUME NEW q \in 1 .. p - 1 PROVE q \in 1 .. Len(w) /\ q \in Nat
    OBVIOUS
  <2> QED BY <2>1, SizeType
<1>2. \A q \in 1 .. p - 1 : w[q] = "dollar" /\ ~Covered(w)[q] => ~(p < q + Size(w, q))
  BY <1>1 DEF Clear
<1> QED BY <1>2, CoveredIs

LEMMA PlainGoesOn ==
    ASSUME NEW w \in Seq(Char), NEW p \in 1 .. Len(w), Clear(w, p), w[p] # "dollar"
    PROVE  /\ Clear(w, p + 1)
           /\ Before(w, p + 1) = Before(w, p) \o <<IF w[p] = "esc" THEN "dollar" ELSE w[p]>>
<1>1. ~Covered(w)[p]
  BY ClearIsBare
<1>2. Clear(w, p + 1)
  <2>1. ASSUME NEW q \in 1 .. (p + 1) - 1, w[q] = "dollar", ~Covered(w)[q]
        PROVE  q + Size(w, q) <= p + 1
    <3>1. q \in 1 .. p - 1 \/ q = p
      OBVIOUS
    <3>2. q \in 1 .. Len(w)
      BY <3>1
    <3>3. q \in Nat /\ Size(w, q) \in Nat
      BY <3>2, SizeType
    <3>4. q \in 1 .. p - 1 /\ q + Size(w, q) <= p
      BY <2>1, <3>1 DEF Clear
    <3> QED BY <3>3, <3>4
  <2> QED BY <2>1 DEF Clear
<1>3. Upto(w)[p] = Upto(w)[p - 1] \o Item(w, p)
  BY UptoIs DEF Flows
<1>4. Item(w, p) = <<IF w[p] = "esc" THEN "dollar" ELSE w[p]>>
  BY <1>1 DEF Item
<1>5. (p + 1) - 1 = p
  OBVIOUS
<1> QED BY <1>2, <1>3, <1>4, <1>5 DEF Before

LEMMA ReferenceGoesOn ==
    ASSUME NEW w \in Seq(Char), NEW p \in 1 .. Len(w), Clear(w, p), w[p] = "dollar",
           NEW s \in Nat \ {0}, NEW v \in Seq(Char), Size(w, p) = s,
           Asked!Reference(w, p).value = v, p + s <= Len(w) + 1
    PROVE  /\ Clear(w, p + s)
           /\ Before(w, p + s) = Before(w, p) \o v
<1>0. Len(w) \in Nat /\ p \in Nat /\ Size(w, p) = s /\ v = Asked!Reference(w, p).value
  OBVIOUS
<1>1. ~Covered(w)[p]
  BY ClearIsBare
<1>2. \A r \in p + 1 .. p + s - 1 : r \in 1 .. Len(w) /\ Covered(w)[r]
  <2>1. ASSUME NEW r \in p + 1 .. p + s - 1 PROVE r \in 1 .. Len(w) /\ Covered(w)[r]
    <3>1. r \in 1 .. Len(w) /\ p \in 1 .. r - 1 /\ r < p + Size(w, p)
      BY <1>0
    <3> QED BY <1>1, <3>1, CoveredIs
  <2> QED BY <2>1
<1>3. Clear(w, p + s)
  <2>1. ASSUME NEW q \in 1 .. (p + s) - 1, w[q] = "dollar", ~Covered(w)[q]
        PROVE  q + Size(w, q) <= p + s
    <3>1. CASE q < p
      <4>1. q \in 1 .. p - 1 /\ q \in 1 .. Len(w)
        BY <1>0, <3>1
      <4>2. q \in Nat /\ Size(w, q) \in Nat
        BY <4>1, SizeType
      <4>3. q + Size(w, q) <= p
        BY <2>1, <4>1 DEF Clear
      <4> QED BY <1>0, <4>2, <4>3
    <3>2. CASE q = p
      BY <1>0, <3>2
    <3>3. CASE q > p
      BY <1>0, <1>2, <2>1, <3>3
    <3> QED BY <1>0, <3>1, <3>2, <3>3
  <2> QED BY <2>1 DEF Clear
<1> DEFINE U == Upto(w)
<1>4. /\ \A j \in 0 .. Len(w) : U[j] \in Seq(Char)
      /\ \A j \in 1 .. Len(w) : U[j] = U[j - 1] \o Item(w, j)
  BY UptoIs DEF Flows
<1> HIDE DEF U
<1>5. U[p] = U[p - 1] \o v
  BY <1>0, <1>1, <1>4 DEF Item
<1>6. \A j \in p .. p + s - 1 : U[j] = U[p]
  <2> DEFINE S == {j \in p .. p + s - 1 : U[j] = U[p]}
  <2>1. p \in S
    BY <1>0
  <2>2. ASSUME NEW j \in p + 1 .. p + s - 1, j - 1 \in S PROVE j \in S
    <3>1. j \in 1 .. Len(w) /\ j - 1 \in 0 .. Len(w) /\ Item(w, j) = <<>>
      BY <1>0, <1>2 DEF Item
    <3>2. U[j - 1] \in Seq(Char) /\ U[j] = U[j - 1] \o <<>>
      BY <1>4, <3>1
    <3>3. U[j] = U[j - 1]
      BY <3>2
    <3> QED BY <1>0, <2>2, <3>3
  <2>3. \A j \in p .. p + s - 1 : j \in S
    <3> DEFINE last == p + s - 1
    <3>1. last \in Nat /\ p \in Nat
      BY <1>0
    <3>2. \A j \in p + 1 .. last : j - 1 \in S => j \in S
      BY <2>2
    <3> HIDE DEF S, last
    <3>3. \A j \in p .. last : j \in S
      BY <2>1, <3>1, <3>2, Climb, Zenon
    <3> QED BY <3>3 DEF last
  <2> QED BY <2>3
<1>7. p + s - 1 \in p .. p + s - 1
  BY <1>0
<1> QED BY <1>3, <1>5, <1>6, <1>7 DEF U, Before
-----------------------------------------------------------------------------
(* What expand has done is what the word in front of idx means, and what   *)
(* is left of a value belongs to it.                                       *)
Follows ==
    /\ xpc = "start" => idx = 1 /\ rest = <<>> /\ res = <<>>
    /\ xpc = "loop" =>
          ~InQuotes /\ Clear(word, idx) /\ res \o rest = Before(word, idx)
    /\ xpc = "done" => res = Asked!Meaning(word)

LEMMA SameFollows ==
    ASSUME Follows, UNCHANGED <<word, idx>>, xpc' = xpc, xpc' # "start",
           res' \o rest' = res \o rest, xpc' = "done" => res' = res
    PROVE  Follows'
BY DEF Follows, InQuotes, CharAt

LEMMA PutIs ==
    ASSUME NEW c, Put(c)
    PROVE  res' = Append(res, c)
BY DEF Put

LEMMA KeepFollows ==
    ASSUME XInv, Follows, Looping, idx <= Len(word), word[idx] # "dollar",
           Keep(IF word[idx] = "esc" THEN "dollar" ELSE word[idx])
    PROVE  Follows'
<1> DEFINE c == IF word[idx] = "esc" THEN "dollar" ELSE word[idx]
<1>1. /\ word \in Seq(Char) /\ idx \in 1 .. Len(word) /\ res \in Seq(Char)
      /\ xpc = "loop" /\ rest = <<>>
  BY DEF XInv, XTypeOK, Looping
<1>2. ~InQuotes /\ Clear(word, idx) /\ res = Before(word, idx)
  BY <1>1 DEF Follows
<1>3. xpc' = xpc /\ word' = word /\ rest' = rest /\ idx' = idx + 1 /\ res' = Append(res, c)
  BY PutIs DEF Keep
<1>4. Clear(word, idx + 1) /\ Before(word, idx + 1) = Before(word, idx) \o <<c>>
  BY <1>1, <1>2, PlainGoesOn
<1>5. c \in Char
  BY <1>1 DEF Char, Mark
<1> HIDE DEF c
<1>6. res' \o rest' = Before(word, idx + 1)
  BY <1>1, <1>2, <1>3, <1>4, <1>5
<1> QED BY <1>1, <1>2, <1>3, <1>4, <1>6 DEF Follows, InQuotes, CharAt

LEMMA ReferFollows ==
    ASSUME XInv, Follows, Looping, idx <= Len(word), word[idx] = "dollar",
           NEW s \in Nat \ {0}, NEW v \in Seq(Char), idx + s <= Len(word) + 1,
           Asked!Reference(word, idx) = [size |-> s, value |-> v],
           idx' = idx + s, res' \o rest' = res \o v, UNCHANGED <<xpc, word>>
    PROVE  Follows'
<1>1. /\ word \in Seq(Char) /\ idx \in 1 .. Len(word) /\ res \in Seq(Char)
      /\ xpc = "loop" /\ rest = <<>>
  BY DEF XInv, XTypeOK, Looping
<1>2. ~InQuotes /\ Clear(word, idx) /\ res = Before(word, idx)
  BY <1>1 DEF Follows
<1>3. Size(word, idx) = s /\ Asked!Reference(word, idx).value = v
  BY DEF Size
<1>4. Clear(word, idx + s) /\ Before(word, idx + s) = Before(word, idx) \o v
  BY <1>1, <1>2, <1>3, ReferenceGoesOn
<1>5. word' = word /\ xpc' = "loop" /\ idx' = idx + s
  BY <1>1
<1>6. res' \o rest' = Before(word, idx + s)
  BY <1>2, <1>4
<1> QED BY <1>2, <1>4, <1>5, <1>6 DEF Follows, InQuotes, CharAt

LEMMA EnclosedIs ==
    ASSUME word \in Seq(Char)
    PROVE  InQuotes <=> Asked!Enclosed(word)
<1>1. CASE Len(word) < 2
  BY <1>1 DEF InQuotes, Asked!Enclosed
<1>2. CASE Len(word) >= 2
  <2>1. /\ CharAt(1) = word[1] /\ CharAt(Len(word)) = word[Len(word)]
        /\ \A p \in 2 .. Len(word) - 1 : CharAt(p) = word[p]
    BY <1>2 DEF CharAt
  <2>2. ASSUME InQuotes PROVE {p \in 1 .. Len(word) : word[p] = "sq"} = {1, Len(word)}
    <3>1. ASSUME NEW p \in 1 .. Len(word) PROVE word[p] = "sq" <=> p \in {1, Len(word)}
      <4>1. p \in 2 .. Len(word) - 1 \/ p \in {1, Len(word)}
        BY <1>2
      <4>2. p \in 2 .. Len(word) - 1 => p \notin {1, Len(word)}
        BY <1>2
      <4> QED BY <2>1, <2>2, <4>1, <4>2 DEF InQuotes
    <3>2. {1, Len(word)} \subseteq 1 .. Len(word)
      BY <1>2
    <3> QED BY <3>1, <3>2
  <2>3. ASSUME {p \in 1 .. Len(word) : word[p] = "sq"} = {1, Len(word)} PROVE InQuotes
    <3>1. ASSUME NEW p \in 1 .. Len(word) PROVE word[p] = "sq" <=> p \in {1, Len(word)}
      BY <2>3
    <3> QED BY <1>2, <2>1, <3>1 DEF InQuotes
  <2> QED BY <1>2, <2>2, <2>3 DEF Asked!Enclosed
<1> QED BY <1>1, <1>2

(* Has, as the code sees it: the character at p, if it is not the NUL. *)
LEMMA HasIs ==
    ASSUME NEW p, NEW S, "nul" \notin S
    PROVE  Asked!Has(word, p, S) <=> CharAt(p) \in S
BY DEF Asked!Has, CharAt

LEMMA PastIs ==
    ASSUME NEW p \in Nat
    PROVE  /\ Past(p) = p + Asked!Closing(word, p)
           /\ Asked!Closing(word, p) \in {0, 1}
<1>1. Asked!Has(word, p, {"rb"}) <=> CharAt(p) = "rb"
  BY HasIs
<1> QED BY <1>1 DEF Past, Asked!Closing

LEMMA CharsDiffer ==
    /\ "nul" \notin Char /\ "nothing" \notin Char /\ Alpha \subseteq Char
    /\ {"dollar", "lb", "rb", "quest", "sq", "esc"} \subseteq Char
    /\ \A c \in Alpha : c \notin {"dollar", "lb", "rb", "quest", "sq", "esc"}
BY CharAssumption DEF Char, Mark

LEMMA StepFollows == ASSUME XInv, Follows, XStep PROVE Follows'
<1>0. /\ word \in Seq(Char) /\ idx \in 1 .. Len(word) + 1 /\ Len(word) \in Nat
      /\ rest \in Seq(Char) /\ res \in Seq(Char)
  BY DEF XInv, XTypeOK
<1>a. /\ CharAt(idx) # "nul" => idx <= Len(word) /\ CharAt(idx) = word[idx]
      /\ CharAt(idx + 1) # "nul" => idx + 1 <= Len(word)
      /\ CharAt(idx + 2) # "nul" => idx + 2 <= Len(word)
  BY <1>0, WordAt DEF CharAt
<1>1. CASE Strip
  <2>1. /\ xpc' = "done" /\ word' = word /\ InQuotes
        /\ res' = SubSeq(word, 2, Len(word) - 1)
    BY <1>1 DEF Strip
  <2>2. Asked!Meaning(word) = SubSeq(word, 2, Len(word) - 1)
    BY <1>0, <2>1, EnclosedIs DEF Asked!Meaning
  <2> QED BY <2>1, <2>2 DEF Follows
<1>2. CASE InitCtx
  <2>1. /\ xpc' = "loop" /\ word' = word /\ idx' = 1 /\ rest' = <<>> /\ res' = <<>>
        /\ ~InQuotes
    BY <1>2 DEF InitCtx, Follows
  <2>2. ~InQuotes'
    BY <2>1 DEF InQuotes, CharAt
  <2>3. Clear(word, 1) /\ Before(word, 1) = <<>>
    BY <1>0, UptoIs DEF Clear, Before, Flows
  <2> QED BY <2>1, <2>2, <2>3 DEF Follows
<1>3. CASE Escape
  <2>1. Looping /\ CharAt(idx) = "esc" /\ Keep("dollar")
    BY <1>3 DEF Escape
  <2>2. idx <= Len(word) /\ word[idx] = "esc"
    BY <1>a, <2>1
  <2> QED BY <2>1, <2>2, KeepFollows
<1>4. CASE Ordinary
  <2>1. /\ Looping /\ CharAt(idx) # "nul" /\ CharAt(idx) # "esc" /\ CharAt(idx) # "dollar"
        /\ Keep(CharAt(idx))
    BY <1>4 DEF Ordinary
  <2>2. idx <= Len(word) /\ word[idx] = CharAt(idx)
    BY <1>a, <2>1
  <2> QED BY <2>1, <2>2, KeepFollows
<1> DEFINE AtDollar == Looping /\ CharAt(idx) = "dollar"
<1>b. ASSUME AtDollar PROVE idx <= Len(word) /\ word[idx] = "dollar"
  BY <1>a, <1>b
<1>c. /\ Asked!Has(word, idx + 1, {"quest"}) <=> Behind = "quest"
      /\ Asked!Has(word, idx + 1, Alpha) <=> Behind \in Alpha
      /\ Asked!Has(word, idx + 1, {"lb"}) <=> Behind = "lb"
      /\ Asked!Has(word, idx + 2, {"quest"}) <=> CharAt(idx + 2) = "quest"
  <2>1. "nul" \notin Alpha
    BY CharsDiffer
  <2> QED BY <2>1, HasIs DEF Behind
<1>d. \A c \in Alpha : c # "quest" /\ c # "lb"
  BY CharsDiffer
<1>e. ASSUME AtDollar, NEW s \in Nat \ {0}, NEW v \in Seq(Char), idx + s <= Len(word) + 1,
             Asked!Reference(word, idx) = [size |-> s, value |-> v], Refer(v, idx + s)
      PROVE  Follows'
  <2>1. xpc' = xpc /\ word' = word /\ idx' = idx + s /\ res' = res /\ rest' = v
    BY <1>e DEF Refer
  <2> QED BY <1>b, <1>e, <2>1, ReferFollows
<1>5. CASE LoneDollar
  <2>1. AtDollar /\ Behind \notin Alpha /\ Behind # "lb" /\ Behind # "quest" /\ Keep("dollar")
    BY <1>5 DEF LoneDollar
  <2>2. Asked!Reference(word, idx) = [size |-> 1, value |-> <<"dollar">>]
    BY <1>c, <2>1 DEF Asked!Reference
  <2>3. /\ xpc' = xpc /\ word' = word /\ rest' = rest /\ rest = <<>> /\ idx' = idx + 1
        /\ res' = Append(res, "dollar")
    BY <2>1, PutIs DEF Keep, Looping
  <2>4. "dollar" \in Char
    BY CharsDiffer
  <2>5. /\ <<"dollar">> \in Seq(Char) /\ 1 \in Nat \ {0} /\ idx + 1 <= Len(word) + 1
        /\ res' \o rest' = res \o <<"dollar">>
    BY <1>0, <1>b, <2>1, <2>3, <2>4
  <2> QED BY <1>b, <2>1, <2>2, <2>3, <2>5, ReferFollows
<1>6. CASE Name
  <2> DEFINE S == Alpha \cup Numeric
             end == Beyond(idx + 1, S)
  <2>1. AtDollar /\ Behind \in Alpha /\ Refer(Value(SubSeq(word, idx + 1, end - 1)), end)
    BY <1>6 DEF Name
  <2>2. idx + 1 \in 1 .. Len(word) + 1
    BY <1>0, <1>b, <2>1
  <2>3. PICK m \in 0 .. Len(word) - (idx + 1) + 1 :
            Asked!Run(word, idx + 1, S) = m /\ Beyond(idx + 1, S) = (idx + 1) + m
    <3> HIDE DEF S
    <3> QED BY <1>0, <2>2, RunIs
  <2> DEFINE v == Value(SubSeq(word, idx + 1, idx + m))
  <2>4. Asked!Reference(word, idx) = [size |-> 1 + m, value |-> v]
    <3>1. /\ Asked!Has(word, idx + 1, Alpha) /\ ~Asked!Has(word, idx + 1, {"quest"})
      BY <1>c, <1>d, <2>1
    <3>2. ~Asked!Has(word, idx + 1, {"lb"})
      BY <1>c, <1>d, <2>1
    <3> QED BY <2>3, <3>1, <3>2, AskedSame DEF Asked!Reference
  <2>5. end = idx + (1 + m) /\ end - 1 = idx + m
    BY <1>0, <2>3
  <2>6. v \in Seq(Char) /\ 1 + m \in Nat \ {0} /\ idx + (1 + m) <= Len(word) + 1
    BY <1>0, <2>2, <2>3, ValueType
  <2>7. Refer(v, idx + (1 + m))
    <3> HIDE DEF end
    <3> QED BY <2>1, <2>5
  <2> HIDE DEF v, AtDollar
  <2> QED BY <1>e, <2>1, <2>4, <2>6, <2>7
<1>7. CASE ExitStatus
  <2>1. AtDollar /\ Behind = "quest" /\ Refer(Status, idx + 2)
    BY <1>7 DEF ExitStatus
  <2>2. Asked!Reference(word, idx) = [size |-> 2, value |-> Status]
    <3>1. Behind \notin Alpha /\ Behind # "lb"
      BY <1>d, <2>1
    <3> QED BY <1>c, <2>1, <3>1 DEF Asked!Reference
  <2>3. idx + 2 <= Len(word) + 1
    BY <1>0, <1>a, <2>1 DEF Behind
  <2> HIDE DEF AtDollar
  <2> QED BY <1>e, <2>1, <2>2, <2>3, ValueAssumption
<1>8. CASE BracedStatus
  <2>1. /\ AtDollar /\ Behind = "lb" /\ CharAt(idx + 2) = "quest"
        /\ Refer(Status, Past(idx + 3))
    BY <1>8 DEF BracedStatus
  <2> DEFINE c == Asked!Closing(word, idx + 3)
  <2>2. Past(idx + 3) = (idx + 3) + c /\ c \in {0, 1}
    <3>1. idx + 3 \in Nat
      BY <1>0
    <3> QED BY <3>1, PastIs
  <2>3. Asked!Reference(word, idx) = [size |-> 3 + c, value |-> Status]
    <3>1. Behind \notin Alpha
      BY <1>d, <2>1
    <3> QED BY <1>c, <2>1, <3>1 DEF Asked!Reference
  <2>4. Past(idx + 3) <= Len(word) + 1
    <3>1. idx + 2 <= Len(word) /\ idx + 3 \in 1 .. Len(word) + 1
      BY <1>0, <1>a, <2>1
    <3> QED BY <1>0, <3>1, PastRange
  <2> HIDE DEF c
  <2>5. 3 + c \in Nat \ {0} /\ Past(idx + 3) = idx + (3 + c)
    BY <1>0, <2>2
  <2> HIDE DEF AtDollar
  <2> QED BY <1>e, <2>1, <2>3, <2>4, <2>5, ValueAssumption
<1>9. CASE Braced
  <2> DEFINE S == Char \ {"rb"}
             end == Beyond(idx + 2, S)
             name == SubSeq(word, idx + 2, end - 1)
  <2>1. /\ AtDollar /\ Behind = "lb" /\ CharAt(idx + 2) # "quest"
        /\ Refer(IF name = <<>> THEN <<>> ELSE Value(name), Past(end))
    BY <1>9 DEF Braced
  <2>2. idx + 1 <= Len(word) /\ idx + 2 \in 1 .. Len(word) + 1
    BY <1>0, <1>a, <2>1 DEF Behind
  <2>3. PICK m \in 0 .. Len(word) - (idx + 2) + 1 :
            Asked!Run(word, idx + 2, S) = m /\ Beyond(idx + 2, S) = (idx + 2) + m
    <3> HIDE DEF S
    <3> QED BY <1>0, <2>2, RunIs
  <2> DEFINE c == Asked!Closing(word, (idx + 2) + m)
             v == IF m = 0 THEN <<>> ELSE Value(SubSeq(word, idx + 2, idx + 1 + m))
  <2>4. /\ end = (idx + 2) + m /\ end - 1 = idx + 1 + m /\ end \in 1 .. Len(word) + 1
        /\ end \in Nat
    BY <1>0, <2>2, <2>3
  <2>5. Past(end) = end + c /\ c \in {0, 1} /\ Past(end) <= Len(word) + 1
    BY <1>0, <2>4, PastIs, PastRange
  <2>6. Asked!Reference(word, idx) = [size |-> 2 + m + c, value |-> v]
    <3>1. Behind \notin Alpha
      BY <1>d, <2>1
    <3>2. /\ Asked!Has(word, idx + 1, {"lb"}) /\ ~Asked!Has(word, idx + 2, {"quest"})
          /\ ~Asked!Has(word, idx + 1, Alpha) /\ ~Asked!Has(word, idx + 1, {"quest"})
      BY <1>c, <2>1, <3>1
    <3>3. Asked!Run(word, idx + 2, Asked!Char \ {"rb"}) = m
      BY <2>3, AskedSame
    <3> QED BY <3>2, <3>3, AskedSame DEF Asked!Reference
  <2>7. name = <<>> <=> m = 0
    <3>1. end - 1 <= Len(word) /\ end - 1 \in Int
      BY <1>0, <2>2, <2>3, <2>4
    <3> HIDE DEF end
    <3>2. name \in Seq(Char) /\ Len(name) = m
      BY <1>0, <2>2, <2>3, <2>4, <3>1
    <3> HIDE DEF name
    <3> QED BY <3>2
  <2>8. v \in Seq(Char)
    BY ValueType
  <2>9. Refer(v, Past(end))
    <3>1. v = IF name = <<>> THEN <<>> ELSE Value(name)
      BY <2>4, <2>7
    <3> HIDE DEF v, name, end
    <3> QED BY <2>1, <3>1
  <2> HIDE DEF c, v, end, name
  <2>10. 2 + m + c \in Nat \ {0} /\ Past(end) = idx + (2 + m + c)
    BY <1>0, <2>3, <2>4, <2>5
  <2> HIDE DEF AtDollar
  <2> QED BY <1>e, <2>1, <2>5, <2>6, <2>8, <2>9, <2>10
<1>10. CASE Copy
  <2>1. /\ xpc = "loop" /\ rest # <<>> /\ res' = Append(res, Head(rest)) /\ rest' = Tail(rest)
        /\ xpc' = xpc /\ word' = word /\ idx' = idx
    BY <1>10, PutIs DEF Copy
  <2>2. res' \o rest' = res \o rest
    BY <1>0, <2>1
  <2> QED BY <2>1, <2>2, SameFollows
<1>11. CASE Finish
  <2>1. /\ Looping /\ CharAt(idx) = "nul" /\ xpc' = "done" /\ word' = word /\ res' = res
    BY <1>11 DEF Finish
  <2>2. idx = Len(word) + 1
    <3>1. ~(idx <= Len(word))
      <4>1. idx <= Len(word) => CharAt(idx) \in Char
        BY <1>0, WordAt
      <4> QED BY <2>1, <4>1, CharsDiffer
    <3> QED BY <1>0, <3>1
  <2>3. res = Before(word, idx) /\ ~InQuotes
    BY <1>0, <2>1 DEF Follows, Looping
  <2>4. Before(word, idx) = Asked!Reading(word)
    <3>1. idx - 1 = Len(word)
      BY <1>0, <2>2
    <3> QED BY <1>0, <3>1, UptoIs DEF Before, Flows
  <2>5. Asked!Meaning(word) = Asked!Reading(word)
    BY <1>0, <2>3, EnclosedIs DEF Asked!Meaning
  <2> QED BY <2>1, <2>3, <2>4, <2>5 DEF Follows
<1> QED
  BY <1>1, <1>2, <1>3, <1>4, <1>5, <1>6, <1>7, <1>8, <1>9, <1>10, <1>11 DEF XStep

LEMMA FollowsInit == XInit => Follows
BY DEF XInit, Follows

LEMMA FollowsNext == XInv /\ Follows /\ [XNext]_xvars => Follows'
<1> SUFFICES ASSUME XInv, Follows, [XNext]_xvars PROVE Follows'
  OBVIOUS
<1>1. ASSUME NEW w, Call(w) PROVE Follows'
  BY <1>1 DEF Call, Follows
<1>2. ASSUME Taken PROVE Follows'
  BY <1>2 DEF Taken, Follows
<1>3. ASSUME UNCHANGED xvars PROVE Follows'
  BY <1>3 DEF xvars, Follows, InQuotes, CharAt
<1> QED BY <1>1, <1>2, <1>3, StepFollows DEF XNext

(* A word is asked for by a call, answered when expand returns, and taken  *)
(* by the caller; nothing else is seen from outside.                       *)
LEMMA StepExpands ==
    ASSUME XInv, Follows, Follows', [XNext]_xvars
    PROVE  [Asked!Next]_<<IF xpc = "idle" THEN <<"nothing">> ELSE word,
                          IF xpc = "done" THEN res ELSE <<"nothing">>>>
<1> DEFINE none == <<"nothing">>
           given == IF xpc = "idle" THEN none ELSE word
           answer == IF xpc = "done" THEN res ELSE none
<1>0. word \in Seq(Char) /\ res \in Seq(Char) /\ none \notin Seq(Char)
  <2>1. "nothing" \notin Char
    BY CharsDiffer
  <2> QED BY <2>1 DEF XInv, XTypeOK
<1>1. ASSUME NEW w \in Seq(Char), Call(w) PROVE Asked!Next
  <2>1. given = none /\ given' = w /\ answer' = answer
    BY <1>1 DEF Call
  <2>2. Asked!Ask
    BY <2>1, AskedSame DEF Asked!Ask, Asked!Nothing
  <2> QED BY <2>2 DEF Asked!Next
<1>2. ASSUME Strip \/ Finish PROVE Asked!Next
  <2>1. /\ xpc \in {"start", "loop"} /\ xpc' = "done" /\ word' = word
    BY <1>2 DEF Strip, Finish, Looping
  <2>2. res' = Asked!Meaning(word)
    BY <2>1 DEF Follows
  <2>3. Asked!Answer
    BY <1>0, <2>1, <2>2 DEF Asked!Answer, Asked!Nothing
  <2> QED BY <2>3 DEF Asked!Next
<1>3. ASSUME Taken PROVE Asked!Next
  <2>1. xpc = "done" /\ xpc' = "idle"
    BY <1>3 DEF Taken
  <2>2. Asked!Take
    BY <1>0, <2>1 DEF Asked!Take, Asked!Nothing
  <2> QED BY <2>2 DEF Asked!Next
<1>4. ASSUME \/ InitCtx \/ Escape \/ Ordinary \/ LoneDollar \/ Name
             \/ ExitStatus \/ BracedStatus \/ Braced \/ Copy
      PROVE  UNCHANGED <<given, answer>>
  <2>1. xpc \in {"start", "loop"} /\ xpc' = "loop" /\ word' = word
    BY <1>4 DEF InitCtx, Escape, Ordinary, LoneDollar, Name, ExitStatus, BracedStatus,
                Braced, Copy, Keep, Refer, Looping
  <2> QED BY <2>1
<1>5. ASSUME UNCHANGED xvars PROVE UNCHANGED <<given, answer>>
  BY <1>5 DEF xvars
<1> QED BY <1>1, <1>2, <1>3, <1>4, <1>5 DEF XNext, XStep

(* expand answers with what the whole word means, for every word and all   *)
(* values: it implements ExpansionAbs (expansion.c:278).                   *)
THEOREM ExpandMeans == XSpec => Expanded
<1>1. XInit => Asked!Init
  BY DEF XInit, Asked!Init, Asked!Nothing
<1>2. XInv /\ Follows /\ [XNext]_xvars => Follows'
  BY FollowsNext
<1>3. XInv /\ Follows /\ Follows' /\ [XNext]_xvars =>
          [Asked!Next]_<<IF xpc = "idle" THEN <<"nothing">> ELSE word,
                         IF xpc = "done" THEN res ELSE <<"nothing">>>>
  BY StepExpands
<1> QED BY <1>1, <1>2, <1>3, FollowsInit, Inductive, PTL DEF XSpec, Expanded, Asked!Spec

(* Called by exec_command and echo, for each word once and for each word   *)
(* echo prints once more (exec.c:69, builtin.c:115), it does so too.       *)
THEOREM CommandExpanded == Spec => Expanded
BY CommandExpands, ExpandMeans, PTL
-----------------------------------------------------------------------------
(* A sequence of sequences that grows by one. *)
LEMMA FlatGrows ==
    ASSUME NEW T, NEW s \in Seq(Seq(T)), NEW t \in Seq(Seq(T)), Len(t) = Len(s) + 1,
           \A j \in 1 .. Len(s) : t[j] = s[j]
    PROVE  /\ FlattenSeq(s) \in Seq(T)
           /\ FlattenSeq(t) = FlattenSeq(s) \o t[Len(s) + 1]
<1> DEFINE n == Len(s)
<1>0. n \in Nat /\ Len(t) = n + 1
  OBVIOUS
<1>1. PICK g \in [0 .. n -> Seq(T)] :
          /\ g[0] = <<>>
          /\ \A j \in 1 .. n : g[j] = g[j - 1] \o s[j]
          /\ FlattenSeq(s) = g[n]
  BY Flat
<1>2. PICK h \in [0 .. n + 1 -> Seq(T)] :
          /\ h[0] = <<>>
          /\ \A j \in 1 .. n + 1 : h[j] = h[j - 1] \o t[j]
          /\ FlattenSeq(t) = h[n + 1]
  <2>1. \E h \in [0 .. Len(t) -> Seq(T)] :
          /\ h[0] = <<>>
          /\ \A j \in 1 .. Len(t) : h[j] = h[j - 1] \o t[j]
          /\ FlattenSeq(t) = h[Len(t)]
    BY Flat
  <2> QED BY <1>0, <2>1
<1> HIDE DEF n
<1>3. \A j \in 0 .. n : g[j] = h[j]
  <2> DEFINE S == {j \in 0 .. n : g[j] = h[j]}
  <2>1. 0 \in S
    BY <1>0, <1>1, <1>2
  <2>2. ASSUME NEW j \in 0 + 1 .. n, j - 1 \in S PROVE j \in S
    <3>1. j \in 1 .. n /\ j \in 1 .. n + 1 /\ j \in 0 .. n
      BY <1>0
    <3>2. t[j] = s[j]
      BY <3>1 DEF n
    <3>3. g[j] = g[j - 1] \o s[j] /\ h[j] = h[j - 1] \o t[j]
      BY <1>1, <1>2, <3>1
    <3> QED BY <2>2, <3>1, <3>2, <3>3
  <2>3. \A j \in 0 .. n : j \in S
    <3> HIDE DEF S
    <3>1. 0 \in Nat
      OBVIOUS
    <3> QED BY <1>0, <2>1, <2>2, <3>1, Climb, Zenon
  <2> QED BY <2>3
<1>4. n \in 0 .. n /\ n + 1 \in 1 .. n + 1 /\ (n + 1) - 1 = n
  BY <1>0
<1>5. h[n + 1] = h[n] \o t[n + 1]
  BY <1>2, <1>4
<1> QED BY <1>1, <1>2, <1>3, <1>4, <1>5 DEF n
-----------------------------------------------------------------------------
(* Which backslashes begin a sequence. *)

(* Behind q there are only backslashes up to p, and q is none. *)
Alone(w, q, p) == (\A r \in q + 1 .. p - 1 : w[r] = "bs") /\ (q = 0 \/ w[q] # "bs")

LEMMA RunBegins ==
    ASSUME NEW w \in Seq(Char)
    PROVE  \A p \in 1 .. Len(w) : \E q \in 0 .. p - 1 : Alone(w, q, p)
<1> DEFINE n == Len(w)
           S == {p \in 1 .. n : \E q \in 0 .. p - 1 : Alone(w, q, p)}
<1>0. n \in Nat
  OBVIOUS
<1> HIDE DEF n
<1>1. CASE n = 0
  BY <1>0, <1>1 DEF n
<1>2. CASE n # 0
  <2>1. 1 \in S
    <3>1. 0 \in 0 .. 1 - 1 /\ Alone(w, 0, 1)
      BY DEF Alone
    <3> QED BY <1>0, <1>2, <3>1
  <2>2. ASSUME NEW p \in 1 + 1 .. n, p - 1 \in S PROVE p \in S
    <3>0. p \in 1 .. n /\ p \in Nat
      BY <1>0
    <3>1. PICK q \in 0 .. (p - 1) - 1 : Alone(w, q, p - 1)
      BY <2>2
    <3>2. CASE w[p - 1] = "bs"
      <4>1. \A r \in q + 1 .. p - 1 : r = p - 1 \/ r \in q + 1 .. (p - 1) - 1
        BY <3>0
      <4>2. q \in 0 .. p - 1 /\ Alone(w, q, p)
        BY <3>0, <3>1, <3>2, <4>1 DEF Alone
      <4> QED BY <3>0, <4>2
    <3>3. CASE w[p - 1] # "bs"
      <4>1. p - 1 \in 0 .. p - 1 /\ Alone(w, p - 1, p)
        BY <3>0, <3>3 DEF Alone
      <4> QED BY <3>0, <4>1
    <3> QED BY <3>2, <3>3
  <2>3. \A p \in 1 .. n : p \in S
    <3> HIDE DEF S
    <3>1. 1 \in Nat
      OBVIOUS
    <3> QED BY <1>0, <2>1, <2>2, <3>1, Climb, Zenon
  <2> QED BY <2>3 DEF n
<1> QED BY <1>1, <1>2

LEMMA BeginsIs ==
    ASSUME NEW w \in Seq(Char), NEW p \in 1 .. Len(w)
    PROVE  Begins(w, p) <=> /\ w[p] = "bs" /\ p < Len(w)
                            /\ p = 1 \/ ~Begins(w, p - 1)
<1>0. p \in Nat /\ Len(w) \in Nat
  OBVIOUS
<1>1. \A j \in 1 .. Len(w) :
          Begins(w, j) <=> /\ w[j] = "bs" /\ j < Len(w)
                           /\ \E q \in 0 .. j - 1 : (j - 1 - q) % 2 = 0 /\ Alone(w, q, j)
  BY DEF Begins, Alone
<1>2. PICK q \in 0 .. p - 1 : Alone(w, q, p)
  BY RunBegins
<1>3. ASSUME NEW u \in 0 .. p - 1, Alone(w, u, p) PROVE u = q
  <2>1. u < q => FALSE
    <3>1. u < q => q \in u + 1 .. p - 1 /\ q # 0
      BY <1>0
    <3> QED BY <1>2, <1>3, <3>1 DEF Alone
  <2>2. q < u => FALSE
    <3>1. q < u => u \in q + 1 .. p - 1 /\ u # 0
      BY <1>0
    <3> QED BY <1>2, <1>3, <3>1 DEF Alone
  <2> QED BY <1>0, <2>1, <2>2
<1>4. Begins(w, p) <=> w[p] = "bs" /\ p < Len(w) /\ (p - 1 - q) % 2 = 0
  BY <1>1, <1>2, <1>3
<1>5. CASE p = 1
  <2>1. q = 0 /\ (p - 1 - q) % 2 = 0
    BY <1>2, <1>5
  <2> QED BY <1>4, <1>5, <2>1
<1>6. CASE p # 1 /\ w[p - 1] # "bs"
  <2>1. p - 1 \in 1 .. Len(w) /\ p - 1 \in 0 .. p - 1
    BY <1>0, <1>6
  <2>2. ~Begins(w, p - 1)
    BY <1>1, <1>6, <2>1
  <2>3. Alone(w, p - 1, p)
    BY <1>0, <1>6 DEF Alone
  <2>4. q = p - 1
    BY <1>3, <2>1, <2>3
  <2>5. (p - 1 - q) % 2 = 0
    BY <1>0, <2>4
  <2> QED BY <1>4, <2>2, <2>5
<1>7. CASE p # 1 /\ w[p - 1] = "bs"
  <2>1. p - 1 \in 1 .. Len(w) /\ p - 1 < Len(w)
    BY <1>0, <1>7
  <2>2. q # p - 1
    BY <1>0, <1>2, <1>7 DEF Alone
  <2>3. q \in 0 .. (p - 1) - 1
    BY <1>0, <2>2
  <2>4. \A r \in q + 1 .. (p - 1) - 1 : r \in q + 1 .. p - 1
    BY <1>0
  <2>5. Alone(w, q, p - 1)
    BY <1>2, <2>4 DEF Alone
  <2>6. ASSUME NEW u \in 0 .. (p - 1) - 1, Alone(w, u, p - 1) PROVE u = q
    <3>1. u \in 0 .. p - 1 /\ \A r \in u + 1 .. p - 1 : r = p - 1 \/ r \in u + 1 .. (p - 1) - 1
      BY <1>0
    <3>2. Alone(w, u, p)
      BY <1>7, <2>6, <3>1 DEF Alone
    <3> QED BY <1>3, <3>1, <3>2
  <2>7. Begins(w, p - 1) <=> ((p - 1) - 1 - q) % 2 = 0
    BY <1>1, <1>7, <2>1, <2>3, <2>5, <2>6
  <2>8. ((p - 1) - 1 - q) % 2 = 0 <=> (p - 1 - q) % 2 # 0
    BY <1>0, <2>3
  <2> QED BY <1>4, <1>7, <2>7, <2>8
<1> QED BY <1>5, <1>6, <1>7

(* What position p adds when w is shown with its sequences. *)
Shows(w, p) ==
    IF Begins(w, p) THEN <<>>
    ELSE IF p > 1 /\ Begins(w, p - 1) THEN Sequence(w[p])
    ELSE <<w[p]>>

LEMMA ShowsType ==
    ASSUME NEW w \in Seq(Char), NEW p \in 1 .. Len(w)
    PROVE  Shows(w, p) \in Seq(Char) /\ Sequence(w[p]) \in Seq(Char) /\ <<w[p]>> \in Seq(Char)
<1>1. w[p] \in Char /\ {"nl", "tab", "bs"} \subseteq Char
  BY OptionAssumption DEF Char
<1>2. Sequence(w[p]) \in Seq(Char)
  BY <1>1 DEF Sequence
<1> QED BY <1>1, <1>2 DEF Shows

(* h[p] is what echo_print prints of w from p on. *)
Prints(h, w, f) ==
    \A p \in 1 .. Len(w) + 2 :
        h[p] = IF p > Len(w) THEN <<>>
               ELSE IF f /\ w[p] = "bs" /\ p < Len(w) THEN Sequence(w[p + 1]) \o h[p + 2]
               ELSE <<w[p]>> \o h[p + 1]

LEMMA PrintedFrom ==
    ASSUME NEW w \in Seq(Char), NEW f \in BOOLEAN
    PROVE  \E h \in [1 .. Len(w) + 2 -> Seq(Char)] : Prints(h, w, f) /\ Printed(w, f) = h[1]
<1> DEFINE n == Len(w)
           T == Seq(Char) \X Seq(Char)
           z == <<<<>>, <<>>>>
           Add(p, e) == IF f /\ w[p] = "bs" /\ p < n THEN Sequence(w[p + 1]) \o e[2]
                        ELSE <<w[p]>> \o e[1]
           step == [x \in (1 .. n) \X T |-> <<Add(n + 1 - x[1], x[2]), x[2][1]>>]
           Turn(h) == [p \in 1 .. n + 2 |->
                        IF p > n THEN <<>>
                        ELSE IF f /\ w[p] = "bs" /\ p < n THEN Sequence(w[p + 1]) \o h[p + 2]
                        ELSE <<w[p]>> \o h[p + 1]]
<1>0. n \in Nat
  OBVIOUS
<1>1. ASSUME NEW p \in 1 .. n, NEW e \in T PROVE Add(p, e) \in Seq(Char)
  <2>1. e[1] \in Seq(Char) /\ e[2] \in Seq(Char)
    OBVIOUS
  <2>2. <<w[p]>> \in Seq(Char) /\ (p < n => Sequence(w[p + 1]) \in Seq(Char))
    <3>1. p < n => p + 1 \in 1 .. n
      BY <1>0
    <3> QED BY <3>1, ShowsType
  <2> QED BY <2>1, <2>2
<1>2. step \in [(1 .. n) \X T -> T]
  <2>1. ASSUME NEW x \in (1 .. n) \X T PROVE <<Add(n + 1 - x[1], x[2]), x[2][1]>> \in T
    <3>1. n + 1 - x[1] \in 1 .. n /\ x[2] \in T /\ x[2][1] \in Seq(Char)
      BY <1>0
    <3> HIDE DEF Add, n
    <3>2. Add(n + 1 - x[1], x[2]) \in Seq(Char)
      BY <1>1, <3>1
    <3> QED BY <3>1, <3>2
  <2> HIDE DEF Add
  <2> QED BY <2>1
<1>3. PICK g \in [0 .. n -> T] : Goes(g, n, z, step)
  <2>1. z \in T
    <3>1. <<>> \in Seq(Char)
      OBVIOUS
    <3> QED BY <3>1, Zenon
  <2> HIDE DEF step, n, z, T
  <2> QED BY <1>0, <1>2, <2>1, Chain
<1>4. ASSUME NEW j \in 1 .. n
      PROVE  /\ j - 1 \in 0 .. n /\ n + 1 - j \in 1 .. n
             /\ g[j] = <<Add(n + 1 - j, g[j - 1]), g[j - 1][1]>>
  <2>1. j - 1 \in 0 .. n /\ n + 1 - j \in 1 .. n
    BY <1>0
  <2>2. <<j, g[j - 1]>> \in (1 .. n) \X T
    <3> HIDE DEF T, n
    <3> QED BY <2>1
  <2>3. g[j] = step[<<j, g[j - 1]>>]
    BY <1>3 DEF Goes
  <2> HIDE DEF Add, n, T
  <2> QED BY <2>1, <2>2, <2>3
<1>5. g[0] = z
  BY <1>3 DEF Goes
<1> DEFINE h == [p \in 1 .. n + 2 |-> IF p > n THEN <<>> ELSE g[n + 1 - p][1]]
<1>6. h \in [1 .. n + 2 -> Seq(Char)]
  <2>1. ASSUME NEW p \in 1 .. n + 2, ~(p > n) PROVE g[n + 1 - p][1] \in Seq(Char)
    <3>1. n + 1 - p \in 0 .. n
      BY <1>0, <2>1
    <3> QED BY <3>1
  <2> QED BY <2>1
<1>7. \A j \in 0 .. n : g[j] = <<h[n + 1 - j], h[n + 2 - j]>>
  <2>1. ASSUME NEW j \in 0 .. n PROVE g[j] = <<h[n + 1 - j], h[n + 2 - j]>>
    <3>0. n + 1 - j \in 1 .. n + 2 /\ n + 2 - j \in 1 .. n + 2
      BY <1>0
    <3>1. CASE j = 0
      <4>1. h[n + 1 - j] = <<>> /\ h[n + 2 - j] = <<>>
        BY <1>0, <3>0, <3>1
      <4> QED BY <1>5, <3>1, <4>1
    <3>2. CASE j # 0
      <4>1. j \in 1 .. n /\ ~(n + 1 - j > n) /\ n + 1 - (n + 1 - j) = j
        BY <1>0, <3>2
      <4>2. h[n + 1 - j] = g[j][1]
        BY <3>0, <4>1
      <4>3. g[j][2] = g[j - 1][1]
        <5>1. g[j] = <<Add(n + 1 - j, g[j - 1]), g[j - 1][1]>>
          BY <1>4, <4>1
        <5> HIDE DEF Add
        <5> QED BY <5>1
      <4>4. h[n + 2 - j] = g[j - 1][1]
        <5>1. CASE j = 1
          BY <1>0, <1>5, <3>0, <5>1
        <5>2. CASE j # 1
          <6>1. ~(n + 2 - j > n) /\ n + 1 - (n + 2 - j) = j - 1
            BY <1>0, <4>1, <5>2
          <6> QED BY <3>0, <6>1
        <5> QED BY <5>1, <5>2
      <4>5. g[j] = <<g[j][1], g[j][2]>>
        BY <3>1
      <4> QED BY <4>2, <4>3, <4>4, <4>5
    <3> QED BY <3>1, <3>2
  <2> QED BY <2>1
<1>8. \A p \in 1 .. n + 2 : h[p] = Turn(h)[p]
  <2>1. ASSUME NEW p \in 1 .. n + 2 PROVE h[p] = Turn(h)[p]
    <3>1. CASE p > n
      BY <3>1
    <3>2. CASE ~(p > n)
      <4>1. /\ n + 1 - p \in 1 .. n /\ n + 1 - (n + 1 - p) = p /\ n - p \in 0 .. n
            /\ (n + 1 - p) - 1 = n - p /\ p \in 1 .. n
            /\ n + 1 - (n - p) = p + 1 /\ n + 2 - (n - p) = p + 2
        BY <1>0, <3>2
      <4>2. h[p] = g[n + 1 - p][1]
        BY <3>2
      <4> HIDE DEF h
      <4>3. g[n + 1 - p] = <<Add(n + 1 - (n + 1 - p), g[(n + 1 - p) - 1]), g[(n + 1 - p) - 1][1]>>
        BY <1>4, <4>1
      <4>4. h[p] = Add(p, g[n - p])
        <5> HIDE DEF Add
        <5> QED BY <4>1, <4>2, <4>3
      <4>5. g[n - p] = <<h[p + 1], h[p + 2]>>
        <5>1. g[n - p] = <<h[n + 1 - (n - p)], h[n + 2 - (n - p)]>>
          BY <1>7, <4>1
        <5> QED BY <4>1, <5>1
      <4> QED BY <3>2, <4>4, <4>5
    <3> QED BY <3>1, <3>2
  <2> QED BY <2>1
<1>9. h = Turn(h)
  <2>1. h = [p \in 1 .. n + 2 |-> h[p]]
    BY <1>6
  <2> HIDE DEF h
  <2> QED BY <1>8, <2>1
<1> HIDE DEF h
<1> DEFINE from == CHOOSE e : e = Turn(e)
<1>10. from = Turn(from) /\ Printed(w, f) = from[1]
  <2>1. from = Turn(from)
    <3> HIDE DEF Turn
    <3> QED BY <1>9
  <2>2. Printed(w, f) = from[1]
    BY Zenon DEF Printed
  <2> QED BY <2>1, <2>2
<1> HIDE DEF from
<1> DEFINE S == {j \in 0 .. n : h[n + 1 - j] = from[n + 1 - j] /\ h[n + 2 - j] = from[n + 2 - j]}
<1>11. 0 \in S
  <2>1. n + 1 \in 1 .. n + 2 /\ n + 2 \in 1 .. n + 2 /\ n + 1 > n /\ n + 2 > n
        /\ n + 1 - 0 = n + 1 /\ n + 2 - 0 = n + 2 /\ 0 \in 0 .. n
    BY <1>0
  <2>2. \A e : e = Turn(e) => e[n + 1] = <<>> /\ e[n + 2] = <<>>
    BY <2>1
  <2> HIDE DEF Turn, n
  <2> QED BY <1>9, <1>10, <2>1, <2>2
<1>12. ASSUME NEW j \in 0 + 1 .. n, j - 1 \in S PROVE j \in S
  <2>1. /\ n + 1 - j \in 1 .. n + 2 /\ ~(n + 1 - j > n)
        /\ n + 1 - (j - 1) = n + 2 - j /\ n + 2 - (j - 1) = n + 3 - j
        /\ (n + 1 - j) + 1 = n + 2 - j /\ (n + 1 - j) + 2 = n + 3 - j
        /\ j \in 0 .. n
    BY <1>0
  <2>2. h[n + 2 - j] = from[n + 2 - j] /\ h[n + 3 - j] = from[n + 3 - j]
    BY <1>12, <2>1
  <2>3. \A e : e = Turn(e) =>
            e[n + 1 - j] = IF f /\ w[n + 1 - j] = "bs" /\ n + 1 - j < n
                           THEN Sequence(w[(n + 1 - j) + 1]) \o e[n + 3 - j]
                           ELSE <<w[n + 1 - j]>> \o e[n + 2 - j]
    BY <2>1
  <2> HIDE DEF Turn, n
  <2>4. h[n + 1 - j] = from[n + 1 - j]
    BY <1>9, <1>10, <2>2, <2>3
  <2> QED BY <2>1, <2>2, <2>4
<1>13. \A j \in 0 .. n : j \in S
  <2> HIDE DEF S, n
  <2>1. 0 \in Nat
    OBVIOUS
  <2> QED BY <1>0, <1>11, <1>12, <2>1, Climb, Zenon
<1>14. h[1] = from[1]
  <2>1. CASE n = 0
    <3>1. h[n + 1 - 0] = from[n + 1 - 0]
      BY <1>11
    <3> QED BY <2>1, <3>1
  <2>2. CASE n # 0
    <3>1. n \in 0 .. n /\ n + 1 - n = 1
      BY <1>0
    <3>2. h[n + 1 - n] = from[n + 1 - n]
      BY <1>13, <3>1
    <3> QED BY <3>1, <3>2
  <2> QED BY <2>1, <2>2
<1>15. Prints(h, w, f)
  BY <1>9 DEF Prints
<1> QED BY <1>6, <1>10, <1>14, <1>15

(* Printed without sequences, w stays as it is; printed with them, it is   *)
(* what its positions show, one behind the other.                          *)
LEMMA Joins ==
    \A a, b, c \in Seq(Char) : a \o (b \o c) = (a \o b) \o c
BY ConcatAssociative

LEMMA PrintedAll ==
    ASSUME NEW w \in Seq(Char)
    PROVE  Printed(w, FALSE) = w
<1> DEFINE n == Len(w)
<1>0. n \in Nat /\ \A p \in 1 .. n : w[p] \in Char
  OBVIOUS
<1>1. PICK h \in [1 .. n + 2 -> Seq(Char)] : Prints(h, w, FALSE) /\ Printed(w, FALSE) = h[1]
  BY PrintedFrom
<1>2. /\ \A p \in 1 .. n : h[p] = <<w[p]>> \o h[p + 1]
      /\ h[n + 1] = <<>>
  <2>1. /\ \A p \in 1 .. n : p \in 1 .. n + 2 /\ ~(p > n)
        /\ n + 1 \in 1 .. n + 2 /\ n + 1 > n
    BY <1>0
  <2> QED BY <1>1, <2>1 DEF Prints
<1> DEFINE S == {p \in 1 .. n + 1 : SubSeq(w, 1, p - 1) \o h[p] = h[1]}
<1>3. 1 \in S
  <2>1. 1 \in 1 .. n + 1 /\ h[1] \in Seq(Char) /\ SubSeq(w, 1, 1 - 1) = <<>>
    BY <1>0
  <2>2. <<>> \o h[1] = h[1]
    BY <2>1
  <2> QED BY <2>1, <2>2
<1>4. ASSUME NEW p \in 1 + 1 .. n + 1, p - 1 \in S PROVE p \in S
  <2>0. p - 1 \in 1 .. n /\ p \in 1 .. n + 1 /\ p \in 1 .. n + 2 /\ (p - 1) + 1 = p
    BY <1>0
  <2>1. SubSeq(w, 1, (p - 1) - 1) \o h[p - 1] = h[1]
    BY <1>4
  <2>2. h[p - 1] = <<w[p - 1]>> \o h[p]
    BY <1>2, <2>0
  <2>3. /\ SubSeq(w, 1, (p - 1) - 1) \in Seq(Char) /\ <<w[p - 1]>> \in Seq(Char)
        /\ h[p] \in Seq(Char)
    BY <1>0, <2>0
  <2>4. SubSeq(w, 1, (p - 1) - 1) \o (<<w[p - 1]>> \o h[p])
           = (SubSeq(w, 1, (p - 1) - 1) \o <<w[p - 1]>>) \o h[p]
    <3> HIDE DEF n
    <3> QED BY <2>3, Joins, Zenon
  <2>5. SubSeq(w, 1, (p - 1) - 1) \o <<w[p - 1]>> = SubSeq(w, 1, p - 1)
    BY <1>0, <2>0
  <2> QED BY <2>0, <2>1, <2>2, <2>4, <2>5
<1>5. \A p \in 1 .. n + 1 : p \in S
  <2> HIDE DEF S, n
  <2>1. 1 \in Nat /\ n + 1 \in Nat
    BY <1>0
  <2> QED BY <1>3, <1>4, <2>1, Climb, Zenon
<1>6. n + 1 \in S
  <2> HIDE DEF S
  <2> QED BY <1>0, <1>5
<1>7. SubSeq(w, 1, (n + 1) - 1) = w /\ w \o <<>> = w
  BY <1>0
<1> QED BY <1>1, <1>2, <1>6, <1>7

LEMMA PrintedShown ==
    ASSUME NEW w \in Seq(Char)
    PROVE  Printed(w, TRUE) = Shown(w)
<1> DEFINE n == Len(w)
           s == [p \in 1 .. n |-> Shows(w, p)]
<1>0. n \in Nat
  OBVIOUS
<1>1. PICK h \in [1 .. n + 2 -> Seq(Char)] : Prints(h, w, TRUE) /\ Printed(w, TRUE) = h[1]
  BY PrintedFrom
<1>2. /\ \A p \in 1 .. n : h[p] = IF w[p] = "bs" /\ p < n
                                  THEN Sequence(w[p + 1]) \o h[p + 2]
                                  ELSE <<w[p]>> \o h[p + 1]
      /\ h[n + 1] = <<>>
  <2>1. /\ \A p \in 1 .. n : p \in 1 .. n + 2 /\ ~(p > n)
        /\ n + 1 \in 1 .. n + 2 /\ n + 1 > n
    BY <1>0
  <2> QED BY <1>1, <2>1 DEF Prints
<1>3. s \in Seq(Seq(Char)) /\ Len(s) = n /\ \A p \in 1 .. n : s[p] = Shows(w, p)
  BY ShowsType
<1>4. Shown(w) = FlattenSeq(s)
  <2>1. DOMAIN w = 1 .. n
    OBVIOUS
  <2> QED BY <2>1, Zenon DEF Shown, Shows
<1> HIDE DEF s
<1>5. PICK g \in [0 .. n -> Seq(Char)] :
          /\ g[0] = <<>>
          /\ \A p \in 1 .. n : g[p] = g[p - 1] \o s[p]
          /\ FlattenSeq(s) = g[n]
  <2>1. \E g \in [0 .. Len(s) -> Seq(Char)] :
          /\ g[0] = <<>>
          /\ \A p \in 1 .. Len(s) : g[p] = g[p - 1] \o s[p]
          /\ FlattenSeq(s) = g[Len(s)]
    BY <1>3, Flat
  <2> QED BY <1>3, <2>1
<1> DEFINE Fresh(p) == p = 1 \/ ~Begins(w, p - 1)
           Same(p) == Fresh(p) => g[p - 1] \o h[p] = h[1]
           S == {p \in 1 .. n + 1 : \A j \in 1 .. p : Same(j)}
<1>6. Same(1)
  <2>1. h[1] \in Seq(Char) /\ g[1 - 1] = <<>>
    BY <1>0, <1>5
  <2>2. <<>> \o h[1] = h[1]
    BY <2>1
  <2> QED BY <2>1, <2>2
<1>b. \A p \in 1 .. n : Begins(w, p) <=> w[p] = "bs" /\ p < n /\ Fresh(p)
  BY BeginsIs
<1>7. ASSUME NEW p \in 1 .. n, Same(p), Fresh(p), ~Begins(w, p) PROVE Same(p + 1)
  <2>0. p - 1 \in 0 .. n /\ p \in 0 .. n /\ p + 1 \in 1 .. n + 2 /\ (p + 1) - 1 = p
    BY <1>0
  <2>1. g[p - 1] \o h[p] = h[1]
    BY <1>7
  <2>2. h[p] = <<w[p]>> \o h[p + 1]
    BY <1>2, <1>7, <1>b
  <2>3. s[p] = <<w[p]>>
    <3>1. ~(p > 1 /\ Begins(w, p - 1))
      BY <1>7
    <3> HIDE DEF Fresh, Same
    <3> QED BY <1>3, <1>7, <3>1 DEF Shows
  <2>4. g[p] = g[p - 1] \o <<w[p]>>
    BY <1>5, <2>3
  <2>5. g[p - 1] \in Seq(Char) /\ <<w[p]>> \in Seq(Char) /\ h[p + 1] \in Seq(Char)
    BY <1>0, <2>0, ShowsType
  <2>6. g[p - 1] \o (<<w[p]>> \o h[p + 1]) = (g[p - 1] \o <<w[p]>>) \o h[p + 1]
    <3> HIDE DEF n
    <3> QED BY <2>5, Joins, Zenon
  <2> HIDE DEF Fresh
  <2> QED BY <2>0, <2>1, <2>2, <2>4, <2>6
<1>8. ASSUME NEW p \in 1 .. n, Same(p), Fresh(p), Begins(w, p) PROVE Same(p + 2)
  <2>0. /\ p < n /\ p - 1 \in 0 .. n /\ p + 1 \in 1 .. n /\ p \in 0 .. n /\ p + 1 \in 0 .. n
        /\ p + 2 \in 1 .. n + 2 /\ (p + 2) - 1 = p + 1 /\ (p + 1) - 1 = p
    BY <1>0, <1>8, <1>b
  <2>1. g[p - 1] \o h[p] = h[1]
    BY <1>8
  <2>2. h[p] = Sequence(w[p + 1]) \o h[p + 2]
    BY <1>2, <1>8, <1>b
  <2>3. ~Begins(w, p + 1)
    BY <1>8, <1>b, <2>0
  <2>4. s[p] = <<>> /\ s[p + 1] = Sequence(w[p + 1])
    <3>1. p + 1 > 1 /\ Begins(w, (p + 1) - 1)
      BY <1>0, <1>8, <2>0
    <3> HIDE DEF Fresh, Same
    <3>2. Shows(w, p) = <<>> /\ Shows(w, p + 1) = Sequence(w[p + 1])
      BY <1>8, <2>3, <3>1 DEF Shows
    <3> QED BY <1>3, <2>0, <3>2
  <2>5. /\ g[p - 1] \in Seq(Char) /\ Sequence(w[p + 1]) \in Seq(Char)
        /\ h[p + 2] \in Seq(Char)
    BY <1>0, <2>0, ShowsType
  <2>6. g[p] = g[p - 1]
    <3>1. g[p] = g[p - 1] \o <<>>
      BY <1>5, <2>4
    <3> QED BY <2>5, <3>1
  <2>7. g[p + 1] = g[p - 1] \o Sequence(w[p + 1])
    <3>1. g[p + 1] = g[(p + 1) - 1] \o s[p + 1]
      BY <1>5, <2>0
    <3> QED BY <2>0, <2>4, <2>6, <3>1
  <2>8. g[p - 1] \o (Sequence(w[p + 1]) \o h[p + 2]) = (g[p - 1] \o Sequence(w[p + 1])) \o h[p + 2]
    <3> HIDE DEF n
    <3> QED BY <2>5, Joins, Zenon
  <2> HIDE DEF Fresh
  <2> QED BY <2>0, <2>1, <2>2, <2>7, <2>8
<1>9. 1 \in S
  <2>1. \A j \in 1 .. 1 : j = 1
    OBVIOUS
  <2> HIDE DEF Same
  <2> QED BY <1>0, <1>6, <2>1
<1>10. ASSUME NEW p \in 1 + 1 .. n + 1, p - 1 \in S PROVE p \in S
  <2>0. /\ p - 1 \in 1 .. n /\ p \in 1 .. n + 1 /\ (p - 1) + 1 = p
        /\ p # 2 => p - 2 \in 1 .. n /\ (p - 2) + 2 = p /\ (p - 1) - 1 = p - 2
    BY <1>0
  <2>1. \A j \in 1 .. p - 1 : Same(j)
    BY <1>10
  <2>2. Same(p)
    <3>1. SUFFICES ASSUME Fresh(p) PROVE Same(p)
      OBVIOUS
    <3>2. ~Begins(w, p - 1)
      BY <2>0, <3>1
    <3>3. CASE Fresh(p - 1)
      <4>0. p - 1 \in 1 .. p - 1
        BY <2>0
      <4>1. Same(p - 1)
        BY <2>1, <4>0, Zenon
      <4> HIDE DEF Same, Fresh
      <4> QED BY <1>7, <2>0, <3>2, <3>3, <4>1
    <3>4. CASE ~Fresh(p - 1)
      <4>1. p # 2 /\ Begins(w, p - 2)
        BY <2>0, <3>4
      <4>2. p - 2 \in 1 .. p - 1 /\ Fresh(p - 2)
        BY <1>0, <1>b, <2>0, <4>1
      <4> HIDE DEF Same, Fresh
      <4> QED BY <1>8, <2>0, <2>1, <4>1, <4>2
    <3> QED BY <3>3, <3>4
  <2>3. \A j \in 1 .. p : j = p \/ j \in 1 .. p - 1
    BY <2>0
  <2> HIDE DEF Same
  <2> QED BY <2>0, <2>1, <2>2, <2>3
<1>11. \A p \in 1 .. n + 1 : p \in S
  <2> HIDE DEF S, n
  <2>1. 1 \in Nat /\ n + 1 \in Nat
    BY <1>0
  <2> QED BY <1>9, <1>10, <2>1, Climb, Zenon
<1>12. Same(n + 1)
  <2>1. n + 1 \in 1 .. n + 1
    BY <1>0
  <2> HIDE DEF Same
  <2> QED BY <1>11, <2>1
<1>13. Fresh(n + 1)
  <2>1. n # 0 => ~Begins(w, n)
    BY <1>0, <1>b
  <2> QED BY <1>0, <2>1
<1>14. g[n] \in Seq(Char) /\ g[n] \o <<>> = g[n]
  <2>1. g[n] \in Seq(Char)
    BY <1>0
  <2> QED BY <2>1
<1>15. g[n] = h[1]
  <2>1. (n + 1) - 1 = n
    BY <1>0
  <2> QED BY <1>2, <1>12, <1>13, <1>14, <2>1
<1> QED BY <1>1, <1>4, <1>5, <1>15
-----------------------------------------------------------------------------
(* The letters of an option word are those in front of the first that is  *)
(* none, and the last of -e and -E among them decides.                     *)
LEMMA BadIs ==
    ASSUME NEW w \in Seq(Char), IsFlag(w)
    PROVE  /\ Tail(w) \in Seq(Char) /\ Len(Tail(w)) = Len(w) - 1
           /\ Bad(w) \in 0 .. Len(w) - 1
           /\ \A i \in 1 .. Len(w) - 1 : Bad(w) = 0 \/ i < Bad(w) => w[i + 1] \in Option
<1> DEFINE t == Tail(w)
           I == {i \in 1 .. Len(t) : t[i] \notin Option}
<1>1. Len(w) \in Nat /\ Len(w) > 1 /\ w # <<>>
  BY DEF IsFlag
<1>2. /\ t \in Seq(Char) /\ Len(t) = Len(w) - 1
      /\ \A i \in 1 .. Len(w) - 1 : t[i] = w[i + 1]
  BY <1>1
<1> HIDE DEF t
<1>3. Bad(w) = IF I # {} THEN CHOOSE x \in I : \A y \in I : x =< y ELSE 0
  BY DEF Bad, SelectInSeq, Min, t
<1>4. I \in SUBSET Nat
  OBVIOUS
<1>5. CASE I = {}
  BY <1>1, <1>2, <1>3, <1>5 DEF t
<1>6. CASE I # {}
  <2>1. PICK m \in I : \A y \in I : m <= y
    BY <1>4, <1>6, Least, Zenon
  <2>2. \A x \in I : (\A y \in I : x =< y) => x = m
    <3> HIDE DEF I
    <3> QED BY <1>4, <2>1
  <2>3. Bad(w) = m
    <3> HIDE DEF I
    <3> QED BY <1>3, <1>6, <2>1, <2>2
  <2>4. m \in 1 .. Len(t) /\ \A i \in 1 .. Len(t) : i < m => t[i] \in Option
    <3>1. ASSUME NEW i \in 1 .. Len(t), i < m PROVE i \notin I
      <4> HIDE DEF I
      <4> QED BY <1>4, <2>1, <3>1
    <3> QED BY <2>1, <3>1
  <2> HIDE DEF I
  <2> QED BY <1>1, <1>2, <2>3, <2>4 DEF t
<1> QED BY <1>5, <1>6

LEMMA LettersType ==
    ASSUME NEW w \in Seq(Char), IsFlag(w)
    PROVE  Letters(w) \in Seq(Option)
<1>1. Len(w) \in Nat /\ Len(w) > 1
  BY DEF IsFlag
<1>2. CASE Bad(w) = 0
  <2>1. PICK t \in Seq(Char) : t = Tail(w) /\ Len(t) = Len(w) - 1
    BY BadIs
  <2>2. \A i \in 1 .. Len(t) : t[i] \in Option
    <3>1. ASSUME NEW i \in 1 .. Len(t) PROVE t[i] \in Option
      <4>1. w[i + 1] \in Option
        BY <1>2, <2>1, BadIs
      <4>2. t[i] = w[i + 1]
        BY <1>1, <2>1
      <4> QED BY <4>1, <4>2
    <3> QED BY <3>1
  <2>3. t \in Seq(Option)
    BY <2>2
  <2> QED BY <1>2, <2>1, <2>3 DEF Letters
<1>3. CASE Bad(w) # 0
  <2>1. PICK b \in 1 .. Len(w) - 1 : b = Bad(w)
    BY <1>1, <1>3, BadIs
  <2>2. \A i \in 2 .. b : w[i] \in Option
    <3>1. ASSUME NEW i \in 2 .. b PROVE w[i] \in Option
      <4>1. i - 1 \in 1 .. Len(w) - 1 /\ i - 1 < b /\ (i - 1) + 1 = i
        BY <1>1, <2>1
      <4>2. w[(i - 1) + 1] \in Option
        BY <2>1, <4>1, BadIs
      <4> QED BY <4>1, <4>2
    <3> QED BY <3>1
  <2>3. Letters(w) = SubSeq(w, 2, b)
    BY <1>3, <2>1 DEF Letters
  <2>4. SubSeq(w, 2, b) \in Seq(Option)
    <3>1. 2 \in Int /\ b \in Int
      BY <1>1
    <3> QED BY <2>2, <3>1, SubSeqProperties
  <2> QED BY <2>3, <2>4
<1> QED BY <1>2, <1>3

LEMMA LastOfEIs ==
    ASSUME NEW s \in Seq(Option)
    PROVE  /\ LastOfE(s) \in 0 .. Len(s)
           /\ LastOfE(s) = 0 => \A i \in 1 .. Len(s) : s[i] \notin {"e", "E"}
           /\ LastOfE(s) # 0 => /\ s[LastOfE(s)] \in {"e", "E"}
                                /\ \A i \in LastOfE(s) + 1 .. Len(s) : s[i] \notin {"e", "E"}
<1> DEFINE n == Len(s)
           I == {i \in 1 .. n : s[i] \in {"e", "E"}}
           J == {n - i : i \in I}
<1>0. n \in Nat /\ \A i \in I : i \in 1 .. n /\ n - i \in Nat /\ n - (n - i) = i
  OBVIOUS
<1>1. LastOfE(s) = IF I # {} THEN CHOOSE x \in I : \A y \in I : x >= y ELSE 0
  BY DEF LastOfE, SelectLastInSeq, Max
<1>2. CASE I = {}
  BY <1>0, <1>1, <1>2
<1>3. CASE I # {}
  <2>1. J \in SUBSET Nat /\ J # {}
    <3> HIDE DEF I, n
    <3> QED BY <1>0, <1>3
  <2>2. PICK j \in J : \A y \in J : j <= y
    <3> HIDE DEF J
    <3> QED BY <2>1, Least
  <2>3. PICK m \in I : j = n - m
    OBVIOUS
  <2>4. \A y \in I : m >= y
    <3>1. ASSUME NEW y \in I PROVE m >= y
      <4>1. n - y \in J
        OBVIOUS
      <4>2. j <= n - y
        <5> HIDE DEF J
        <5> QED BY <2>2, <4>1
      <4> HIDE DEF I, J, n
      <4> QED BY <1>0, <2>3, <4>2
    <3> QED BY <3>1
  <2>5. LastOfE(s) = m
    <3> HIDE DEF I, n, J
    <3>1. \A x \in I : (\A y \in I : x >= y) => x = m
      BY <1>0, <2>4
    <3> QED BY <1>1, <1>3, <2>4, <3>1
  <2>6. \A i \in m + 1 .. n : i \in 1 .. n /\ i \notin I
    <3>1. ASSUME NEW i \in m + 1 .. n PROVE i \in 1 .. n /\ i \notin I
      <4>1. i \in 1 .. n /\ ~(m >= i)
        BY <1>0
      <4> HIDE DEF I
      <4> QED BY <2>4, <4>1
    <3> QED BY <3>1
  <2> HIDE DEF J
  <2> QED BY <1>0, <2>5, <2>6
<1> QED BY <1>2, <1>3

(* What is wanted by the letters s: yes, and no later no. *)
Want(s, yes, no) == \E p \in DOMAIN s : s[p] = yes /\ \A q \in p + 1 .. Len(s) : s[q] # no

LEMMA WantGrows ==
    ASSUME NEW s \in Seq(Option), NEW t \in Seq(Option)
    PROVE  /\ Want(s \o t, "n", "none") <=> Want(s, "n", "none") \/ "n" \in ToSet(t)
           /\ Want(s \o t, "e", "E") <=> IF LastOfE(t) = 0 THEN Want(s, "e", "E")
                                         ELSE t[LastOfE(t)] = "e"
<1> DEFINE u == s \o t
           m == Len(s)
           n == Len(t)
<1>0. /\ m \in Nat /\ n \in Nat /\ DOMAIN s = 1 .. m /\ DOMAIN t = 1 .. n
      /\ \A i \in 1 .. n : t[i] \in Option
  OBVIOUS
<1>1. /\ DOMAIN u = 1 .. m + n /\ Len(u) = m + n
      /\ \A i \in 1 .. m : u[i] = s[i]
      /\ \A i \in 1 .. n : u[m + i] = t[i]
      /\ \A i \in 1 .. m + n : u[i] \in Option
  OBVIOUS
<1>2. \A i \in m + 1 .. m + n : i - m \in 1 .. n /\ u[i] = t[i - m]
  <2>1. ASSUME NEW i \in m + 1 .. m + n PROVE i - m \in 1 .. n /\ u[i] = t[i - m]
    <3>1. i - m \in 1 .. n /\ m + (i - m) = i
      BY <1>0
    <3>2. u[m + (i - m)] = t[i - m]
      BY <1>1, <3>1
    <3> QED BY <3>1, <3>2
  <2> QED BY <2>1
<1> HIDE DEF u, m, n
<1>3. Want(u, "n", "none") <=> Want(s, "n", "none") \/ "n" \in ToSet(t)
  <2>1. \A c \in Option : c # "none"
    BY DEF Option
  <2>2. Want(u, "n", "none") <=> \E i \in 1 .. m + n : u[i] = "n"
    <3>1. \A p \in 1 .. m + n : \A q \in p + 1 .. m + n : u[q] # "none"
      BY <1>0, <1>1, <2>1
    <3> QED BY <1>1, <3>1 DEF Want
  <2>3. Want(s, "n", "none") <=> \E i \in 1 .. m : s[i] = "n"
    <3>1. \A p \in 1 .. m : \A q \in p + 1 .. m : s[q] # "none"
      BY <1>0, <2>1 DEF m
    <3> QED BY <1>0, <3>1 DEF Want, m
  <2>4. "n" \in ToSet(t) <=> \E i \in 1 .. n : t[i] = "n"
    BY <1>0 DEF ToSet
  <2>5. (\E i \in 1 .. m + n : u[i] = "n")
            <=> (\E i \in 1 .. m : s[i] = "n") \/ (\E i \in 1 .. n : t[i] = "n")
    <3>1. \A i \in 1 .. m + n : i \in 1 .. m \/ i \in m + 1 .. m + n
      BY <1>0
    <3>2. /\ \A i \in 1 .. m : i \in 1 .. m + n
          /\ \A i \in 1 .. n : m + i \in 1 .. m + n
      BY <1>0
    <3> QED BY <1>1, <1>2, <3>1, <3>2
  <2> QED BY <2>2, <2>3, <2>4, <2>5
<1>4. CASE LastOfE(t) = 0
  <2>1. \A i \in 1 .. n : t[i] # "e" /\ t[i] # "E"
    BY <1>4, LastOfEIs DEF n
  <2>2. ASSUME Want(s, "e", "E") PROVE Want(u, "e", "E")
    <3>1. PICK p \in 1 .. m : s[p] = "e" /\ \A q \in p + 1 .. m : s[q] # "E"
      BY <1>0, <2>2 DEF Want, m
    <3>2. p \in 1 .. m + n /\ u[p] = "e"
      BY <1>0, <1>1, <3>1
    <3>3. ASSUME NEW q \in p + 1 .. m + n PROVE u[q] # "E"
      <4>1. (q \in p + 1 .. m /\ q \in 1 .. m) \/ q \in m + 1 .. m + n
        BY <1>0
      <4> QED BY <1>1, <1>2, <2>1, <3>1, <4>1
    <3> QED BY <1>1, <3>2, <3>3 DEF Want
  <2>3. ASSUME Want(u, "e", "E") PROVE Want(s, "e", "E")
    <3>1. PICK p \in 1 .. m + n : u[p] = "e" /\ \A q \in p + 1 .. m + n : u[q] # "E"
      BY <1>1, <2>3 DEF Want
    <3>2. p \in 1 .. m
      <4>1. p \in 1 .. m \/ p \in m + 1 .. m + n
        BY <1>0
      <4> QED BY <1>2, <2>1, <3>1, <4>1
    <3>3. \A q \in p + 1 .. m : q \in p + 1 .. m + n /\ q \in 1 .. m
      BY <1>0, <3>2
    <3> QED BY <1>0, <1>1, <3>1, <3>2, <3>3 DEF Want, m
  <2> QED BY <1>3, <1>4, <2>2, <2>3 DEF u
<1>5. CASE LastOfE(t) # 0
  <2>1. PICK l \in 1 .. n : l = LastOfE(t)
    BY <1>0, <1>5, LastOfEIs DEF n
  <2>2. /\ t[l] \in {"e", "E"}
        /\ \A i \in l + 1 .. n : t[i] # "e" /\ t[i] # "E"
    BY <1>5, <2>1, LastOfEIs DEF n
  <2>3. /\ m + l \in 1 .. m + n /\ u[m + l] = t[l]
        /\ \A i \in m + l + 1 .. m + n : u[i] # "e" /\ u[i] # "E"
    <3>1. m + l \in 1 .. m + n /\ u[m + l] = t[l]
      BY <1>0, <1>1
    <3>2. ASSUME NEW i \in m + l + 1 .. m + n PROVE u[i] # "e" /\ u[i] # "E"
      <4>1. i \in m + 1 .. m + n /\ i - m \in l + 1 .. n
        BY <1>0
      <4> QED BY <1>2, <2>2, <4>1
    <3> QED BY <3>1, <3>2
  <2>4. CASE t[l] = "e"
    BY <1>1, <1>3, <1>5, <2>1, <2>3, <2>4 DEF Want, u
  <2>5. CASE t[l] = "E"
    <3>1. ASSUME NEW p \in 1 .. m + n, u[p] = "e", \A q \in p + 1 .. m + n : u[q] # "E"
          PROVE  FALSE
      <4>1. p = m + l \/ p \in m + l + 1 .. m + n \/ m + l \in p + 1 .. m + n
        BY <1>0, <2>3
      <4> QED BY <2>3, <2>5, <3>1, <4>1
    <3> QED BY <1>1, <1>3, <1>5, <2>1, <2>5, <3>1 DEF Want, u
  <2> QED BY <2>2, <2>4, <2>5
<1> QED BY <1>4, <1>5
-----------------------------------------------------------------------------
(* The words of echo: options first, x being the expanded words. *)
FirstOf(x) == SelectInSeq(Append(x, <<>>), LAMBDA w : ~IsOptions(w))
LettersAt(x, j) == IF IsFlag(x[j]) THEN Letters(x[j]) ELSE <<>>
OptsOf(x, j) == FlattenSeq([p \in 1 .. j |-> LettersAt(x, p)])
Flagged(x, j, n, e) ==
    /\ n \in BOOLEAN /\ (n <=> Want(OptsOf(x, j), "n", "none"))
    /\ e \in BOOLEAN /\ (e <=> Want(OptsOf(x, j), "e", "E"))

LEMMA FirstIs ==
    ASSUME NEW x \in Seq(Seq(Char)), NEW j \in 1 .. Len(x) + 1,
           \A i \in 1 .. j - 1 : IsOptions(x[i]),
           j = Len(x) + 1 \/ ~IsOptions(x[j])
    PROVE  FirstOf(x) = j
<1> DEFINE a == Append(x, <<>>)
           I == {i \in 1 .. Len(a) : ~IsOptions(a[i])}
<1>0. Len(x) \in Nat
  OBVIOUS
<1>1. /\ Len(a) = Len(x) + 1 /\ a[Len(x) + 1] = <<>>
      /\ \A i \in 1 .. Len(x) : a[i] = x[i]
  OBVIOUS
<1> HIDE DEF a
<1>2. FirstOf(x) = IF I # {} THEN CHOOSE i \in I : \A y \in I : i =< y ELSE 0
  BY DEF FirstOf, SelectInSeq, Min, a
<1>3. ~IsOptions(<<>>)
  BY DEF IsOptions, IsFlag
<1>4. j \in I
  BY <1>0, <1>1, <1>3
<1>5. \A y \in I : j <= y
  <2>1. ASSUME NEW y \in I, ~(j <= y) PROVE FALSE
    <3>1. y \in 1 .. j - 1 /\ y \in 1 .. Len(x)
      BY <1>0, <1>1, <2>1
    <3> QED BY <1>1, <2>1, <3>1
  <2> QED BY <2>1
<1>6. I \in SUBSET Nat
  OBVIOUS
<1> HIDE DEF I
<1>7. \A i \in I : (\A y \in I : i =< y) => i = j
  BY <1>4, <1>5, <1>6
<1> QED BY <1>2, <1>4, <1>5, <1>7

LEMMA OptsGrow ==
    ASSUME NEW x \in Seq(Seq(Char)), NEW j \in 1 .. Len(x)
    PROVE  /\ OptsOf(x, j - 1) \in Seq(Option)
           /\ LettersAt(x, j) \in Seq(Option)
           /\ OptsOf(x, j) = OptsOf(x, j - 1) \o LettersAt(x, j)
<1> DEFINE s == [p \in 1 .. j - 1 |-> LettersAt(x, p)]
           t == [p \in 1 .. j |-> LettersAt(x, p)]
<1>0. j \in Nat /\ j - 1 \in Nat /\ Len(x) \in Nat /\ (j - 1) + 1 = j
  OBVIOUS
<1>1. \A p \in 1 .. Len(x) : LettersAt(x, p) \in Seq(Option)
  <2>1. ASSUME NEW p \in 1 .. Len(x) PROVE LettersAt(x, p) \in Seq(Option)
    <3>1. x[p] \in Seq(Char) /\ <<>> \in Seq(Option)
      OBVIOUS
    <3> QED BY <3>1, LettersType DEF LettersAt
  <2> QED BY <2>1
<1>2. s \in Seq(Seq(Option)) /\ Len(s) = j - 1
  <2>1. \A p \in 1 .. j - 1 : p \in 1 .. Len(x)
    BY <1>0
  <2>2. \A p \in 1 .. j - 1 : LettersAt(x, p) \in Seq(Option)
    BY <1>1, <2>1
  <2> QED BY <1>0, <2>2
<1>3. Len(t) = Len(s) + 1 /\ t[Len(s) + 1] = LettersAt(x, j)
      /\ \A p \in 1 .. Len(s) : t[p] = s[p]
  BY <1>0, <1>2
<1>t. t \in Seq(Seq(Option))
  <2>1. \A p \in 1 .. j : p \in 1 .. Len(x)
    BY <1>0
  <2>2. \A p \in 1 .. j : LettersAt(x, p) \in Seq(Option)
    BY <1>1, <2>1
  <2> QED BY <1>0, <2>2
<1>4. /\ FlattenSeq(s) \in Seq(Option)
      /\ FlattenSeq(t) = FlattenSeq(s) \o t[Len(s) + 1]
  <2> HIDE DEF s, t
  <2> QED BY <1>2, <1>3, <1>t, FlatGrows
<1> HIDE DEF s, t
<1>5. OptsOf(x, j - 1) = FlattenSeq(s) /\ OptsOf(x, j) = FlattenSeq(t)
  BY Zenon DEF OptsOf, s, t
<1> QED BY <1>1, <1>3, <1>4, <1>5

LEMMA FlaggedFirst ==
    ASSUME NEW x
    PROVE  Flagged(x, 0, FALSE, FALSE)
<1> DEFINE s == [p \in 1 .. 0 |-> LettersAt(x, p)]
<1>1. s = <<>>
  OBVIOUS
<1>2. FlattenSeq(<<>>) = <<>>
  <2> DEFINE e == <<>>
  <2>1. e \in Seq(Seq(Option)) /\ Len(e) = 0
    OBVIOUS
  <2> HIDE DEF e
  <2>2. PICK g \in [0 .. Len(e) -> Seq(Option)] :
            /\ g[0] = <<>>
            /\ \A j \in 1 .. Len(e) : g[j] = g[j - 1] \o e[j]
            /\ FlattenSeq(e) = g[Len(e)]
    BY <2>1, Flat
  <2> QED BY <2>1, <2>2 DEF e
<1>3. OptsOf(x, 0) = <<>>
  BY <1>1, <1>2 DEF OptsOf
<1> QED BY <1>3 DEF Flagged, Want

LEMMA FlaggedMore ==
    ASSUME NEW x \in Seq(Seq(Char)), NEW j \in 1 .. Len(x), NEW n, NEW e,
           Flagged(x, j - 1, n, e)
    PROVE  LET s == LettersAt(x, j)
           IN  Flagged(x, j, n \/ "n" \in ToSet(s),
                       IF LastOfE(s) = 0 THEN e ELSE s[LastOfE(s)] = "e")
<1> DEFINE s == LettersAt(x, j)
           o == OptsOf(x, j - 1)
<1>1. s \in Seq(Option) /\ o \in Seq(Option) /\ OptsOf(x, j) = o \o s
  BY OptsGrow
<1>2. /\ n \in BOOLEAN /\ (n <=> Want(o, "n", "none"))
      /\ e \in BOOLEAN /\ (e <=> Want(o, "e", "E"))
  BY DEF Flagged
<1> HIDE DEF s, o
<1>3. /\ Want(o \o s, "n", "none") <=> Want(o, "n", "none") \/ "n" \in ToSet(s)
      /\ Want(o \o s, "e", "E") <=> IF LastOfE(s) = 0 THEN Want(o, "e", "E")
                                    ELSE s[LastOfE(s)] = "e"
  BY <1>1, WantGrows
<1>4. Flagged(x, j, n \/ "n" \in ToSet(s),
              IF LastOfE(s) = 0 THEN e ELSE s[LastOfE(s)] = "e")
  BY <1>1, <1>2, <1>3 DEF Flagged
<1> QED BY <1>4 DEF s

LEMMA FlaggedSame ==
    ASSUME NEW x \in Seq(Seq(Char)), NEW j \in 1 .. Len(x), NEW n, NEW e,
           Flagged(x, j - 1, n, e), ~IsFlag(x[j])
    PROVE  Flagged(x, j, n, e)
<1>1. OptsOf(x, j) = OptsOf(x, j - 1)
  <2>1. LettersAt(x, j) = <<>>
    BY DEF LettersAt
  <2>2. OptsOf(x, j - 1) \in Seq(Option) /\ OptsOf(x, j) = OptsOf(x, j - 1) \o <<>>
    BY <2>1, OptsGrow
  <2> QED BY <2>2
<1> QED BY <1>1 DEF Flagged
-----------------------------------------------------------------------------
(* What echo has printed of the words from the first one, m of them. *)
LastOpt(x) == IF FirstOf(x) <= Len(x) THEN FirstOf(x) ELSE Len(x)
AsWanted(x, w) ==
    IF Want(OptsOf(x, LastOpt(x)), "e", "E") THEN Shown(Asked!Meaning(w)) ELSE Asked!Meaning(w)
Piece(x, p) == (IF p = 1 THEN <<>> ELSE <<"blank">>) \o AsWanted(x, x[FirstOf(x) + p - 1])
Pieces(x, m) == FlattenSeq([p \in 1 .. m |-> Piece(x, p)])

LEMMA MeaningType ==
    ASSUME NEW w \in Seq(Char)
    PROVE  Asked!Meaning(w) \in Seq(Char)
<1>1. Asked!Reading(w) \in Seq(Char)
  <2>1. Len(w) \in 0 .. Len(w)
    OBVIOUS
  <2> QED BY <2>1, UptoIs DEF Flows
<1>2. SubSeq(w, 2, Len(w) - 1) \in Seq(Char)
  OBVIOUS
<1> QED BY <1>1, <1>2 DEF Asked!Meaning

LEMMA PrintedIs ==
    ASSUME NEW w \in Seq(Char), NEW f \in BOOLEAN
    PROVE  /\ Printed(w, f) = IF f THEN Shown(w) ELSE w
           /\ Printed(w, f) \in Seq(Char)
<1>1. PICK h \in [1 .. Len(w) + 2 -> Seq(Char)] : Prints(h, w, f) /\ Printed(w, f) = h[1]
  BY PrintedFrom
<1>2. 1 \in 1 .. Len(w) + 2
  OBVIOUS
<1>3. f = TRUE \/ f = FALSE
  OBVIOUS
<1> QED BY <1>1, <1>2, <1>3, PrintedAll, PrintedShown

LEMMA AsWantedIs ==
    ASSUME NEW x, NEW n, NEW e, Flagged(x, LastOpt(x), n, e), NEW w \in Seq(Char)
    PROVE  /\ AsWanted(x, w) = Printed(Asked!Meaning(w), e)
           /\ AsWanted(x, w) \in Seq(Char)
<1>1. e \in BOOLEAN /\ (e <=> Want(OptsOf(x, LastOpt(x)), "e", "E"))
  BY DEF Flagged
<1>2. Asked!Meaning(w) \in Seq(Char)
  BY MeaningType
<1> QED BY <1>1, <1>2, PrintedIs DEF AsWanted

LEMMA PiecesBegin == ASSUME NEW x PROVE Pieces(x, 0) = <<>>
<1> DEFINE s == [p \in 1 .. 0 |-> Piece(x, p)]
           e == <<>>
<1>1. s = e /\ e \in Seq(Seq(Char)) /\ Len(e) = 0
  OBVIOUS
<1> HIDE DEF e, s
<1>2. PICK g \in [0 .. Len(e) -> Seq(Char)] :
          /\ g[0] = <<>>
          /\ \A j \in 1 .. Len(e) : g[j] = g[j - 1] \o e[j]
          /\ FlattenSeq(e) = g[Len(e)]
  BY <1>1, Flat
<1> QED BY <1>1, <1>2 DEF s, Pieces

LEMMA PiecesGrow ==
    ASSUME NEW x \in Seq(Seq(Char)), NEW n, NEW e, Flagged(x, LastOpt(x), n, e),
           FirstOf(x) \in 1 .. Len(x) + 1, NEW m \in Nat, FirstOf(x) + m <= Len(x)
    PROVE  /\ Pieces(x, m) \in Seq(Char)
           /\ Pieces(x, m + 1) = (Pieces(x, m) \o (IF m = 0 THEN <<>> ELSE <<"blank">>))
                                    \o Printed(Asked!Meaning(x[FirstOf(x) + m]), e)
<1> DEFINE s == [p \in 1 .. m |-> Piece(x, p)]
           t == [p \in 1 .. m + 1 |-> Piece(x, p)]
           gap == IF m = 0 THEN <<>> ELSE <<"blank">>
           last == AsWanted(x, x[FirstOf(x) + m])
<1>0. Len(x) \in Nat /\ FirstOf(x) \in Nat
  OBVIOUS
<1>1. <<>> \in Seq(Char) /\ <<"blank">> \in Seq(Char)
  BY OptionAssumption DEF Char
<1>2. ASSUME NEW p \in 1 .. m + 1
      PROVE  /\ Piece(x, p) \in Seq(Char)
             /\ FirstOf(x) + p - 1 \in 1 .. Len(x)
             /\ AsWanted(x, x[FirstOf(x) + p - 1]) \in Seq(Char)
  <2>1. FirstOf(x) + p - 1 \in 1 .. Len(x)
    BY <1>0
  <2>2. AsWanted(x, x[FirstOf(x) + p - 1]) \in Seq(Char)
    BY <2>1, AsWantedIs
  <2> QED BY <1>1, <2>1, <2>2 DEF Piece
<1>3. s \in Seq(Seq(Char)) /\ Len(s) = m /\ t \in Seq(Seq(Char)) /\ Len(t) = m + 1
  <2>1. \A p \in 1 .. m : p \in 1 .. m + 1
    OBVIOUS
  <2> QED BY <1>2, <2>1
<1>4. t[m + 1] = Piece(x, m + 1) /\ \A p \in 1 .. m : t[p] = s[p]
  OBVIOUS
<1> HIDE DEF s, t
<1>5. FlattenSeq(s) \in Seq(Char) /\ FlattenSeq(t) = FlattenSeq(s) \o t[m + 1]
  BY <1>3, <1>4, FlatGrows
<1>6. Pieces(x, m) = FlattenSeq(s) /\ Pieces(x, m + 1) = FlattenSeq(t)
  BY Zenon DEF Pieces, s, t
<1>7. Piece(x, m + 1) = gap \o last
  <2>1. FirstOf(x) + (m + 1) - 1 = FirstOf(x) + m /\ (m + 1 = 1 <=> m = 0)
    BY <1>0
  <2> QED BY <2>1 DEF Piece
<1>8. last = Printed(Asked!Meaning(x[FirstOf(x) + m]), e) /\ last \in Seq(Char)
  <2>1. x[FirstOf(x) + m] \in Seq(Char)
    BY <1>0
  <2> QED BY <2>1, AsWantedIs
<1> HIDE DEF last
<1>9. gap \in Seq(Char)
  BY <1>1
<1>10. FlattenSeq(s) \o (gap \o last) = (FlattenSeq(s) \o gap) \o last
  <2> HIDE DEF gap
  <2> QED BY <1>5, <1>8, <1>9, Joins
<1> QED BY <1>4, <1>5, <1>6, <1>7, <1>8, <1>10
-----------------------------------------------------------------------------
(* How far echo is. *)
Untouched == k = 1 /\ n_flag = FALSE /\ e_flag = FALSE /\ first = TRUE /\ out = <<>>
Opting ==
    /\ xpc = "idle" /\ first = TRUE /\ out = <<>>
    /\ k \in 1 .. Len(exp) + 1
    /\ \A i \in 1 .. k - 1 : IsOptions(exp[i])
    /\ Flagged(exp, k - 1, n_flag, e_flag)
Printing ==
    /\ FirstOf(exp) \in 1 .. Len(exp) + 1
    /\ k \in FirstOf(exp) .. Len(exp) + 1
    /\ Flagged(exp, LastOpt(exp), n_flag, e_flag)
    /\ first = (k = FirstOf(exp))
    /\ out = Pieces(exp, k - FirstOf(exp))
    /\ xpc # "idle" => k <= Len(exp) /\ word = exp[k]
Written ==
    /\ FirstOf(exp) \in 1 .. Len(exp) + 1
    /\ Flagged(exp, LastOpt(exp), n_flag, e_flag)
    /\ out = Pieces(exp, Len(exp) + 1 - FirstOf(exp)) \o (IF n_flag THEN <<>> ELSE <<"nl">>)
Echo ==
    /\ cpc \in {"none", "args", "flags", "print", "over"}
    /\ cpc \in {"none", "args"} => Untouched
    /\ cpc = "flags" => Opting
    /\ cpc = "print" => Printing
    /\ cpc = "over" /\ cmd = "echo" => Written

LEMMA EchoInit == Init => Echo
BY DEF Init, Echo, Untouched

(* expand's own steps do not change the word, nor whether it is called. *)
LEMMA StepKeeps == ASSUME XStep PROVE xpc # "idle" /\ xpc' # "idle" /\ word' = word
BY DEF XStep, Strip, InitCtx, Escape, Ordinary, LoneDollar, Name, ExitStatus, BracedStatus,
       Braced, Copy, Finish, Looping, Keep, Refer

LEMMA SameEcho ==
    ASSUME Echo, UNCHANGED cvars,
           cpc # "flags" \/ xpc' = xpc, cpc # "print" \/ (xpc # "idle" /\ word' = word)
    PROVE  Echo'
<1>1. /\ cpc' = cpc /\ cmd' = cmd /\ exp' = exp /\ k' = k /\ n_flag' = n_flag
      /\ e_flag' = e_flag /\ first' = first /\ out' = out
  BY DEF cvars
<1>2. Untouched => Untouched'
  BY <1>1 DEF Untouched
<1>3. Opting /\ xpc' = xpc => Opting'
  BY <1>1 DEF Opting
<1>4. Printing /\ xpc # "idle" /\ word' = word => Printing'
  BY <1>1 DEF Printing
<1>5. Written => Written'
  BY <1>1 DEF Written
<1> QED BY <1>1, <1>2, <1>3, <1>4, <1>5 DEF Echo

(* The options end at k: letters up to there have been read. *)
LEMMA OptionsEnd ==
    ASSUME exp \in Seq(Seq(Char)), k \in 1 .. Len(exp) + 1,
           \A i \in 1 .. k - 1 : IsOptions(exp[i]),
           k = Len(exp) + 1 \/ ~IsOptions(exp[k]),
           UNCHANGED <<exp, k, first, out, xpc>>, cpc' = "print",
           xpc = "idle", first = TRUE, out = <<>>,
           Flagged(exp, IF k <= Len(exp) THEN k ELSE Len(exp), n_flag', e_flag')
    PROVE  Echo'
<1>0. Len(exp) \in Nat
  OBVIOUS
<1>1. FirstOf(exp) = k
  BY FirstIs
<1>2. LastOpt(exp) = IF k <= Len(exp) THEN k ELSE Len(exp)
  BY <1>1 DEF LastOpt
<1>3. Pieces(exp, k - FirstOf(exp)) = <<>>
  BY <1>0, <1>1, PiecesBegin
<1>4. exp' = exp /\ k' = k /\ first' = TRUE /\ out' = <<>> /\ xpc' = "idle"
  OBVIOUS
<1>5. k \in FirstOf(exp) .. Len(exp) + 1
  BY <1>0, <1>1
<1>6. Flagged(exp, LastOpt(exp), n_flag', e_flag')
  BY <1>2, Zenon
<1>7. Printing'
  BY <1>1, <1>3, <1>4, <1>5, <1>6 DEF Printing
<1> QED BY <1>7 DEF Echo

LEMMA FlagEcho == ASSUME WordsType, Echo, Flag PROVE Echo'
<1> DEFINE s == LettersAt(exp, k)
           n == n_flag \/ "n" \in ToSet(s)
           e == IF LastOfE(s) = 0 THEN e_flag ELSE s[LastOfE(s)] = "e"
<1>0. /\ exp \in Seq(Seq(Char)) /\ Len(exp) \in Nat
      /\ xpc = "idle" /\ first = TRUE /\ out = <<>>
      /\ k \in 1 .. Len(exp) /\ IsFlag(exp[k])
      /\ \A i \in 1 .. k - 1 : IsOptions(exp[i])
      /\ Flagged(exp, k - 1, n_flag, e_flag)
  BY DEF Flag, Echo, Opting, WordsType
<1>1. /\ exp' = exp /\ first' = first /\ out' = out /\ xpc' = xpc
  BY DEF Flag, xvars
<1>2. s = Letters(exp[k])
  BY <1>0 DEF LettersAt
<1>3. n_flag' = n /\ e_flag' = e
  BY <1>2 DEF Flag
<1>4. Flagged(exp, k, n, e)
  BY <1>0, FlaggedMore
<1> HIDE DEF n, e
<1>5. CASE Bad(exp[k]) = 0
  <2>1. k' = k + 1 /\ cpc' = "flags"
    BY <1>5 DEF Flag
  <2>2. \A i \in 1 .. (k + 1) - 1 : i = k \/ i \in 1 .. k - 1
    BY <1>0
  <2>3. \A i \in 1 .. (k + 1) - 1 : IsOptions(exp[i])
    BY <1>0, <1>5, <2>2 DEF IsOptions
  <2>4. k + 1 \in 1 .. Len(exp) + 1 /\ (k + 1) - 1 = k
    BY <1>0
  <2>5. Opting'
    BY <1>0, <1>1, <1>3, <1>4, <2>1, <2>3, <2>4 DEF Opting
  <2> QED BY <2>1, <2>5 DEF Echo
<1>6. CASE Bad(exp[k]) # 0
  <2>1. k' = k /\ cpc' = "print"
    BY <1>6 DEF Flag
  <2>2. k \in 1 .. Len(exp) + 1 /\ k <= Len(exp) /\ ~IsOptions(exp[k])
    BY <1>0, <1>6 DEF IsOptions
  <2>3. Flagged(exp, IF k <= Len(exp) THEN k ELSE Len(exp), n_flag', e_flag')
    BY <1>3, <1>4, <2>2
  <2> QED BY <1>0, <1>1, <2>1, <2>2, <2>3, OptionsEnd
<1> QED BY <1>5, <1>6

LEMMA FlagsEndEcho == ASSUME WordsType, Echo, FlagsEnd PROVE Echo'
<1>0. /\ exp \in Seq(Seq(Char)) /\ Len(exp) \in Nat
      /\ xpc = "idle" /\ first = TRUE /\ out = <<>>
      /\ k \in 1 .. Len(exp) + 1 /\ (k <= Len(exp) => ~IsFlag(exp[k]))
      /\ \A i \in 1 .. k - 1 : IsOptions(exp[i])
      /\ Flagged(exp, k - 1, n_flag, e_flag)
  BY DEF FlagsEnd, Echo, Opting, WordsType
<1>1. /\ exp' = exp /\ first' = first /\ out' = out /\ xpc' = xpc /\ k' = k
      /\ cpc' = "print" /\ n_flag' = n_flag /\ e_flag' = e_flag
  BY DEF FlagsEnd, xvars
<1>2. k = Len(exp) + 1 \/ ~IsOptions(exp[k])
  BY <1>0 DEF IsOptions
<1>3. Flagged(exp, IF k <= Len(exp) THEN k ELSE Len(exp), n_flag, e_flag)
  <2>1. CASE k <= Len(exp)
    <3>1. k \in 1 .. Len(exp)
      BY <1>0, <2>1
    <3>2. Flagged(exp, k, n_flag, e_flag)
      BY <1>0, <2>1, <3>1, FlaggedSame
    <3> QED BY <2>1, <3>2
  <2>2. CASE ~(k <= Len(exp))
    <3>1. k - 1 = Len(exp)
      BY <1>0, <2>2
    <3> QED BY <1>0, <2>2, <3>1
  <2> QED BY <2>1, <2>2
<1>4. Flagged(exp, IF k <= Len(exp) THEN k ELSE Len(exp), n_flag', e_flag')
  BY <1>1, <1>3
<1> QED BY <1>0, <1>1, <1>2, <1>4, OptionsEnd

LEMMA PrintEcho == ASSUME WordsType, Follows, Echo, EchoPrint PROVE Echo'
<1> DEFINE F == FirstOf(exp)
           m == k - F
           gap == IF first THEN <<>> ELSE <<"blank">>
<1>0. /\ exp \in Seq(Seq(Char)) /\ Len(exp) \in Nat
      /\ F \in 1 .. Len(exp) + 1 /\ k \in F .. Len(exp) /\ F \in Nat /\ k \in Nat
      /\ Flagged(exp, LastOpt(exp), n_flag, e_flag)
      /\ first = (k = F) /\ out = Pieces(exp, m)
      /\ res = Asked!Meaning(exp[k])
  <2>1. cpc = "print" /\ xpc = "done"
    BY DEF EchoPrint, Taken
  <2>2. Printing
    BY <2>1 DEF Echo
  <2> HIDE DEF F, m
  <2> QED BY <2>1, <2>2 DEF Printing, WordsType, Follows, F, m
<1>1. /\ exp' = exp /\ cpc' = cpc /\ n_flag' = n_flag /\ e_flag' = e_flag
      /\ first' = FALSE /\ k' = k + 1 /\ xpc' = "idle" /\ cpc = "print"
      /\ out' = (out \o gap) \o Printed(res, e_flag)
  BY DEF EchoPrint, Taken
<1>2. /\ m \in Nat /\ F + m = k /\ F + m <= Len(exp) /\ (k + 1) - F = m + 1
      /\ (m = 0 <=> k = F) /\ k + 1 # F /\ k + 1 \in F .. Len(exp) + 1
  BY <1>0
<1> HIDE DEF m
<1>3. Pieces(exp, m + 1) = (Pieces(exp, m) \o (IF m = 0 THEN <<>> ELSE <<"blank">>))
                               \o Printed(Asked!Meaning(exp[F + m]), e_flag)
  BY <1>0, <1>2, PiecesGrow
<1>4. gap = IF m = 0 THEN <<>> ELSE <<"blank">>
  BY <1>0, <1>2
<1> HIDE DEF gap
<1>5. out' = Pieces(exp, (k + 1) - F)
  BY <1>0, <1>1, <1>2, <1>3, <1>4
<1> HIDE DEF F
<1>6. Printing'
  BY <1>0, <1>1, <1>2, <1>5 DEF Printing, F
<1> QED BY <1>1, <1>6 DEF Echo

LEMMA EndEcho == ASSUME WordsType, Echo, EchoEnd PROVE Echo'
<1>0. /\ exp \in Seq(Seq(Char)) /\ Len(exp) \in Nat /\ Printing /\ k > Len(exp)
  BY DEF EchoEnd, Echo, WordsType
<1>1. /\ exp' = exp /\ cpc' = "over" /\ n_flag' = n_flag /\ e_flag' = e_flag
      /\ out' = out \o (IF n_flag THEN <<>> ELSE <<"nl">>)
  BY DEF EchoEnd
<1>2. k = Len(exp) + 1
  BY <1>0 DEF Printing
<1>3. Written'
  BY <1>0, <1>1, <1>2 DEF Printing, Written
<1> QED BY <1>1, <1>3 DEF Echo

LEMMA EchoNext == ASSUME WordsType, Follows, Echo, [Next]_vars PROVE Echo'
<1>1. ASSUME NEW c, NEW a, Enter(c, a) PROVE Echo'
  BY <1>1 DEF Enter, Echo, Untouched
<1>2. ASSUME ExpandArg PROVE Echo'
  BY <1>2, SameEcho DEF ExpandArg
<1>3. ASSUME ArgExpanded PROVE Echo'
  BY <1>3 DEF ArgExpanded, Echo, Untouched
<1>4. ASSUME Dispatch PROVE Echo'
  <2>1. /\ Untouched /\ xpc = "idle" /\ xpc' = xpc /\ exp' = exp /\ k' = k /\ cmd' = cmd
        /\ n_flag' = n_flag /\ e_flag' = e_flag /\ first' = first /\ out' = out
        /\ cpc' = IF cmd = "echo" THEN "flags" ELSE "over"
    BY <1>4 DEF Dispatch, Echo, xvars
  <2>2. exp \in Seq(Seq(Char)) /\ 1 \in 1 .. Len(exp) + 1 /\ 1 - 1 = 0
    BY DEF WordsType
  <2>3. Flagged(exp, 0, FALSE, FALSE)
    BY FlaggedFirst
  <2>4. k' - 1 = 0 /\ n_flag' = FALSE /\ e_flag' = FALSE /\ first' = TRUE /\ out' = <<>>
        /\ k' \in 1 .. Len(exp') + 1 /\ k' = 1
    BY <2>1, <2>2 DEF Untouched
  <2>5. Flagged(exp', k' - 1, n_flag', e_flag')
    BY <2>1, <2>3, <2>4
  <2>6. \A i \in 1 .. k' - 1 : IsOptions(exp'[i])
    BY <2>4
  <2>7. Opting'
    BY <2>1, <2>4, <2>5, <2>6 DEF Opting
  <2> QED BY <2>1, <2>7 DEF Echo
<1>5. ASSUME EchoExpand PROVE Echo'
  <2>1. /\ cpc = "print" /\ k <= Len(exp) /\ word' = exp[k] /\ Printing
        /\ UNCHANGED cvars
    BY <1>5 DEF EchoExpand, Call, Echo
  <2>2. Printing'
    BY <2>1 DEF Printing, cvars
  <2> QED BY <2>1, <2>2 DEF Echo, cvars
<1>6. ASSUME XStep, UNCHANGED cvars PROVE Echo'
  <2>1. cpc # "flags"
    BY <1>6, StepKeeps DEF Echo, Opting
  <2> QED BY <1>6, <2>1, StepKeeps, SameEcho
<1>7. ASSUME UNCHANGED vars PROVE Echo'
  <2>1. /\ cpc' = cpc /\ cmd' = cmd /\ exp' = exp /\ k' = k /\ n_flag' = n_flag
        /\ e_flag' = e_flag /\ first' = first /\ out' = out /\ xpc' = xpc /\ word' = word
    BY <1>7 DEF vars, cvars, xvars
  <2> QED BY <2>1 DEF Echo, Untouched, Opting, Printing, Written
<1> QED
  BY <1>1, <1>2, <1>3, <1>4, <1>5, <1>6, <1>7, FlagEcho, FlagsEndEcho, PrintEcho, EndEcho
  DEF Next, CommandStep

LEMMA EchoIs == WordsType /\ Echo => OutputRead
<1> SUFFICES ASSUME WordsType, Echo, cpc = "over", cmd = "echo"
             PROVE  out = FlattenSeq([n \in DOMAIN Printable |->
                              (IF n = 1 THEN <<>> ELSE <<"blank">>) \o Said(Printable[n])])
                          \o (IF Wanted("n", "none") THEN <<>> ELSE <<"nl">>)
  BY DEF OutputRead
<1> DEFINE F == FirstOf(exp)
           m == Len(exp) + 1 - F
<1>0. exp \in Seq(Seq(Char)) /\ Len(exp) \in Nat /\ F \in 1 .. Len(exp) + 1 /\ F \in Nat
  BY DEF Echo, Written, WordsType
<1>1. /\ Flagged(exp, LastOpt(exp), n_flag, e_flag)
      /\ out = Pieces(exp, m) \o (IF n_flag THEN <<>> ELSE <<"nl">>)
  BY DEF Echo, Written
<1>2. FirstPrinted = F
  BY Zenon DEF FirstPrinted, FirstOf
<1>3. Min({F, Len(exp)}) = LastOpt(exp)
  <2>1. \A a, b \in Nat : Min({a, b}) = IF a <= b THEN a ELSE b
    <3>1. ASSUME NEW a \in Nat, NEW b \in Nat
          PROVE  \A x \in {a, b} : (\A y \in {a, b} : x =< y) <=> x = IF a <= b THEN a ELSE b
      OBVIOUS
    <3> QED BY <3>1 DEF Min
  <2> QED BY <1>0, <2>1 DEF LastOpt
<1>4. Opted = OptsOf(exp, LastOpt(exp))
  BY <1>2, <1>3, Zenon DEF Opted, OptsOf, LettersAt
<1>5. Wanted("n", "none") <=> n_flag
  BY <1>1, <1>4 DEF Wanted, Want, Flagged
<1>6. Wanted("e", "E") <=> Want(OptsOf(exp, LastOpt(exp)), "e", "E")
  BY <1>4 DEF Wanted, Want
<1>7. /\ DOMAIN Printable = 1 .. m
      /\ \A p \in 1 .. m : Printable[p] = exp[F + p - 1]
  <2>1. Printable = SubSeq(exp, F, Len(exp))
    BY <1>2 DEF Printable
  <2> HIDE DEF F
  <2> QED BY <1>0, <2>1
<1> HIDE DEF m
<1>8. \A p \in 1 .. m : (IF p = 1 THEN <<>> ELSE <<"blank">>) \o Said(Printable[p]) = Piece(exp, p)
  BY <1>6, <1>7 DEF Said, Piece, AsWanted
<1>9. [n \in DOMAIN Printable |-> (IF n = 1 THEN <<>> ELSE <<"blank">>) \o Said(Printable[n])]
          = [p \in 1 .. m |-> Piece(exp, p)]
  BY <1>7, <1>8
<1>10. Pieces(exp, m) = FlattenSeq([p \in 1 .. m |-> Piece(exp, p)])
  BY Zenon DEF Pieces
<1> QED BY <1>1, <1>5, <1>9, <1>10

(* What echo prints is, with a blank between, what each of its expanded    *)
(* words means, from the first that is no options; -n counts wherever it   *)
(* stands, the last of -e and -E decides (builtin.c:66, 93, 115).          *)
THEOREM EchoPrintsMeanings == Spec => []OutputRead
<1>1. WordsType /\ [Next]_vars => WordsType' /\ [XNext]_xvars
  BY WordsNext, StepOfExpand
<1>2. WordsType => XInv
  BY DEF WordsType
<1>3. XInv /\ Follows /\ [XNext]_xvars => Follows'
  BY FollowsNext
<1>4. WordsType /\ Follows /\ Echo /\ [Next]_vars => Echo'
  BY EchoNext
<1>5. Init => Follows
  BY FollowsInit DEF Init
<1> QED BY WordsInit, EchoInit, EchoIs, <1>1, <1>2, <1>3, <1>4, <1>5, PTL DEF Spec
-----------------------------------------------------------------------------
(* What exec_command has of the meanings of its words. *)
ArgsMean ==
    /\ cpc = "none" => exp = <<>> /\ xpc = "idle"
    /\ cpc = "args" /\ xpc # "idle" => Len(exp) < Len(argv) /\ word = argv[Len(exp) + 1]
    /\ Len(exp) <= Len(argv)
    /\ cpc \notin {"none", "args"} => Len(exp) = Len(argv)
    /\ \A n \in 1 .. Len(exp) : exp[n] = Asked!Meaning(argv[n])

LEMMA ArgsMeanInit == Init => ArgsMean
BY DEF Init, XInit, ArgsMean

LEMMA SameArgs ==
    ASSUME ArgsMean, UNCHANGED <<exp, argv>>, cpc # "none", cpc' # "none",
           cpc' = "args" /\ xpc' # "idle" => cpc = "args" /\ xpc # "idle" /\ word' = word,
           cpc' # "args" => cpc # "args" \/ Len(exp) = Len(argv)
    PROVE  ArgsMean'
<1>1. exp' = exp /\ argv' = argv
  OBVIOUS
<1>2. \A n \in 1 .. Len(exp') : exp'[n] = Asked!Meaning(argv'[n])
  BY <1>1 DEF ArgsMean
<1> QED BY <1>1, <1>2 DEF ArgsMean

LEMMA ArgsMeanNext == ASSUME WordsType, Follows, ArgsMean, [Next]_vars PROVE ArgsMean'
<1>0. exp \in Seq(Seq(Char)) /\ Len(exp) \in Nat /\ argv \in Seq(Seq(Char)) /\ Len(argv) \in Nat
  BY DEF WordsType
<1>1. ASSUME NEW c, NEW a \in Seq(Seq(Char)), Enter(c, a) PROVE ArgsMean'
  <2>1. exp' = <<>> /\ cpc' = "args" /\ xpc' = "idle" /\ argv' = a
    BY <1>1 DEF Enter, ArgsMean, xvars
  <2>2. Len(a) \in Nat
    OBVIOUS
  <2>3. Len(exp') = 0
    BY <2>1
  <2> QED BY <2>1, <2>2, <2>3 DEF ArgsMean
<1>2. ASSUME ExpandArg PROVE ArgsMean'
  <2>1. /\ Len(exp) < Len(argv) /\ word' = argv[Len(exp) + 1] /\ cpc' = "args"
        /\ exp' = exp /\ argv' = argv
    BY <1>2 DEF ExpandArg, Call, cvars
  <2>2. \A n \in 1 .. Len(exp') : exp'[n] = Asked!Meaning(argv'[n])
    BY <2>1 DEF ArgsMean
  <2> QED BY <2>1, <2>2 DEF ArgsMean
<1>3. ASSUME ArgExpanded PROVE ArgsMean'
  <2>1. /\ cpc = "args" /\ xpc = "done" /\ xpc' = "idle" /\ cpc' = "args"
        /\ exp' = Append(exp, res) /\ argv' = argv
    BY <1>3 DEF ArgExpanded, Taken
  <2>2. res = Asked!Meaning(argv[Len(exp) + 1]) /\ Len(exp) < Len(argv) /\ res \in Seq(Char)
    BY <2>1 DEF Follows, ArgsMean, WordsType, XInv, XTypeOK
  <2>3. /\ Len(exp') = Len(exp) + 1 /\ exp'[Len(exp) + 1] = res
        /\ \A n \in 1 .. Len(exp) : exp'[n] = exp[n]
    BY <1>0, <2>1, <2>2
  <2>4. \A n \in 1 .. Len(exp) : exp[n] = Asked!Meaning(argv[n])
    BY DEF ArgsMean
  <2>5. ASSUME NEW n \in 1 .. Len(exp') PROVE exp'[n] = Asked!Meaning(argv'[n])
    <3>1. n \in 1 .. Len(exp) \/ n = Len(exp) + 1
      BY <1>0, <2>3
    <3> QED BY <2>1, <2>2, <2>3, <2>4, <3>1
  <2> QED BY <1>0, <2>1, <2>2, <2>3, <2>5 DEF ArgsMean
<1>4. ASSUME Dispatch \/ Flag \/ FlagsEnd \/ EchoEnd PROVE ArgsMean'
  <2>1. /\ exp' = exp /\ argv' = argv /\ cpc # "none"
        /\ cpc' # "none" /\ cpc' # "args" /\ (cpc # "args" \/ Len(exp) = Len(argv))
    BY <1>4 DEF Dispatch, Flag, FlagsEnd, EchoEnd
  <2> QED BY <2>1, SameArgs
<1>5. ASSUME EchoExpand \/ EchoPrint PROVE ArgsMean'
  <2>1. exp' = exp /\ argv' = argv /\ cpc' = "print" /\ cpc = "print"
    BY <1>5 DEF EchoExpand, EchoPrint, cvars
  <2> QED BY <2>1, SameArgs
<1>6. ASSUME XStep, UNCHANGED cvars PROVE ArgsMean'
  <2>1. exp' = exp /\ argv' = argv /\ cpc' = cpc
    BY <1>6 DEF cvars
  <2>2. xpc # "idle" /\ word' = word
    BY <1>6, StepKeeps
  <2>3. cpc # "none"
    BY <2>2 DEF ArgsMean
  <2> QED BY <2>1, <2>2, <2>3, SameArgs
<1>7. ASSUME UNCHANGED vars PROVE ArgsMean'
  <2>1. cpc' = cpc /\ exp' = exp /\ argv' = argv /\ xpc' = xpc /\ word' = word
    BY <1>7 DEF vars, cvars, xvars
  <2>2. \A n \in 1 .. Len(exp') : exp'[n] = Asked!Meaning(argv'[n])
    BY <2>1 DEF ArgsMean
  <2> QED BY <2>1, <2>2 DEF ArgsMean
<1> QED
  BY <1>1, <1>2, <1>3, <1>4, <1>5, <1>6, <1>7 DEF Next, CommandStep

(* The arguments a program or echo is given are what the words the parser  *)
(* left mean, one for each of them, in their order (exec.c:69).            *)
THEOREM ArgumentsMean == Spec => []ArgsMean
<1>1. WordsType /\ [Next]_vars => WordsType' /\ [XNext]_xvars
  BY WordsNext, StepOfExpand
<1>2. WordsType => XInv
  BY DEF WordsType
<1>3. XInv /\ Follows /\ [XNext]_xvars => Follows'
  BY FollowsNext
<1>4. WordsType /\ Follows /\ ArgsMean /\ [Next]_vars => ArgsMean'
  BY ArgsMeanNext
<1>5. Init => Follows
  BY FollowsInit DEF Init
<1> QED BY WordsInit, ArgsMeanInit, <1>1, <1>2, <1>3, <1>4, <1>5, PTL DEF Spec
-----------------------------------------------------------------------------
(* Characters that expand only copies, c, between those of a word w: when  *)
(* none is inside of what is a reference in w, what the longer word v      *)
(* reads as is, the c taken away, what w reads as (expansion.c:278).       *)

(* v is w with a c in some places between its characters: the one at i is  *)
(* at f[i] now, and may have a c in front of it.                           *)
Moves(w, v, c, f) ==
    /\ f[0] = 0 /\ f[Len(w)] = Len(v)
    /\ \A i \in 1 .. Len(w) :
          /\ v[f[i]] = w[i] /\ w[i] # c
          /\ f[i] = f[i - 1] + 1 \/ (f[i] = f[i - 1] + 2 /\ v[f[i] - 1] = c)

(* The positions are in their order, and every other one has a c. *)
LEMMA MovesUp ==
    ASSUME NEW w \in Seq(Char), NEW v \in Seq(Char), NEW c,
           NEW f \in [0 .. Len(w) -> Nat], Moves(w, v, c, f)
    PROVE  \A a \in 0 .. Len(w) : \A b \in a .. Len(w) : f[b] - f[a] >= b - a
<1> DEFINE n == Len(w)
<1>0. n \in Nat /\ Len(w) = n
  OBVIOUS
<1>1. ASSUME NEW i \in 1 .. n PROVE i - 1 \in 0 .. n /\ i \in 0 .. n /\ f[i] >= f[i - 1] + 1
  <2>1. i - 1 \in 0 .. n /\ i \in 0 .. n
    BY <1>0
  <2>2. f[i] = f[i - 1] + 1 \/ f[i] = f[i - 1] + 2
    BY DEF Moves
  <2> QED BY <2>1, <2>2
<1> HIDE DEF n
<1>2. ASSUME NEW a \in 0 .. n PROVE \A b \in a .. n : f[b] - f[a] >= b - a
  <2> DEFINE S == {b \in a .. n : f[b] - f[a] >= b - a}
  <2>1. a \in S
    BY <1>0
  <2>2. ASSUME NEW j \in a + 1 .. n, j - 1 \in S PROVE j \in S
    <3>1. j \in 1 .. n /\ j \in a .. n
      BY <1>0
    <3>2. f[j] >= f[j - 1] + 1 /\ f[j - 1] - f[a] >= j - 1 - a /\ j - 1 \in 0 .. n /\ j \in 0 .. n
      BY <1>1, <2>2, <3>1
    <3>3. f[j] \in Nat /\ f[j - 1] \in Nat /\ f[a] \in Nat
      BY <1>0, <3>2
    <3> QED BY <3>1, <3>2, <3>3
  <2>3. \A b \in a .. n : b \in S
    <3> HIDE DEF S
    <3>1. a \in Nat
      OBVIOUS
    <3> QED BY <1>0, <2>1, <2>2, <3>1, Climb, Zenon
  <2> QED BY <2>3
<1> QED BY <1>0, <1>2

LEMMA MovesRange ==
    ASSUME NEW w \in Seq(Char), NEW v \in Seq(Char), NEW c,
           NEW f \in [0 .. Len(w) -> Nat], Moves(w, v, c, f)
    PROVE  \A i \in 1 .. Len(w) : f[i] \in 1 .. Len(v) /\ f[i] >= i
<1>1. ASSUME NEW i \in 1 .. Len(w) PROVE f[i] \in 1 .. Len(v) /\ f[i] >= i
  <2>0. Len(w) \in Nat /\ i \in 0 .. Len(w) /\ 0 \in 0 .. Len(w) /\ Len(w) \in i .. Len(w)
        /\ i \in 0 .. Len(w) /\ Len(v) \in Nat
    OBVIOUS
  <2>1. f[i] - f[0] >= i - 0 /\ f[Len(w)] - f[i] >= Len(w) - i
    BY <2>0, MovesUp
  <2>2. f[0] = 0 /\ f[Len(w)] = Len(v) /\ f[i] \in Nat
    BY <2>0 DEF Moves
  <2> QED BY <2>0, <2>1, <2>2
<1> QED BY <1>1

LEMMA MovesOnto ==
    ASSUME NEW w \in Seq(Char), NEW v \in Seq(Char), NEW c,
           NEW f \in [0 .. Len(w) -> Nat], Moves(w, v, c, f),
           NEW q \in 1 .. Len(v), v[q] # c
    PROVE  \E i \in 1 .. Len(w) : q = f[i]
<1> DEFINE S == {i \in 0 .. Len(w) : f[i] >= q}
<1>0. Len(w) \in Nat /\ Len(v) \in Nat
  OBVIOUS
<1>1. S \in SUBSET Nat /\ S # {}
  <2>1. Len(w) \in S
    BY <1>0 DEF Moves
  <2> QED BY <2>1
<1>2. PICK m \in S : \A n \in S : m <= n
  <2> HIDE DEF S
  <2> QED BY <1>1, Least
<1>3. m \in 1 .. Len(w)
  <2>1. m # 0
    BY DEF Moves
  <2> QED BY <2>1
<1>4. m - 1 \in 0 .. Len(w) /\ m - 1 \notin S
  <2>1. m - 1 \in 0 .. Len(w) /\ ~(m <= m - 1)
    BY <1>3
  <2> HIDE DEF S
  <2> QED BY <1>2, <2>1
<1>5. f[m - 1] < q /\ f[m] >= q /\ f[m - 1] \in Nat /\ f[m] \in Nat
  <2>1. f[m - 1] \in Nat
    BY <1>4
  <2>2. m \in 0 .. Len(w) /\ f[m] \in Nat
    BY <1>3
  <2> QED BY <1>4, <2>1, <2>2
<1>6. f[m] = f[m - 1] + 1 \/ (f[m] = f[m - 1] + 2 /\ v[f[m] - 1] = c)
  BY <1>3 DEF Moves
<1>7. q = f[m] \/ (q = f[m] - 1 /\ v[f[m] - 1] = c)
  BY <1>5, <1>6
<1> QED BY <1>3, <1>7

(* m is how many of the characters from p on are in S. *)
Stretch(w, p, S, m) ==
    /\ m \in 0 .. Len(w) - p + 1
    /\ \A q \in p .. p + m - 1 : w[q] \in S
    /\ p + m <= Len(w) => w[p + m] \notin S

LEMMA RunWhen ==
    ASSUME NEW w \in Seq(Char), NEW p \in 1 .. Len(w) + 1, NEW S, NEW m, Stretch(w, p, S, m)
    PROVE  Asked!Run(w, p, S) = m
<1> DEFINE n == Len(w) - p + 1
           Fit == {j \in 0 .. n : \A q \in p .. p + j - 1 : w[q] \in S}
<1>0. /\ Len(w) \in Nat /\ n \in Nat /\ p \in Nat /\ m \in 0 .. n
      /\ \A q \in p .. p + m - 1 : w[q] \in S
      /\ p + m <= Len(w) => w[p + m] \notin S
  BY DEF Stretch
<1>1. m \in Fit
  BY <1>0
<1>2. ASSUME NEW j \in Fit PROVE m >= j
  <2>1. SUFFICES ASSUME j > m PROVE FALSE
    BY <1>0
  <2>2. p + m \in p .. p + j - 1 /\ m # n
    BY <1>0, <2>1
  <2>3. p + m <= Len(w)
    BY <1>0, <2>2
  <2> QED BY <1>0, <2>2, <2>3
<1>3. Asked!Run(w, p, S) = CHOOSE x \in Fit : \A y \in Fit : x >= y
  BY DEF Asked!Run, Asked!Max
<1>4. \A j \in Fit : j \in Nat
  BY <1>0
<1> HIDE DEF Fit
<1>5. \A x \in Fit : (\A y \in Fit : x >= y) => x = m
  BY <1>0, <1>1, <1>2, <1>4
<1> QED BY <1>1, <1>2, <1>3, <1>5

LEMMA RunFits ==
    ASSUME NEW w \in Seq(Char), NEW p \in 1 .. Len(w) + 1, NEW S
    PROVE  Stretch(w, p, S, Asked!Run(w, p, S))
<1> DEFINE n == Len(w) - p + 1
           Ends == {m \in 0 .. n : m = n \/ w[p + m] \notin S}
<1>0. Len(w) \in Nat /\ n \in Nat /\ p \in Nat
  OBVIOUS
<1>1. Ends \in SUBSET Nat /\ Ends # {}
  <2>1. n \in Ends
    BY <1>0
  <2>2. Ends \in SUBSET Nat
    OBVIOUS
  <2> HIDE DEF Ends
  <2> QED BY <2>1, <2>2
<1>2. PICK m \in Ends : \A j \in Ends : m <= j
  <2> HIDE DEF Ends
  <2> QED BY <1>1, Least
<1>3. m \in 0 .. n /\ m \in Nat /\ (m = n \/ w[p + m] \notin S)
  BY <1>0, <1>2
<1>4. ASSUME NEW q \in p .. p + m - 1 PROVE w[q] \in S
  <2>1. q - p \in 0 .. m - 1 /\ p + (q - p) = q /\ q - p \in 0 .. n
    BY <1>0, <1>3
  <2>2. q - p \notin Ends
    <3> HIDE DEF Ends
    <3> QED BY <1>0, <1>2, <1>3, <2>1
  <2> QED BY <2>1, <2>2
<1>5. Stretch(w, p, S, m)
  <2>1. p + m <= Len(w) => m # n
    BY <1>0, <1>3
  <2> QED BY <1>3, <1>4, <2>1 DEF Stretch
<1> HIDE DEF Ends
<1>6. Asked!Run(w, p, S) = m
  BY <1>5, RunWhen
<1> QED BY <1>5, <1>6

(* The m characters from q on in v are those from p on in w. *)
Like(w, p, v, q, m) == \A i \in 0 .. m - 1 : v[q + i] = w[p + i]

LEMMA SubSeqSame ==
    ASSUME NEW w \in Seq(Char), NEW v \in Seq(Char), NEW p \in Nat \ {0}, NEW q \in Nat \ {0},
           NEW m \in Nat, p + m - 1 <= Len(w), q + m - 1 <= Len(v),
           Like(w, p, v, q, m)
    PROVE  SubSeq(v, q, q + m - 1) = SubSeq(w, p, p + m - 1)
<1> DEFINE s == SubSeq(w, p, p + m - 1)
           t == SubSeq(v, q, q + m - 1)
<1>0. Len(w) \in Nat /\ Len(v) \in Nat
  OBVIOUS
<1>1. \A i \in p .. p + m - 1 : w[i] \in Char
  BY <1>0
<1>2. \A i \in q .. q + m - 1 : v[i] \in Char
  BY <1>0
<1>3. p \in Int /\ p + m - 1 \in Int /\ q \in Int /\ q + m - 1 \in Int
  OBVIOUS
<1>4. /\ s \in Seq(Char) /\ Len(s) = IF p <= p + m - 1 THEN (p + m - 1) - p + 1 ELSE 0
      /\ \A i \in 1 .. (p + m - 1) - p + 1 : s[i] = w[p + i - 1]
  BY <1>1, <1>3, SubSeqProperties, SMT
<1>5. /\ t \in Seq(Char) /\ Len(t) = IF q <= q + m - 1 THEN (q + m - 1) - q + 1 ELSE 0
      /\ \A i \in 1 .. (q + m - 1) - q + 1 : t[i] = v[q + i - 1]
  BY <1>2, <1>3, SubSeqProperties, SMT
<1> HIDE DEF s, t
<1>6. Len(s) = m /\ Len(t) = m
  BY <1>4, <1>5
<1>7. ASSUME NEW i \in 1 .. m PROVE t[i] = s[i]
  <2>1. s[i] = w[p + i - 1] /\ t[i] = v[q + i - 1]
    BY <1>4, <1>5
  <2>2. i - 1 \in 0 .. m - 1 /\ p + i - 1 = p + (i - 1) /\ q + i - 1 = q + (i - 1)
    OBVIOUS
  <2> QED BY <2>1, <2>2 DEF Like
<1>8. s = t
  BY <1>4, <1>5, <1>6, <1>7
<1> QED BY <1>8 DEF s, t

Has(w, p, S) == Asked!Has(w, p, S)

(* What is behind a character that was moved. *)
LEMMA Peek ==
    ASSUME NEW w \in Seq(Char), NEW v \in Seq(Char), NEW c,
           NEW f \in [0 .. Len(w) -> Nat], Moves(w, v, c, f),
           NEW i \in 1 .. Len(w), NEW S
    PROVE  /\ c \notin S /\ Has(v, f[i] + 1, S) => Has(w, i + 1, S)
           /\ Has(w, i + 1, S) /\ f[i + 1] = f[i] + 1 => Has(v, f[i] + 1, S)
<1>0. Len(w) \in Nat /\ Len(v) \in Nat /\ i \in Nat /\ f[i] \in Nat /\ f[Len(w)] = Len(v)
  BY DEF Moves
<1>1. ASSUME c \notin S, Has(v, f[i] + 1, S) PROVE Has(w, i + 1, S)
  <2>1. f[i] + 1 <= Len(v) /\ v[f[i] + 1] \in S
    BY <1>1 DEF Has, Asked!Has
  <2>2. i # Len(w)
    BY <1>0, <2>1
  <2>3. i + 1 \in 1 .. Len(w) /\ (i + 1) - 1 = i
    BY <1>0, <2>2
  <2>4. /\ v[f[i + 1]] = w[i + 1]
        /\ f[i + 1] = f[i] + 1 \/ (f[i + 1] = f[i] + 2 /\ v[f[i + 1] - 1] = c)
    BY <2>3 DEF Moves
  <2>5. f[i + 1] = f[i] + 1
    BY <1>0, <1>1, <2>1, <2>4
  <2> QED BY <1>0, <2>1, <2>3, <2>4, <2>5 DEF Has, Asked!Has
<1>2. ASSUME Has(w, i + 1, S), f[i + 1] = f[i] + 1 PROVE Has(v, f[i] + 1, S)
  <2>1. i + 1 <= Len(w) /\ w[i + 1] \in S
    BY <1>2 DEF Has, Asked!Has
  <2>2. i + 1 \in 1 .. Len(w)
    BY <1>0, <2>1
  <2>3. v[f[i + 1]] = w[i + 1]
    BY <2>2 DEF Moves
  <2>4. f[i + 1] \in 1 .. Len(v)
    BY <2>2, MovesRange
  <2> QED BY <1>0, <1>2, <2>1, <2>3, <2>4 DEF Has, Asked!Has
<1> QED BY <1>1, <1>2

Tight(f, d, r) == \A i \in d + 1 .. d + r - 1 : f[i] = f[i - 1] + 1
Along(f, d, r) == \A i \in 0 .. r - 1 : f[d + i] = f[d] + i

(* The characters of a stretch that holds together go with the first one.  *)
LEMMA MovesAlong ==
    ASSUME NEW w \in Seq(Char), NEW v \in Seq(Char), NEW c,
           NEW f \in [0 .. Len(w) -> Nat], Moves(w, v, c, f),
           NEW d \in 1 .. Len(w), NEW r \in Nat, d + r - 1 <= Len(w),
           Tight(f, d, r)
    PROVE  Along(f, d, r) /\ Like(w, d, v, f[d], r)
<1>0. Len(w) \in Nat /\ d \in Nat /\ f[d] \in Nat
  OBVIOUS
<1> DEFINE S == {i \in 0 .. r - 1 : f[d + i] = f[d] + i}
<1>1. ASSUME r # 0 PROVE 0 \in S
  BY <1>0, <1>1
<1>2. ASSUME NEW j \in 0 + 1 .. r - 1, j - 1 \in S PROVE j \in S
  <2>1. d + j \in d + 1 .. d + r - 1 /\ (d + j) - 1 = d + (j - 1) /\ j \in 0 .. r - 1
    BY <1>0
  <2>2. f[d + j] = f[d + (j - 1)] + 1
    BY <2>1 DEF Tight
  <2>3. f[d + (j - 1)] = f[d] + (j - 1)
    BY <1>2
  <2> QED BY <1>0, <2>1, <2>2, <2>3
<1>3. \A j \in 0 .. r - 1 : j \in S
  <2>1. CASE r = 0
    BY <2>1
  <2>2. CASE r # 0
    <3> DEFINE last == r - 1
    <3>1. last \in Nat /\ 0 \in Nat
      BY <2>2
    <3>2. \A j \in 0 + 1 .. last : j - 1 \in S => j \in S
      BY <1>2
    <3>3. 0 \in S
      BY <1>1, <2>2
    <3> HIDE DEF S, last
    <3>4. \A j \in 0 .. last : j \in S
      BY <3>1, <3>2, <3>3, Climb, Zenon
    <3> QED BY <3>4 DEF last
  <2> QED BY <2>1, <2>2
<1>4. ASSUME NEW i \in 0 .. r - 1 PROVE f[d + i] = f[d] + i /\ v[f[d] + i] = w[d + i]
  <2>1. f[d + i] = f[d] + i
    BY <1>3
  <2>2. d + i \in 1 .. Len(w)
    BY <1>0
  <2> QED BY <2>1, <2>2 DEF Moves
<1> QED BY <1>4 DEF Along, Like

(* What follows a $ is of one kind only. *)
LEMMA KindsDiffer ==
    ASSUME NEW w, NEW p
    PROVE  /\ Has(w, p, {"quest"}) => ~Has(w, p, Alpha) /\ ~Has(w, p, {"lb"})
           /\ Has(w, p, {"lb"}) => ~Has(w, p, Alpha)
BY CharAssumption DEF Has, Asked!Has, Mark

LEMMA ReferenceIs ==
    ASSUME NEW w, NEW p
    PROVE  /\ Has(w, p + 1, {"quest"}) =>
                  Asked!Reference(w, p) = [size |-> 2, value |-> Status]
           /\ Has(w, p + 1, Alpha) =>
                  LET named == Asked!Run(w, p + 1, Alpha \cup Numeric)
                  IN  Asked!Reference(w, p) =
                        [size |-> 1 + named, value |-> Value(SubSeq(w, p + 1, p + named))]
           /\ Has(w, p + 1, {"lb"}) /\ Has(w, p + 2, {"quest"}) =>
                  Asked!Reference(w, p) =
                      [size |-> 3 + Asked!Closing(w, p + 3), value |-> Status]
           /\ Has(w, p + 1, {"lb"}) /\ ~Has(w, p + 2, {"quest"}) =>
                  LET braced == Asked!Run(w, p + 2, Char \ {"rb"})
                  IN  Asked!Reference(w, p) =
                        [size |-> 2 + braced + Asked!Closing(w, p + 2 + braced),
                         value |-> IF braced = 0 THEN <<>>
                                   ELSE Value(SubSeq(w, p + 2, p + 1 + braced))]
           /\ ~Has(w, p + 1, {"quest"}) /\ ~Has(w, p + 1, Alpha) /\ ~Has(w, p + 1, {"lb"}) =>
                  Asked!Reference(w, p) = [size |-> 1, value |-> <<"dollar">>]
<1>1. /\ Has(w, p + 1, {"quest"}) => ~Has(w, p + 1, Alpha) /\ ~Has(w, p + 1, {"lb"})
      /\ Has(w, p + 1, {"lb"}) => ~Has(w, p + 1, Alpha)
  BY KindsDiffer
<1>2. Asked!Char = Char /\ \A name : Asked!Value(name) = Value(name)
  BY AskedSame
<1> DEFINE named == Asked!Run(w, p + 1, Alpha \cup Numeric)
           braced == Asked!Run(w, p + 2, Char \ {"rb"})
<1>3. Asked!Reference(w, p) =
        CASE Has(w, p + 1, {"quest"}) -> [size |-> 2, value |-> Status]
          [] Has(w, p + 1, Alpha) ->
                [size |-> 1 + named, value |-> Value(SubSeq(w, p + 1, p + named))]
          [] Has(w, p + 1, {"lb"}) /\ Has(w, p + 2, {"quest"}) ->
                [size |-> 3 + Asked!Closing(w, p + 3), value |-> Status]
          [] Has(w, p + 1, {"lb"}) /\ ~Has(w, p + 2, {"quest"}) ->
                [size |-> 2 + braced + Asked!Closing(w, p + 2 + braced),
                 value |-> IF braced = 0 THEN <<>>
                           ELSE Value(SubSeq(w, p + 2, p + 1 + braced))]
          [] OTHER -> [size |-> 1, value |-> <<"dollar">>]
  BY <1>2 DEF Asked!Reference, Has
<1>4. /\ Has(w, p + 1, {"quest"}) => Asked!Reference(w, p) = [size |-> 2, value |-> Status]
      /\ Has(w, p + 1, Alpha) =>
             Asked!Reference(w, p) =
                 [size |-> 1 + named, value |-> Value(SubSeq(w, p + 1, p + named))]
      /\ Has(w, p + 1, {"lb"}) /\ Has(w, p + 2, {"quest"}) =>
             Asked!Reference(w, p) = [size |-> 3 + Asked!Closing(w, p + 3), value |-> Status]
      /\ Has(w, p + 1, {"lb"}) /\ ~Has(w, p + 2, {"quest"}) =>
             Asked!Reference(w, p) =
                [size |-> 2 + braced + Asked!Closing(w, p + 2 + braced),
                 value |-> IF braced = 0 THEN <<>>
                           ELSE Value(SubSeq(w, p + 2, p + 1 + braced))]
      /\ ~Has(w, p + 1, {"quest"}) /\ ~Has(w, p + 1, Alpha) /\ ~Has(w, p + 1, {"lb"}) =>
             Asked!Reference(w, p) = [size |-> 1, value |-> <<"dollar">>]
  <2> HIDE DEF named, braced, Has
  <2> QED BY <1>1, <1>3
<1> QED BY <1>4

(* The name behind a $. *)
LEMMA SameName ==
    ASSUME NEW w \in Seq(Char), NEW v \in Seq(Char), NEW c \in Other,
           NEW f \in [0 .. Len(w) -> Nat], Moves(w, v, c, f),
           NEW d \in 1 .. Len(w), Has(w, d + 1, Alpha),
           Tight(f, d, Size(w, d))
    PROVE  Asked!Reference(v, f[d]) = Asked!Reference(w, d)
<1> DEFINE AN == Alpha \cup Numeric
           m == Asked!Run(w, d + 1, AN)
<1>0. Len(w) \in Nat /\ Len(v) \in Nat /\ d \in Nat /\ f[d] \in 1 .. Len(v) /\ f[d] \in Nat
  BY MovesRange
<1>1. d + 1 <= Len(w) /\ w[d + 1] \in AN /\ d + 1 \in 1 .. Len(w) + 1
  BY <1>0 DEF Has, Asked!Has
<1>2. Stretch(w, d + 1, AN, m)
  BY <1>1, RunFits
<1>3. Asked!Reference(w, d) = [size |-> 1 + m, value |-> Value(SubSeq(w, d + 1, d + m))]
  BY ReferenceIs
<1> HIDE DEF m, AN
<1>4. m \in Nat /\ d + m <= Len(w) /\ m # 0
  BY <1>0, <1>1, <1>2 DEF Stretch
<1>5. Size(w, d) = 1 + m
  BY <1>3 DEF Size
<1>6. \A i \in 0 .. (m + 1) - 1 : f[d + i] = f[d] + i /\ v[f[d] + i] = w[d + i]
  <2>1. m + 1 \in Nat /\ d + (m + 1) - 1 <= Len(w) /\ Tight(f, d, m + 1)
    BY <1>0, <1>4, <1>5
  <2>2. Along(f, d, m + 1) /\ Like(w, d, v, f[d], m + 1)
    BY <2>1, MovesAlong
  <2> QED BY <2>2 DEF Along, Like
<1>7. d + m \in 1 .. Len(w) /\ f[d + m] = f[d] + m /\ f[d + m] \in 1 .. Len(v)
  <2>1. d + m \in 1 .. Len(w)
    BY <1>0, <1>4
  <2>2. m \in 0 .. (m + 1) - 1
    BY <1>4
  <2> QED BY <1>6, <2>1, <2>2, MovesRange
<1>8. c \notin AN /\ c \notin Alpha
  BY CharAssumption DEF AN
<1>9. Stretch(v, f[d] + 1, AN, m)
  <2>1. m \in 0 .. Len(v) - (f[d] + 1) + 1
    BY <1>0, <1>4, <1>7
  <2>2. ASSUME NEW q \in f[d] + 1 .. (f[d] + 1) + m - 1 PROVE v[q] \in AN
    <3>1. q - f[d] \in 0 .. (m + 1) - 1 /\ f[d] + (q - f[d]) = q
      BY <1>0, <1>4
    <3>2. v[q] = w[d + (q - f[d])]
      BY <1>6, <3>1
    <3>3. d + (q - f[d]) \in d + 1 .. (d + 1) + m - 1
      BY <1>0, <1>4
    <3> QED BY <1>2, <3>2, <3>3 DEF Stretch
  <2>3. ASSUME (f[d] + 1) + m <= Len(v), v[(f[d] + 1) + m] \in AN PROVE FALSE
    <3>1. (f[d] + 1) + m = f[d + m] + 1
      BY <1>0, <1>4, <1>7
    <3>2. Has(v, f[d + m] + 1, AN)
      BY <2>3, <3>1 DEF Has, Asked!Has
    <3>3. Has(w, (d + m) + 1, AN)
      BY <1>7, <1>8, <3>2, Peek
    <3>4. (d + m) + 1 = (d + 1) + m
      BY <1>0, <1>4
    <3> QED BY <1>2, <3>3, <3>4 DEF Has, Asked!Has, Stretch
  <2> QED BY <2>1, <2>2, <2>3 DEF Stretch
<1>10. Asked!Run(v, f[d] + 1, AN) = m
  <2>1. f[d] + 1 \in 1 .. Len(v) + 1
    BY <1>0
  <2> QED BY <1>9, <2>1, RunWhen
<1>11. Has(v, f[d] + 1, Alpha)
  <2>1. f[d + 1] = f[d] + 1
    <3>1. 1 \in 0 .. (m + 1) - 1
      BY <1>4
    <3> QED BY <1>6, <3>1
  <2> QED BY <2>1, Peek
<1>12. SubSeq(v, f[d] + 1, f[d] + m) = SubSeq(w, d + 1, d + m)
  <2> DEFINE p == d + 1
             q == f[d] + 1
  <2>1. /\ p \in Nat \ {0} /\ q \in Nat \ {0} /\ p + m - 1 = d + m /\ q + m - 1 = f[d] + m
        /\ p + m - 1 <= Len(w) /\ q + m - 1 <= Len(v)
    BY <1>0, <1>4, <1>7
  <2>2. ASSUME NEW i \in 0 .. m - 1 PROVE v[q + i] = w[p + i]
    <3>1. i + 1 \in 0 .. (m + 1) - 1 /\ f[d] + (i + 1) = q + i /\ d + (i + 1) = p + i
      BY <1>0, <1>4
    <3>2. v[f[d] + (i + 1)] = w[d + (i + 1)]
      BY <1>6, <3>1
    <3> HIDE DEF p, q
    <3> QED BY <3>1, <3>2
  <2>3. Like(w, p, v, q, m)
    BY <2>2 DEF Like
  <2> HIDE DEF p, q
  <2>4. SubSeq(v, q, q + m - 1) = SubSeq(w, p, p + m - 1)
    BY <1>4, <2>1, <2>3, SubSeqSame
  <2> QED BY <2>1, <2>4 DEF p, q
<1>13. Asked!Reference(v, f[d]) =
           [size |-> 1 + m, value |-> Value(SubSeq(v, f[d] + 1, f[d] + m))]
  BY <1>10, <1>11, ReferenceIs DEF AN
<1> QED BY <1>3, <1>12, <1>13

(* What is between the braces behind a $. *)
LEMMA SameBraced ==
    ASSUME NEW w \in Seq(Char), NEW v \in Seq(Char), NEW c \in Other,
           NEW f \in [0 .. Len(w) -> Nat], Moves(w, v, c, f),
           NEW d \in 1 .. Len(w), Has(w, d + 1, {"lb"}), ~Has(w, d + 2, {"quest"}),
           Tight(f, d, Size(w, d))
    PROVE  Asked!Reference(v, f[d]) = Asked!Reference(w, d)
<1> DEFINE B == Char \ {"rb"}
           m == Asked!Run(w, d + 2, B)
           cl == Asked!Closing(w, d + 2 + m)
<1>0. Len(w) \in Nat /\ Len(v) \in Nat /\ d \in Nat /\ f[d] \in 1 .. Len(v) /\ f[d] \in Nat
      /\ f[Len(w)] = Len(v)
  <2>1. f[d] \in 1 .. Len(v)
    BY MovesRange
  <2> QED BY <2>1 DEF Moves
<1>1. d + 1 <= Len(w) /\ d + 2 \in 1 .. Len(w) + 1
  BY <1>0 DEF Has, Asked!Has
<1>2. Stretch(w, d + 2, B, m)
  BY <1>1, RunFits
<1>3. Asked!Reference(w, d) =
          [size |-> 2 + m + cl,
           value |-> IF m = 0 THEN <<>> ELSE Value(SubSeq(w, d + 2, d + 1 + m))]
  BY ReferenceIs
<1>c. cl = IF Has(w, d + 2 + m, {"rb"}) THEN 1 ELSE 0
  BY DEF Asked!Closing, Has, Asked!Has
<1> HIDE DEF m, cl, B
<1>4. m \in Nat /\ d + 1 + m <= Len(w) /\ cl \in {0, 1} /\ cl \in Nat
  BY <1>0, <1>1, <1>2, <1>c DEF Stretch
<1>5. Size(w, d) = 2 + m + cl
  BY <1>3 DEF Size
<1>6. IF cl = 1 THEN d + 2 + m <= Len(w) /\ w[d + 2 + m] = "rb"
                ELSE d + 1 + m = Len(w)
  <2>1. CASE cl = 1
    BY <1>c, <2>1 DEF Has, Asked!Has
  <2>2. CASE cl # 1
    <3>1. SUFFICES ASSUME d + 2 + m <= Len(w) PROVE FALSE
      BY <1>0, <1>4, <2>2
    <3>2. w[d + 2 + m] # "rb"
      BY <1>c, <2>2, <3>1 DEF Has, Asked!Has
    <3>3. w[d + 2 + m] \in Char
      <4>1. d + 2 + m \in 1 .. Len(w)
        BY <1>0, <1>4, <3>1
      <4> QED BY <4>1
    <3> QED BY <1>2, <3>1, <3>2, <3>3 DEF Stretch, B
  <2> QED BY <2>1, <2>2
<1>7. \A i \in 0 .. 1 + m + cl : f[d + i] = f[d] + i /\ v[f[d] + i] = w[d + i]
  <2>1. 2 + m + cl \in Nat /\ d + (2 + m + cl) - 1 <= Len(w)
    BY <1>0, <1>4, <1>6
  <2>2. Tight(f, d, 2 + m + cl)
    BY <1>5
  <2>3. Along(f, d, 2 + m + cl) /\ Like(w, d, v, f[d], 2 + m + cl)
    BY <2>1, <2>2, MovesAlong
  <2>4. (2 + m + cl) - 1 = 1 + m + cl
    BY <1>4
  <2> QED BY <2>3, <2>4 DEF Along, Like
<1>8. d + 1 + m \in 1 .. Len(w) /\ f[d + 1 + m] = f[d] + 1 + m /\ f[d + 1 + m] \in 1 .. Len(v)
  <2>1. d + 1 + m \in 1 .. Len(w)
    BY <1>0, <1>4
  <2>2. 1 + m \in 0 .. 1 + m + cl /\ d + (1 + m) = d + 1 + m /\ f[d] + (1 + m) = f[d] + 1 + m
    BY <1>0, <1>4
  <2>3. f[d + (1 + m)] = f[d] + (1 + m)
    BY <1>7, <2>2
  <2> QED BY <2>1, <2>2, <2>3, MovesRange
<1>9. IF cl = 1 THEN f[d] + 2 + m <= Len(v) /\ v[f[d] + 2 + m] = "rb"
                ELSE f[d] + 1 + m = Len(v)
  <2>1. CASE cl = 1
    <3>1. 2 + m \in 0 .. 1 + m + cl /\ d + (2 + m) = d + 2 + m /\ f[d] + (2 + m) = f[d] + 2 + m
      BY <1>0, <1>4, <2>1
    <3>2. f[d + (2 + m)] = f[d] + (2 + m) /\ v[f[d] + (2 + m)] = w[d + (2 + m)]
      BY <1>7, <3>1
    <3>3. d + 2 + m \in 1 .. Len(w)
      BY <1>0, <1>4, <1>6, <2>1
    <3>4. f[d + 2 + m] \in 1 .. Len(v)
      BY <3>3, MovesRange
    <3> QED BY <1>0, <1>6, <2>1, <3>1, <3>2, <3>4
  <2>2. CASE cl # 1
    BY <1>0, <1>6, <1>8, <2>2
  <2> QED BY <2>1, <2>2
<1>10. Stretch(v, f[d] + 2, B, m)
  <2>1. m \in 0 .. Len(v) - (f[d] + 2) + 1
    BY <1>0, <1>4, <1>8
  <2>2. ASSUME NEW q \in f[d] + 2 .. (f[d] + 2) + m - 1 PROVE v[q] \in B
    <3>1. q - f[d] \in 0 .. 1 + m + cl /\ f[d] + (q - f[d]) = q
      BY <1>0, <1>4
    <3>2. v[q] = w[d + (q - f[d])]
      BY <1>7, <3>1
    <3>3. d + (q - f[d]) \in d + 2 .. (d + 2) + m - 1
      BY <1>0, <1>4
    <3> QED BY <1>2, <3>2, <3>3 DEF Stretch
  <2>3. ASSUME (f[d] + 2) + m <= Len(v) PROVE v[(f[d] + 2) + m] \notin B
    <3>1. cl = 1
      BY <1>0, <1>4, <1>9, <2>3
    <3> QED BY <1>9, <3>1 DEF B
  <2> QED BY <2>1, <2>2, <2>3 DEF Stretch
<1>11. Asked!Run(v, f[d] + 2, B) = m
  <2>1. f[d] + 2 \in 1 .. Len(v) + 1
    BY <1>0, <1>4, <1>8
  <2> QED BY <1>10, <2>1, RunWhen
<1>12. Has(v, f[d] + 1, {"lb"}) /\ f[d + 1] = f[d] + 1
  <2>1. f[d + 1] = f[d] + 1
    <3>1. 1 \in 0 .. 1 + m + cl
      BY <1>4
    <3> QED BY <1>7, <3>1
  <2> QED BY <2>1, Peek
<1>13. ~Has(v, f[d] + 2, {"quest"})
  <2>1. f[d] + 2 = f[d + 1] + 1 /\ d + 1 \in 1 .. Len(w) /\ d + 2 = (d + 1) + 1
    BY <1>0, <1>1, <1>12
  <2>2. c \notin {"quest"}
    BY CharAssumption DEF Mark
  <2> QED BY <2>1, <2>2, Peek
<1>14. SubSeq(v, f[d] + 2, f[d] + 1 + m) = SubSeq(w, d + 2, d + 1 + m)
  <2> DEFINE p == d + 2
             q == f[d] + 2
  <2>1. p \in Nat \ {0} /\ q \in Nat \ {0} /\ p + m - 1 = d + 1 + m /\ q + m - 1 = f[d] + 1 + m
    BY <1>0, <1>4
  <2>2. p + m - 1 <= Len(w) /\ q + m - 1 <= Len(v)
    BY <1>0, <1>4, <1>8
  <2>3. ASSUME NEW i \in 0 .. m - 1 PROVE v[q + i] = w[p + i]
    <3>1. i + 2 \in 0 .. 1 + m + cl /\ f[d] + (i + 2) = q + i /\ d + (i + 2) = p + i
      BY <1>0, <1>4
    <3>2. v[f[d] + (i + 2)] = w[d + (i + 2)]
      BY <1>7, <3>1
    <3> HIDE DEF p, q
    <3> QED BY <3>1, <3>2
  <2>4. Like(w, p, v, q, m)
    BY <2>3 DEF Like
  <2> HIDE DEF p, q
  <2>5. SubSeq(v, q, q + m - 1) = SubSeq(w, p, p + m - 1)
    BY <1>4, <2>1, <2>2, <2>4, SubSeqSame
  <2> QED BY <2>1, <2>5 DEF p, q
<1>15. Asked!Closing(v, f[d] + 2 + m) = cl
  <2>1. Asked!Closing(v, f[d] + 2 + m) = IF Has(v, f[d] + 2 + m, {"rb"}) THEN 1 ELSE 0
    BY DEF Asked!Closing, Has, Asked!Has
  <2>2. CASE cl = 1
    BY <1>9, <2>1, <2>2 DEF Has, Asked!Has
  <2>3. CASE cl # 1
    <3>1. ~(f[d] + 2 + m <= Len(v))
      BY <1>0, <1>4, <1>9, <2>3
    <3> QED BY <1>4, <2>1, <2>3, <3>1 DEF Has, Asked!Has
  <2> QED BY <2>2, <2>3
<1>16. Asked!Reference(v, f[d]) =
          [size |-> 2 + m + cl,
           value |-> IF m = 0 THEN <<>> ELSE Value(SubSeq(v, f[d] + 2, f[d] + 1 + m))]
  BY <1>11, <1>12, <1>13, <1>15, ReferenceIs DEF B
<1>17. (IF m = 0 THEN <<>> ELSE Value(SubSeq(v, f[d] + 2, f[d] + 1 + m)))
           = (IF m = 0 THEN <<>> ELSE Value(SubSeq(w, d + 2, d + 1 + m)))
  BY <1>14
<1> QED BY <1>3, <1>16, <1>17

LEMMA SameStatus ==
    ASSUME NEW w \in Seq(Char), NEW v \in Seq(Char), NEW c \in Other,
           NEW f \in [0 .. Len(w) -> Nat], Moves(w, v, c, f),
           NEW d \in 1 .. Len(w), Has(w, d + 1, {"lb"}), Has(w, d + 2, {"quest"}),
           Tight(f, d, Size(w, d))
    PROVE  Asked!Reference(v, f[d]) = Asked!Reference(w, d)
<1> DEFINE cl == Asked!Closing(w, d + 3)
<1>0. Len(w) \in Nat /\ Len(v) \in Nat /\ d \in Nat /\ f[d] \in Nat
      /\ d + 2 \in 1 .. Len(w) /\ d + 1 \in 1 .. Len(w)
  BY DEF Has, Asked!Has
<1>c. cl = IF Has(w, d + 3, {"rb"}) THEN 1 ELSE 0
  BY DEF Asked!Closing, Has, Asked!Has
<1>1. Asked!Reference(w, d) = [size |-> 3 + cl, value |-> Status]
  BY ReferenceIs
<1> HIDE DEF cl
<1>2. Size(w, d) = 3 + cl /\ cl \in {0, 1}
  BY <1>1, <1>c DEF Size
<1>3. \A i \in d + 1 .. d + 2 + cl : f[i] = f[i - 1] + 1
  BY <1>0, <1>2 DEF Tight
<1>4. f[d + 1] = f[d] + 1 /\ f[d + 2] = f[d] + 2 /\ (cl = 1 => f[d + 3] = f[d] + 3)
  <2>1. f[d + 1] = f[d] + 1
    <3>1. d + 1 \in d + 1 .. d + 2 + cl /\ (d + 1) - 1 = d
      BY <1>0, <1>2
    <3> QED BY <1>3, <3>1
  <2>2. f[d + 2] = f[d + 1] + 1
    <3>1. d + 2 \in d + 1 .. d + 2 + cl /\ (d + 2) - 1 = d + 1
      BY <1>0, <1>2
    <3> QED BY <1>3, <3>1
  <2>3. cl = 1 => f[d + 3] = f[d + 2] + 1
    <3>1. cl = 1 => d + 3 \in d + 1 .. d + 2 + cl /\ (d + 3) - 1 = d + 2
      BY <1>0, <1>2
    <3> QED BY <1>3, <3>1
  <2> QED BY <1>0, <2>1, <2>2, <2>3
<1>5. Has(v, f[d] + 1, {"lb"})
  BY <1>4, Peek
<1>6. Has(v, f[d] + 2, {"quest"})
  <2>1. f[d] + 2 = f[d + 1] + 1 /\ d + 2 = (d + 1) + 1
    BY <1>0, <1>4
  <2>2. f[(d + 1) + 1] = f[d + 1] + 1
    BY <1>0, <1>4, <2>1
  <2> QED BY <1>0, <2>1, <2>2, Peek
<1>7. Asked!Closing(v, f[d] + 3) = cl
  <2>1. Asked!Closing(v, f[d] + 3) = IF Has(v, f[d] + 3, {"rb"}) THEN 1 ELSE 0
    BY DEF Asked!Closing, Has, Asked!Has
  <2>2. f[d] + 3 = f[d + 2] + 1 /\ d + 3 = (d + 2) + 1 /\ c \notin {"rb"}
    BY <1>0, <1>4, CharAssumption DEF Mark
  <2>3. Has(v, f[d + 2] + 1, {"rb"}) => Has(w, (d + 2) + 1, {"rb"})
    BY <1>0, <2>2, Peek
  <2>4. Has(w, (d + 2) + 1, {"rb"}) /\ f[(d + 2) + 1] = f[d + 2] + 1 => Has(v, f[d + 2] + 1, {"rb"})
    BY <1>0, <2>2, Peek
  <2>5. cl = 1 => f[(d + 2) + 1] = f[d + 2] + 1
    BY <1>0, <1>4, <2>2
  <2> QED BY <1>c, <2>1, <2>2, <2>3, <2>4, <2>5
<1> QED BY <1>1, <1>5, <1>6, <1>7, ReferenceIs

LEMMA SameReference ==
    ASSUME NEW w \in Seq(Char), NEW v \in Seq(Char), NEW c \in Other,
           NEW f \in [0 .. Len(w) -> Nat], Moves(w, v, c, f),
           NEW d \in 1 .. Len(w), Tight(f, d, Size(w, d))
    PROVE  Asked!Reference(v, f[d]) = Asked!Reference(w, d)
<1>0. d \in Nat /\ f[d] \in Nat
  OBVIOUS
<1>1. c \notin {"quest"} /\ c \notin Alpha /\ c \notin {"lb"}
  BY CharAssumption DEF Mark
<1>2. CASE Has(w, d + 1, {"quest"})
  <2>1. Asked!Reference(w, d) = [size |-> 2, value |-> Status]
    BY <1>2, ReferenceIs
  <2>2. f[d + 1] = f[d] + 1
    <3>1. d + 1 \in d + 1 .. d + Size(w, d) - 1 /\ (d + 1) - 1 = d
      BY <1>0, <2>1 DEF Size
    <3> QED BY <3>1 DEF Tight
  <2>3. Has(v, f[d] + 1, {"quest"})
    BY <1>2, <2>2, Peek
  <2> QED BY <2>1, <2>3, ReferenceIs
<1>3. CASE Has(w, d + 1, Alpha)
  BY <1>3, SameName
<1>4. CASE Has(w, d + 1, {"lb"}) /\ Has(w, d + 2, {"quest"})
  BY <1>4, SameStatus
<1>5. CASE Has(w, d + 1, {"lb"}) /\ ~Has(w, d + 2, {"quest"})
  BY <1>5, SameBraced
<1>6. CASE ~Has(w, d + 1, {"quest"}) /\ ~Has(w, d + 1, Alpha) /\ ~Has(w, d + 1, {"lb"})
  <2>1. ~Has(v, f[d] + 1, {"quest"}) /\ ~Has(v, f[d] + 1, Alpha) /\ ~Has(v, f[d] + 1, {"lb"})
    BY <1>1, <1>6, Peek
  <2> QED BY <1>6, <2>1, ReferenceIs
<1> QED BY <1>2, <1>3, <1>4, <1>5, <1>6

(* A reference ends where the word ends, at the latest. *)
LEMMA SizeFits ==
    ASSUME NEW w \in Seq(Char), NEW d \in 1 .. Len(w)
    PROVE  Size(w, d) \in 1 .. Len(w) - d + 1
<1>0. Len(w) \in Nat /\ d \in Nat /\ d <= Len(w)
  OBVIOUS
<1>1. \A p, S : Has(w, p, S) => p <= Len(w)
  BY DEF Has, Asked!Has
<1>2. \A p : /\ Asked!Closing(w, p) \in {0, 1}
             /\ Asked!Closing(w, p) = 1 => p <= Len(w)
  BY DEF Asked!Closing, Asked!Has
<1>3. \A S : \A p \in 1 .. Len(w) + 1 : Asked!Run(w, p, S) \in 0 .. Len(w) - p + 1
  BY RunFits DEF Stretch
<1>4. CASE Has(w, d + 1, {"quest"})
  <2>1. Size(w, d) = 2
    BY <1>4, ReferenceIs DEF Size
  <2> QED BY <1>0, <1>1, <1>4, <2>1
<1>5. CASE Has(w, d + 1, Alpha)
  <2> DEFINE m == Asked!Run(w, d + 1, Alpha \cup Numeric)
  <2>1. Asked!Reference(w, d) = [size |-> 1 + m, value |-> Value(SubSeq(w, d + 1, d + m))]
    BY <1>5, ReferenceIs
  <2>2. Size(w, d) = 1 + m
    BY <2>1 DEF Size
  <2>3. m \in 0 .. Len(w) - (d + 1) + 1
    BY <1>0, <1>3
  <2> HIDE DEF m
  <2> QED BY <1>0, <2>2, <2>3
<1>6. CASE Has(w, d + 1, {"lb"}) /\ Has(w, d + 2, {"quest"})
  <2> DEFINE cl == Asked!Closing(w, d + 3)
  <2>1. Size(w, d) = 3 + cl
    BY <1>6, ReferenceIs DEF Size
  <2>2. cl \in {0, 1} /\ (cl = 1 => d + 3 <= Len(w)) /\ d + 2 <= Len(w)
    BY <1>1, <1>2, <1>6
  <2> HIDE DEF cl
  <2> QED BY <1>0, <2>1, <2>2
<1>7. CASE Has(w, d + 1, {"lb"}) /\ ~Has(w, d + 2, {"quest"})
  <2> DEFINE m == Asked!Run(w, d + 2, Char \ {"rb"})
             cl == Asked!Closing(w, d + 2 + m)
  <2>1. Asked!Reference(w, d) =
            [size |-> 2 + m + cl,
             value |-> IF m = 0 THEN <<>> ELSE Value(SubSeq(w, d + 2, d + 1 + m))]
    BY <1>7, ReferenceIs
  <2>2. d + 2 \in 1 .. Len(w) + 1
    BY <1>0, <1>1, <1>7
  <2>3. m \in 0 .. Len(w) - (d + 2) + 1
    BY <1>3, <2>2
  <2>4. cl \in {0, 1} /\ (cl = 1 => d + 2 + m <= Len(w))
    BY <1>2
  <2> HIDE DEF m, cl
  <2>5. Size(w, d) = 2 + m + cl
    BY <2>1 DEF Size
  <2> QED BY <1>0, <2>2, <2>3, <2>4, <2>5
<1>8. CASE ~Has(w, d + 1, {"quest"}) /\ ~Has(w, d + 1, Alpha) /\ ~Has(w, d + 1, {"lb"})
  <2>1. Size(w, d) = 1
    BY <1>8, ReferenceIs DEF Size
  <2> QED BY <1>0, <2>1
<1> QED BY <1>4, <1>5, <1>6, <1>7, <1>8

(* No c was put inside of what is a reference in w. *)
Together(w, f) == \A d \in 1 .. Len(w) : w[d] = "dollar" => Tight(f, d, Size(w, d))

LEMMA CoveredMoves ==
    ASSUME NEW w \in Seq(Char), NEW v \in Seq(Char), NEW c \in Other,
           NEW f \in [0 .. Len(w) -> Nat], Moves(w, v, c, f), Together(w, f)
    PROVE  \A i \in 1 .. Len(w) : Covered(v)[f[i]] = Covered(w)[i]
<1> DEFINE Differ == {i \in 1 .. Len(w) : Covered(v)[f[i]] # Covered(w)[i]}
<1>0. Len(w) \in Nat /\ Len(v) \in Nat
  OBVIOUS
<1>1. SUFFICES ASSUME Differ # {} PROVE FALSE
  OBVIOUS
<1>2. Differ \in SUBSET Nat
  OBVIOUS
<1>3. PICK m \in Differ : \A n \in Differ : m <= n
  <2> HIDE DEF Differ
  <2> QED BY <1>1, <1>2, Least, Zenon
<1>4. m \in 1 .. Len(w) /\ Covered(v)[f[m]] # Covered(w)[m]
  OBVIOUS
<1>5. \A q \in 1 .. m - 1 : q \in 1 .. Len(w) /\ Covered(v)[f[q]] = Covered(w)[q]
  <2>1. ASSUME NEW q \in 1 .. m - 1 PROVE q \in 1 .. Len(w) /\ q \notin Differ
    <3>1. q \in 1 .. Len(w) /\ ~(m <= q)
      BY <1>4
    <3> HIDE DEF Differ
    <3> QED BY <1>3, <3>1
  <2> QED BY <2>1
<1> HIDE DEF Differ
<1>6. \A i \in 1 .. Len(w) : f[i] \in 1 .. Len(v) /\ f[i] \in Nat
  BY MovesRange
<1>7. \A q \in 1 .. Len(w) : w[q] = "dollar" =>
          /\ v[f[q]] = "dollar" /\ Size(v, f[q]) = Size(w, q)
          /\ Size(w, q) \in 1 .. Len(w) - q + 1
  <2>1. ASSUME NEW q \in 1 .. Len(w), w[q] = "dollar"
        PROVE  v[f[q]] = "dollar" /\ Size(v, f[q]) = Size(w, q)
    BY <2>1, SameReference DEF Moves, Together, Size
  <2> QED BY <2>1, SizeFits
<1>8. ASSUME Covered(w)[m] PROVE Covered(v)[f[m]]
  <2>1. PICK q \in 1 .. m - 1 : w[q] = "dollar" /\ ~Covered(w)[q] /\ m < q + Size(w, q)
    BY <1>4, <1>8, CoveredIs
  <2> DEFINE r == Size(w, q)
  <2>2. q \in 1 .. Len(w) /\ r \in 1 .. Len(w) - q + 1 /\ v[f[q]] = "dollar"
        /\ Size(v, f[q]) = r /\ ~Covered(v)[f[q]] /\ Tight(f, q, r)
    BY <1>5, <1>7, <2>1 DEF Together
  <2> HIDE DEF r
  <2>3. r \in Nat /\ q + r - 1 <= Len(w)
    BY <1>0, <2>2
  <2>4. Along(f, q, r)
    BY <2>2, <2>3, MovesAlong
  <2>5. m - q \in 0 .. r - 1 /\ q + (m - q) = m /\ m - q >= 1
    BY <1>4, <2>1, <2>2 DEF r
  <2>6. f[m] = f[q] + (m - q)
    BY <2>4, <2>5 DEF Along
  <2>7. f[q] \in 1 .. f[m] - 1 /\ f[m] < f[q] + r /\ f[m] \in 1 .. Len(v)
    BY <1>4, <1>6, <2>2, <2>5, <2>6
  <2> QED BY <2>2, <2>7, CoveredIs
<1>9. ASSUME Covered(v)[f[m]] PROVE Covered(w)[m]
  <2>1. f[m] \in 1 .. Len(v)
    BY <1>4, <1>6
  <2>2. PICK p \in 1 .. f[m] - 1 : v[p] = "dollar" /\ ~Covered(v)[p] /\ f[m] < p + Size(v, p)
    BY <1>9, <2>1, CoveredIs
  <2>3. p \in 1 .. Len(v) /\ v[p] # c
    BY <2>1, <2>2, CharAssumption DEF Mark
  <2>4. PICK q \in 1 .. Len(w) : p = f[q]
    BY <2>3, MovesOnto
  <2>5. w[q] = "dollar"
    BY <2>2, <2>4 DEF Moves
  <2>6. q < m
    <3>1. SUFFICES ASSUME q >= m PROVE FALSE
      BY <1>4
    <3>2. m \in 0 .. Len(w) /\ q \in m .. Len(w)
      BY <1>4, <3>1
    <3>3. f[q] - f[m] >= q - m
      BY <3>2, MovesUp
    <3> QED BY <1>4, <1>6, <2>2, <2>4, <3>1, <3>3
  <2>7. q \in 0 .. Len(w) /\ m \in q .. Len(w)
    BY <1>4, <2>6
  <2>8. f[m] - f[q] >= m - q
    BY <2>7, MovesUp
  <2>9. Size(v, p) = Size(w, q) /\ Size(w, q) \in 1 .. Len(w) - q + 1
    BY <1>7, <2>4, <2>5
  <2>10. m < q + Size(w, q)
    BY <1>4, <1>6, <2>2, <2>4, <2>8, <2>9
  <2>11. q \in 1 .. m - 1 /\ ~Covered(w)[q]
    BY <1>4, <1>5, <2>2, <2>4, <2>6
  <2> QED BY <1>4, <2>5, <2>10, <2>11, CoveredIs
<1>10. Covered(w)[m] \in BOOLEAN /\ Covered(v)[f[m]] \in BOOLEAN
  BY <1>4, <1>6, CoveredIs
<1> QED BY <1>4, <1>8, <1>9, <1>10

(* s without its cs. *)
Without(s, c) == FlattenSeq([n \in DOMAIN s |-> IF s[n] = c THEN <<>> ELSE <<s[n]>>])

LEMMA WithoutIs ==
    ASSUME NEW s \in Seq(Char), NEW c
    PROVE  \E g \in [0 .. Len(s) -> Seq(Char)] :
               /\ g[0] = <<>>
               /\ \A j \in 1 .. Len(s) : g[j] = g[j - 1] \o (IF s[j] = c THEN <<>> ELSE <<s[j]>>)
               /\ Without(s, c) = g[Len(s)]
<1> DEFINE t == [n \in DOMAIN s |-> IF s[n] = c THEN <<>> ELSE <<s[n]>>]
<1>1. Len(s) \in Nat /\ DOMAIN s = 1 .. Len(s)
  OBVIOUS
<1>2. \A j \in 1 .. Len(s) : (IF s[j] = c THEN <<>> ELSE <<s[j]>>) \in Seq(Char)
  OBVIOUS
<1>3. t \in Seq(Seq(Char)) /\ Len(t) = Len(s)
  BY <1>1, <1>2
<1>4. \A j \in 1 .. Len(s) : t[j] = IF s[j] = c THEN <<>> ELSE <<s[j]>>
  BY <1>1
<1>5. Without(s, c) = FlattenSeq(t)
  BY DEF Without
<1> HIDE DEF t
<1>6. PICK g \in [0 .. Len(t) -> Seq(Char)] :
          /\ g[0] = <<>>
          /\ \A j \in 1 .. Len(t) : g[j] = g[j - 1] \o t[j]
          /\ FlattenSeq(t) = g[Len(t)]
  BY <1>3, Flat
<1> QED BY <1>3, <1>4, <1>5, <1>6

(* What is put behind comes behind. *)
LEMMA WithoutJoins ==
    ASSUME NEW a \in Seq(Char), NEW b \in Seq(Char), NEW c, \A j \in 1 .. Len(b) : b[j] # c
    PROVE  Without(a \o b, c) = Without(a, c) \o b /\ Without(a, c) \in Seq(Char)
<1> DEFINE s == a \o b
           n == Len(a)
           m == Len(b)
<1>0. /\ s \in Seq(Char) /\ n \in Nat /\ m \in Nat /\ Len(s) = n + m
      /\ \A j \in 1 .. n : s[j] = a[j]
      /\ \A j \in 1 .. m : s[n + j] = b[j]
  OBVIOUS
<1>1. PICK g \in [0 .. n -> Seq(Char)] :
          /\ g[0] = <<>>
          /\ \A j \in 1 .. n : g[j] = g[j - 1] \o (IF a[j] = c THEN <<>> ELSE <<a[j]>>)
          /\ Without(a, c) = g[n]
  BY WithoutIs
<1> HIDE DEF s
<1>2. PICK h \in [0 .. Len(s) -> Seq(Char)] :
          /\ h[0] = <<>>
          /\ \A j \in 1 .. Len(s) : h[j] = h[j - 1] \o (IF s[j] = c THEN <<>> ELSE <<s[j]>>)
          /\ Without(s, c) = h[Len(s)]
  BY <1>0, WithoutIs
<1> HIDE DEF n, m
<1>3. \A j \in 0 .. n : h[j] = g[j]
  <2> DEFINE S == {j \in 0 .. n : h[j] = g[j]}
  <2>1. 0 \in S
    BY <1>0, <1>1, <1>2
  <2>2. ASSUME NEW j \in 0 + 1 .. n, j - 1 \in S PROVE j \in S
    <3>1. j \in 1 .. n /\ j \in 1 .. Len(s) /\ j \in 0 .. n
      BY <1>0
    <3>2. /\ g[j] = g[j - 1] \o (IF a[j] = c THEN <<>> ELSE <<a[j]>>)
          /\ h[j] = h[j - 1] \o (IF s[j] = c THEN <<>> ELSE <<s[j]>>)
          /\ s[j] = a[j] /\ h[j - 1] = g[j - 1]
      BY <1>0, <1>1, <1>2, <2>2, <3>1
    <3> QED BY <3>1, <3>2
  <2>3. \A j \in 0 .. n : j \in S
    <3> HIDE DEF S
    <3>1. 0 \in Nat
      OBVIOUS
    <3> QED BY <1>0, <2>1, <2>2, <3>1, Climb, Zenon
  <2> QED BY <2>3
<1>4. g[n] \in Seq(Char)
  <2>1. n \in 0 .. n
    BY <1>0
  <2> QED BY <2>1
<1>5. \A j \in 0 .. m : h[n + j] = g[n] \o SubSeq(b, 1, j)
  <2> DEFINE S == {j \in 0 .. m : h[n + j] = g[n] \o SubSeq(b, 1, j)}
  <2>1. 0 \in S
    <3>1. SubSeq(b, 1, 0) = <<>> /\ n \in 0 .. n /\ n + 0 = n /\ 0 \in 0 .. m
      BY <1>0
    <3>2. g[n] \o <<>> = g[n]
      BY <1>4
    <3> QED BY <1>3, <3>1, <3>2
  <2>2. ASSUME NEW j \in 0 + 1 .. m, j - 1 \in S PROVE j \in S
    <3>1. j \in 1 .. m /\ n + j \in 1 .. Len(s) /\ j \in 0 .. m /\ (n + j) - 1 = n + (j - 1)
      BY <1>0
    <3>2. s[n + j] = b[j] /\ b[j] # c
      BY <1>0, <3>1 DEF m
    <3>3. h[n + j] = h[n + (j - 1)] \o <<b[j]>>
      BY <1>2, <3>1, <3>2
    <3>4. h[n + (j - 1)] = g[n] \o SubSeq(b, 1, j - 1)
      BY <2>2
    <3>5. SubSeq(b, 1, j) = SubSeq(b, 1, j - 1) \o <<b[j]>> /\ SubSeq(b, 1, j - 1) \in Seq(Char)
          /\ <<b[j]>> \in Seq(Char)
      <4>1. b[j] \in Char
        BY <3>1 DEF m
      <4>2. m = Len(b)
        BY DEF m
      <4> QED BY <1>0, <3>1, <4>1, <4>2
    <3>6. g[n] \o (SubSeq(b, 1, j - 1) \o <<b[j]>>) = (g[n] \o SubSeq(b, 1, j - 1)) \o <<b[j]>>
      BY <1>4, <3>5, Joins, Zenon
    <3>7. h[n + j] = g[n] \o SubSeq(b, 1, j)
      BY <3>3, <3>4, <3>5, <3>6, Zenon
    <3> QED BY <3>1, <3>7
  <2>3. \A j \in 0 .. m : j \in S
    <3> HIDE DEF S
    <3>1. 0 \in Nat
      OBVIOUS
    <3> QED BY <1>0, <2>1, <2>2, <3>1, Climb, Zenon
  <2> QED BY <2>3
<1>6. m \in 0 .. m /\ n + m = Len(s) /\ SubSeq(b, 1, m) = b
  BY <1>0 DEF m
<1>7. Without(s, c) = g[n] \o b
  BY <1>2, <1>5, <1>6
<1> QED BY <1>1, <1>4, <1>7 DEF s

(* A c that is put behind does not. *)
LEMMA WithoutGap ==
    ASSUME NEW a \in Seq(Char), NEW c \in Char
    PROVE  Without(a \o <<c>>, c) = Without(a, c)
<1> DEFINE b == a \o <<c>>
           s == [n \in DOMAIN a |-> IF a[n] = c THEN <<>> ELSE <<a[n]>>]
           t == [n \in DOMAIN b |-> IF b[n] = c THEN <<>> ELSE <<b[n]>>]
<1>1. /\ b \in Seq(Char) /\ Len(a) \in Nat /\ Len(b) = Len(a) + 1
      /\ \A j \in 1 .. Len(a) : b[j] = a[j]
      /\ b[Len(a) + 1] = c
  OBVIOUS
<1> HIDE DEF b
<1>2. s \in Seq(Seq(Char)) /\ Len(s) = Len(a)
      /\ \A j \in 1 .. Len(a) : s[j] = IF a[j] = c THEN <<>> ELSE <<a[j]>>
  <2>1. \A j \in 1 .. Len(a) : (IF a[j] = c THEN <<>> ELSE <<a[j]>>) \in Seq(Char)
    OBVIOUS
  <2>2. DOMAIN a = 1 .. Len(a)
    OBVIOUS
  <2> QED BY <1>1, <2>1, <2>2
<1>3. t \in Seq(Seq(Char)) /\ Len(t) = Len(b)
      /\ \A j \in 1 .. Len(b) : t[j] = IF b[j] = c THEN <<>> ELSE <<b[j]>>
  <2>1. \A j \in 1 .. Len(b) : (IF b[j] = c THEN <<>> ELSE <<b[j]>>) \in Seq(Char)
    BY <1>1
  <2> QED BY <1>1, <2>1
<1>4. Without(a, c) = FlattenSeq(s) /\ Without(b, c) = FlattenSeq(t)
  BY DEF Without
<1> HIDE DEF s, t
<1>5. Len(t) = Len(s) + 1 /\ t[Len(s) + 1] = <<>>
      /\ \A j \in 1 .. Len(s) : t[j] = s[j]
  <2>1. Len(t) = Len(s) + 1 /\ Len(a) + 1 \in 1 .. Len(b)
    BY <1>1, <1>2, <1>3
  <2>2. t[Len(a) + 1] = <<>>
    BY <1>1, <1>3, <2>1
  <2>3. ASSUME NEW j \in 1 .. Len(a) PROVE t[j] = s[j]
    <3>1. j \in 1 .. Len(b) /\ b[j] = a[j]
      BY <1>1
    <3> QED BY <1>2, <1>3, <3>1
  <2> QED BY <1>2, <2>1, <2>2, <2>3
<1>6. FlattenSeq(s) \in Seq(Char) /\ FlattenSeq(t) = FlattenSeq(s) \o <<>>
  BY <1>2, <1>3, <1>5, FlatGrows
<1> QED BY <1>4, <1>6 DEF b

Free(s, c) == \A j \in 1 .. Len(s) : s[j] # c
ValuesFree(c) ==
    /\ \A name \in DOMAIN Vars : Free(Vars[name], c)
    /\ \A name \in DOMAIN Env : Free(Env[name], c)
    /\ Free(Status, c)

LEMMA ReferenceFree ==
    ASSUME NEW c \in Other, ValuesFree(c), NEW w, NEW p
    PROVE  Free(Asked!Reference(w, p).value, c)
<1>1. \A name : Free(Asked!Value(name), c)
  <2>1. Free(<<>>, c)
    BY DEF Free
  <2> QED BY <2>1, AskedSame DEF ValuesFree, Value
<1>2. Free(<<>>, c) /\ Free(<<"dollar">>, c) /\ Free(Status, c)
  <2>1. c # "dollar"
    BY CharAssumption DEF Mark
  <2> QED BY <2>1 DEF Free, ValuesFree
<1> HIDE DEF Free
<1> QED BY <1>1, <1>2 DEF Asked!Reference

LEMMA ItemMoves ==
    ASSUME NEW w \in Seq(Char), NEW v \in Seq(Char), NEW c \in Other, ValuesFree(c),
           NEW f \in [0 .. Len(w) -> Nat], Moves(w, v, c, f), Together(w, f),
           NEW i \in 1 .. Len(w)
    PROVE  /\ Item(v, f[i]) = Item(w, i)
           /\ Free(Item(w, i), c)
           /\ f[i] = f[i - 1] + 2 => Item(v, f[i] - 1) \in {<<>>, <<c>>}
<1>1. Covered(v)[f[i]] = Covered(w)[i]
  BY CoveredMoves
<1>2. v[f[i]] = w[i] /\ w[i] # c /\ c # "dollar" /\ c # "esc"
  BY CharAssumption DEF Moves, Mark
<1>3. w[i] = "dollar" => Asked!Reference(v, f[i]) = Asked!Reference(w, i)
  BY SameReference DEF Together
<1>4. Item(v, f[i]) = Item(w, i)
  BY <1>1, <1>2, <1>3 DEF Item
<1>5. Free(Item(w, i), c)
  <2>1. Free(<<>>, c) /\ Free(<<"dollar">>, c) /\ Free(<<w[i]>>, c)
    BY <1>2 DEF Free
  <2>2. Free(Asked!Reference(w, i).value, c)
    BY ReferenceFree
  <2> HIDE DEF Free
  <2> QED BY <2>1, <2>2 DEF Item
<1>6. ASSUME f[i] = f[i - 1] + 2 PROVE Item(v, f[i] - 1) \in {<<>>, <<c>>}
  <2>1. v[f[i] - 1] = c
    <3>1. f[i] = f[i - 1] + 1 \/ (f[i] = f[i - 1] + 2 /\ v[f[i] - 1] = c)
      BY DEF Moves
    <3>2. i - 1 \in 0 .. Len(w) /\ f[i - 1] \in Nat
      OBVIOUS
    <3> QED BY <1>6, <3>1, <3>2
  <2> QED BY <1>2, <2>1 DEF Item
<1> QED BY <1>4, <1>5, <1>6

(* A character that stands for nothing, put between others where no        *)
(* reference goes on, changes nothing of what they mean.                   *)
LEMMA ReadingMoves ==
    ASSUME NEW w \in Seq(Char), NEW v \in Seq(Char), NEW c \in Other, ValuesFree(c),
           NEW f \in [0 .. Len(w) -> Nat], Moves(w, v, c, f), Together(w, f)
    PROVE  Without(Asked!Reading(v), c) = Asked!Reading(w)
<1> DEFINE U == Upto(w)
           V == Upto(v)
           S == {i \in 0 .. Len(w) : Without(V[f[i]], c) = U[i]}
<1>0. Len(w) \in Nat /\ Len(v) \in Nat /\ c \in Char
  BY DEF Char
<1>1. /\ U \in [0 .. Len(w) -> Seq(Char)] /\ U[0] = <<>>
      /\ \A j \in 1 .. Len(w) : U[j] = U[j - 1] \o Item(w, j)
      /\ Asked!Reading(w) = U[Len(w)]
  BY UptoIs DEF Flows
<1>2. /\ V \in [0 .. Len(v) -> Seq(Char)] /\ V[0] = <<>>
      /\ \A j \in 1 .. Len(v) : V[j] = V[j - 1] \o Item(v, j)
      /\ Asked!Reading(v) = V[Len(v)]
  BY UptoIs DEF Flows
<1> HIDE DEF U, V
<1>3. f[0] = 0 /\ f[Len(w)] = Len(v)
  BY DEF Moves
<1>4. 0 \in S
  <2> DEFINE e == <<>>
  <2>1. e \in Seq(Char) /\ Len(e) = 0
    OBVIOUS
  <2> HIDE DEF e
  <2>2. Without(e, c) = <<>>
    <3>1. PICK g \in [0 .. Len(e) -> Seq(Char)] :
              /\ g[0] = <<>>
              /\ \A j \in 1 .. Len(e) : g[j] = g[j - 1] \o (IF e[j] = c THEN <<>> ELSE <<e[j]>>)
              /\ Without(e, c) = g[Len(e)]
      BY <2>1, WithoutIs
    <3> QED BY <2>1, <3>1
  <2> QED BY <1>0, <1>1, <1>2, <1>3, <2>2 DEF e
<1>5. ASSUME NEW i \in 0 + 1 .. Len(w), i - 1 \in S PROVE i \in S
  <2>0. i \in 1 .. Len(w) /\ i - 1 \in 0 .. Len(w) /\ i \in 0 .. Len(w) /\ f[i - 1] \in Nat
        /\ f[i] \in 1 .. Len(v) /\ f[i] \in Nat
    <3>1. i \in 1 .. Len(w) /\ i - 1 \in 0 .. Len(w) /\ i \in 0 .. Len(w)
      OBVIOUS
    <3> QED BY <3>1, MovesRange
  <2>1. Without(V[f[i - 1]], c) = U[i - 1] /\ U[i] = U[i - 1] \o Item(w, i)
    BY <1>1, <1>5, <2>0
  <2>2. /\ Item(v, f[i]) = Item(w, i) /\ Free(Item(w, i), c)
        /\ f[i] = f[i - 1] + 2 => Item(v, f[i] - 1) \in {<<>>, <<c>>}
    BY <2>0, ItemMoves
  <2>3. Item(w, i) \in Seq(Char)
    BY <2>0, ItemType
  <2>4. ASSUME NEW a \in Seq(Char), Without(a, c) = U[i - 1], V[f[i]] = a \o Item(w, i)
        PROVE  Without(V[f[i]], c) = U[i]
    <3>1. \A j \in 1 .. Len(Item(w, i)) : Item(w, i)[j] # c
      BY <2>2 DEF Free
    <3>2. Without(a \o Item(w, i), c) = Without(a, c) \o Item(w, i)
      BY <2>3, <3>1, WithoutJoins
    <3> QED BY <2>1, <2>4, <3>2, Zenon
  <2>5. V[f[i]] = V[f[i] - 1] \o Item(w, i) /\ V[f[i - 1]] \in Seq(Char)
    <3>1. f[i - 1] \in 0 .. Len(v)
      <4>1. f[i] = f[i - 1] + 1 \/ f[i] = f[i - 1] + 2
        BY <2>0 DEF Moves
      <4> QED BY <2>0, <4>1
    <3> QED BY <1>2, <2>0, <2>2, <3>1
  <2>6. CASE f[i] = f[i - 1] + 1
    <3>1. f[i] - 1 = f[i - 1]
      BY <2>0, <2>6
    <3> QED BY <2>0, <2>1, <2>4, <2>5, <3>1
  <2>7. CASE f[i] = f[i - 1] + 2
    <3>1. PICK q \in 1 .. Len(v) : q = f[i] - 1 /\ q - 1 = f[i - 1]
      BY <2>0, <2>7
    <3>2. V[q] = V[f[i - 1]] \o Item(v, q) /\ V[q] \in Seq(Char)
      <4>1. V[q] = V[q - 1] \o Item(v, q)
        BY <1>2
      <4>2. q \in 0 .. Len(v)
        OBVIOUS
      <4>3. V[q] \in Seq(Char)
        BY <1>2, <4>2
      <4> QED BY <3>1, <4>1, <4>3, Zenon
    <3>3. V[f[i]] = V[q] \o Item(w, i) /\ Item(v, q) \in {<<>>, <<c>>}
      BY <2>2, <2>5, <2>7, <3>1
    <3>4. Without(V[q], c) = U[i - 1]
      <4>1. CASE Item(v, q) = <<>>
        <5>1. V[f[i - 1]] \o <<>> = V[f[i - 1]]
          BY <2>5
        <5> QED BY <2>1, <3>2, <4>1, <5>1, Zenon
      <4>2. CASE Item(v, q) = <<c>>
        <5>1. Without(V[f[i - 1]] \o <<c>>, c) = Without(V[f[i - 1]], c)
          BY <1>0, <2>5, WithoutGap
        <5> QED BY <2>1, <3>2, <4>2, <5>1, Zenon
      <4> QED BY <3>3, <4>1, <4>2
    <3> QED BY <2>0, <2>4, <3>2, <3>3, <3>4
  <2>8. f[i] = f[i - 1] + 1 \/ f[i] = f[i - 1] + 2
    BY <2>0 DEF Moves
  <2> QED BY <2>0, <2>6, <2>7, <2>8
<1>6. \A i \in 0 .. Len(w) : i \in S
  <2> HIDE DEF S
  <2>1. 0 \in Nat
    OBVIOUS
  <2> QED BY <1>0, <1>4, <1>5, <2>1, Climb, Zenon
<1>7. Len(w) \in 0 .. Len(w)
  BY <1>0
<1> QED BY <1>1, <1>2, <1>3, <1>6, <1>7

(* w with a c in front of each position in G. *)
Spread(w, c, G) ==
    FlattenSeq([i \in DOMAIN w |-> (IF i \in G THEN <<c>> ELSE <<>>) \o <<w[i]>>])

Spreads(w, v, c, G, f) ==
    Moves(w, v, c, f) /\ \A i \in 1 .. Len(w) : i \notin G => f[i] = f[i - 1] + 1

LEMMA SpreadMoves ==
    ASSUME NEW w \in Seq(Char), NEW c \in Char, NEW G, Free(w, c)
    PROVE  /\ Spread(w, c, G) \in Seq(Char)
           /\ \E f \in [0 .. Len(w) -> Nat] : Spreads(w, Spread(w, c, G), c, G, f)
<1> DEFINE Piece_(i) == (IF i \in G THEN <<c>> ELSE <<>>) \o <<w[i]>>
           s == [i \in DOMAIN w |-> Piece_(i)]
           n == Len(w)
           v == Spread(w, c, G)
<1>0. n \in Nat /\ DOMAIN w = 1 .. n /\ Len(w) = n
  OBVIOUS
<1>1. ASSUME NEW i \in 1 .. n
      PROVE  /\ Piece_(i) \in Seq(Char)
             /\ i \in G => Len(Piece_(i)) = 2 /\ Piece_(i)[1] = c /\ Piece_(i)[2] = w[i]
             /\ i \notin G => Len(Piece_(i)) = 1 /\ Piece_(i)[1] = w[i]
  <2>1. w[i] \in Char
    BY <1>0
  <2>2. CASE i \in G
    <3>1. Piece_(i) = <<c>> \o <<w[i]>>
      BY <2>2
    <3>2. <<c>> \in Seq(Char) /\ <<w[i]>> \in Seq(Char)
      BY <2>1
    <3>3. /\ <<c>> \o <<w[i]>> \in Seq(Char) /\ Len(<<c>> \o <<w[i]>>) = 2
          /\ (<<c>> \o <<w[i]>>)[1] = c /\ (<<c>> \o <<w[i]>>)[2] = w[i]
      BY <3>2
    <3> HIDE DEF Piece_
    <3> QED BY <2>2, <3>1, <3>3
  <2>3. CASE i \notin G
    <3>1. Piece_(i) = <<w[i]>>
      BY <2>1, <2>3
    <3> HIDE DEF Piece_
    <3> QED BY <2>1, <2>3, <3>1
  <2> QED BY <2>2, <2>3
<1> HIDE DEF Piece_
<1>2. s \in Seq(Seq(Char)) /\ Len(s) = n /\ \A i \in 1 .. n : s[i] = Piece_(i)
  BY <1>0, <1>1
<1>3. v = FlattenSeq(s)
  BY DEF Spread, Piece_
<1> HIDE DEF s, v
<1>4. PICK g \in [0 .. Len(s) -> Seq(Char)] :
          /\ g[0] = <<>>
          /\ \A j \in 1 .. Len(s) : g[j] = g[j - 1] \o s[j]
          /\ FlattenSeq(s) = g[Len(s)]
  BY <1>2, Flat
<1> HIDE DEF n
<1>5. /\ g \in [0 .. n -> Seq(Char)] /\ g[0] = <<>> /\ v = g[n]
      /\ \A j \in 1 .. n : g[j] = g[j - 1] \o Piece_(j)
  BY <1>2, <1>3, <1>4
<1>6. ASSUME NEW j \in 1 .. n
      PROVE  /\ j - 1 \in 0 .. n /\ j \in 0 .. n
             /\ g[j - 1] \in Seq(Char) /\ g[j] \in Seq(Char)
             /\ Len(g[j - 1]) \in Nat
             /\ Len(g[j]) = Len(g[j - 1]) + (IF j \in G THEN 2 ELSE 1)
             /\ \A q \in 1 .. Len(g[j - 1]) : g[j][q] = g[j - 1][q]
             /\ g[j][Len(g[j])] = w[j]
             /\ j \in G => g[j][Len(g[j]) - 1] = c
  <2>1. j - 1 \in 0 .. n /\ j \in 0 .. n
    BY <1>0
  <2>2. PICK a \in Seq(Char) : a = g[j - 1]
    BY <1>5, <2>1
  <2>3. PICK b \in Seq(Char) : b = Piece_(j)
    BY <1>1
  <2>4. g[j] = a \o b
    BY <1>5, <2>2, <2>3
  <2>5. /\ a \o b \in Seq(Char) /\ Len(a) \in Nat /\ Len(a \o b) = Len(a) + Len(b)
        /\ \A q \in 1 .. Len(a) : (a \o b)[q] = a[q]
        /\ \A q \in 1 .. Len(b) : (a \o b)[Len(a) + q] = b[q]
    OBVIOUS
  <2>6. CASE j \in G
    <3>1. Len(b) = 2 /\ b[1] = c /\ b[2] = w[j]
      BY <1>1, <2>3, <2>6
    <3>2. (a \o b)[Len(a) + 1] = c /\ (a \o b)[Len(a) + 2] = w[j] /\ Len(a \o b) = Len(a) + 2
          /\ (Len(a) + 2) - 1 = Len(a) + 1
      BY <2>5, <3>1
    <3> QED BY <2>1, <2>2, <2>4, <2>5, <2>6, <3>2
  <2>7. CASE j \notin G
    <3>1. Len(b) = 1 /\ b[1] = w[j]
      BY <1>1, <2>3, <2>7
    <3>2. (a \o b)[Len(a) + 1] = w[j] /\ Len(a \o b) = Len(a) + 1
      BY <2>5, <3>1
    <3> QED BY <2>1, <2>2, <2>4, <2>5, <2>7, <3>2
  <2> QED BY <2>6, <2>7
<1>7. ASSUME NEW i \in 0 .. n
      PROVE  \A j \in i .. n : Len(g[i]) <= Len(g[j])
                                 /\ \A q \in 1 .. Len(g[i]) : g[j][q] = g[i][q]
  <2> DEFINE S == {j \in i .. n : Len(g[i]) <= Len(g[j])
                                    /\ \A q \in 1 .. Len(g[i]) : g[j][q] = g[i][q]}
  <2>0. i \in Nat /\ Len(g[i]) \in Nat
    BY <1>5
  <2>1. i \in S
    BY <1>0, <2>0
  <2>2. ASSUME NEW j \in i + 1 .. n, j - 1 \in S PROVE j \in S
    <3>1. j \in 1 .. n /\ j \in i .. n
      BY <1>0, <2>0
    <3>2. Len(g[i]) <= Len(g[j - 1]) /\ \A q \in 1 .. Len(g[i]) : g[j - 1][q] = g[i][q]
      BY <2>2
    <3>3. /\ Len(g[j - 1]) \in Nat /\ Len(g[j]) >= Len(g[j - 1])
          /\ Len(g[j]) \in Nat
          /\ \A q \in 1 .. Len(g[j - 1]) : g[j][q] = g[j - 1][q]
      <4>1. /\ Len(g[j - 1]) \in Nat
            /\ Len(g[j]) = Len(g[j - 1]) + (IF j \in G THEN 2 ELSE 1)
            /\ \A q \in 1 .. Len(g[j - 1]) : g[j][q] = g[j - 1][q]
        BY <1>6, <3>1, Zenon
      <4>2. Len(g[j]) >= Len(g[j - 1]) /\ Len(g[j]) \in Nat
        <5>1. CASE j \in G
          BY <4>1, <5>1
        <5>2. CASE j \notin G
          BY <4>1, <5>2
        <5> QED BY <5>1, <5>2
      <4> QED BY <4>1, <4>2
    <3>4. \A q \in 1 .. Len(g[i]) : g[j][q] = g[i][q]
      BY <2>0, <3>2, <3>3
    <3>5. Len(g[i]) <= Len(g[j])
      BY <2>0, <3>2, <3>3
    <3> QED BY <3>1, <3>4, <3>5
  <2>3. \A j \in i .. n : j \in S
    <3> HIDE DEF S
    <3> QED BY <1>0, <2>0, <2>1, <2>2, Climb, Zenon
  <2> QED BY <2>3
<1> DEFINE f == [i \in 0 .. n |-> Len(g[i])]
<1>8. f \in [0 .. n -> Nat] /\ f[0] = 0 /\ f[n] = Len(v) /\ v \in Seq(Char)
  <2>1. n \in 0 .. n /\ 0 \in 0 .. n
    BY <1>0
  <2>2. \A i \in 0 .. n : Len(g[i]) \in Nat
    BY <1>5
  <2> QED BY <1>5, <2>1, <2>2
<1>9. ASSUME NEW i \in 1 .. n
      PROVE  /\ v[f[i]] = w[i] /\ w[i] # c
             /\ f[i] = f[i - 1] + 1 \/ (f[i] = f[i - 1] + 2 /\ v[f[i] - 1] = c)
             /\ i \notin G => f[i] = f[i - 1] + 1
  <2>1. i \in 0 .. n /\ i - 1 \in 0 .. n /\ n \in i .. n
    BY <1>0
  <2>2. f[i] = Len(g[i]) /\ f[i - 1] = Len(g[i - 1]) /\ Len(g[i - 1]) \in Nat
    BY <1>6, <2>1
  <2> HIDE DEF f
  <2>3. f[i] = f[i - 1] + (IF i \in G THEN 2 ELSE 1) /\ f[i - 1] \in Nat
    BY <1>6, <2>2
  <2>4. \A q \in 1 .. Len(g[i]) : v[q] = g[i][q]
    BY <1>5, <1>7, <2>1
  <2>5. f[i] \in 1 .. Len(g[i]) /\ (i \in G => f[i] - 1 \in 1 .. Len(g[i]))
    <3>1. CASE i \in G
      BY <2>2, <2>3, <3>1
    <3>2. CASE i \notin G
      BY <2>2, <2>3, <3>2
    <3> QED BY <3>1, <3>2
  <2>6. v[f[i]] = w[i] /\ (i \in G => v[f[i] - 1] = c)
    BY <1>6, <2>2, <2>4, <2>5
  <2>7. w[i] # c
    BY DEF Free, n
  <2> QED BY <2>3, <2>6, <2>7
<1> HIDE DEF f
<1>10. Moves(w, v, c, f) /\ \A i \in 1 .. n : i \notin G => f[i] = f[i - 1] + 1
  BY <1>8, <1>9 DEF Moves, n
<1>11. f \in [0 .. Len(w) -> Nat] /\ Spreads(w, v, c, G, f)
  BY <1>8, <1>10 DEF Spreads, n
<1> QED BY <1>8, <1>11 DEF v

(* No reference of w has one of these positions inside. *)
Parts(w, G) ==
    \A d \in 1 .. Len(w) : w[d] = "dollar" =>
        \A i \in d + 1 .. d + Size(w, d) - 1 : i \notin G

(* Between references, what is only copied is copied. *)
LEMMA SpreadReads ==
    ASSUME NEW w \in Seq(Char), NEW c \in Other, NEW G, Free(w, c), ValuesFree(c), Parts(w, G)
    PROVE  Without(Asked!Reading(Spread(w, c, G)), c) = Asked!Reading(w)
<1>0. c \in Char
  BY DEF Char
<1>1. Spread(w, c, G) \in Seq(Char)
  BY <1>0, SpreadMoves
<1>2. PICK f \in [0 .. Len(w) -> Nat] : Spreads(w, Spread(w, c, G), c, G, f)
  BY <1>0, SpreadMoves
<1>3. Together(w, f)
  <2>1. ASSUME NEW d \in 1 .. Len(w), w[d] = "dollar" PROVE Tight(f, d, Size(w, d))
    <3>1. Size(w, d) \in 1 .. Len(w) - d + 1
      BY SizeFits
    <3>2. ASSUME NEW i \in d + 1 .. d + Size(w, d) - 1 PROVE f[i] = f[i - 1] + 1
      <4>1. i \in 1 .. Len(w) /\ i \notin G
        BY <2>1, <3>1 DEF Parts
      <4> QED BY <1>2, <4>1 DEF Spreads
    <3> QED BY <3>2 DEF Tight
  <2> QED BY <2>1 DEF Together
<1> QED BY <1>1, <1>2, <1>3, ReadingMoves DEF Spreads

=============================================================================
