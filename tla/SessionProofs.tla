--------------------------- MODULE SessionProofs ---------------------------
(***************************************************************************)
(* However the shell reads its script ahead and whatever programs read of  *)
(* it behind the shell's back, no line is lost and none is used twice;     *)
(* what echo prints, and what waits in a buffer while processes come and   *)
(* go, is written where and when it should be; and exit's status is the    *)
(* number that is meant, modulo the number of statuses.                    *)
(***************************************************************************)
EXTENDS Session, SequenceTheorems, NaturalsInduction, WellFoundedInduction, TLAPS

(* The lines before next were executed, those up to lim wait in the        *)
(* buffer, and what is between lim and the offset was read by a program,   *)
(* which reads on to the end.                                              *)
LinesApart ==
    /\ script \in Seq(Line)
    /\ next \in 1 .. lim /\ lim \in 1 .. off /\ off \in 1 .. Len(script) + 1
    /\ ran \in Seq(Nat) /\ Len(ran) = next - 1
    /\ \A n \in 1 .. next - 1 : ran[n] = n
    /\ eaten = lim .. off - 1
    /\ eaten # {} => off = Len(script) + 1
    /\ ended = "eof" => next = lim /\ off = Len(script) + 1 /\ pc = "over"

LEMMA LinesInit == Init => LinesApart
<1> SUFFICES ASSUME Init PROVE LinesApart
  OBVIOUS
<1>1. script \in Seq(Line) /\ Len(script) \in Nat
  BY ScriptAssumption DEF Init
<1>2. next = 1 /\ lim = 1 /\ off = 1 /\ ran = <<>> /\ eaten = {} /\ ended = "no"
  BY DEF Init
<1>3. ran \in Seq(Nat) /\ Len(ran) = 0
  BY <1>2
<1> QED BY <1>1, <1>2, <1>3 DEF LinesApart

LEMMA LinesStep ==
    ASSUME LinesApart, UNCHANGED <<script, next, lim, off, ran, eaten>>,
           ended' = "eof" => ended = "eof" /\ pc' = pc
    PROVE  LinesApart'
BY DEF LinesApart

LEMMA LinesNext == LinesApart /\ [Next]_vars => LinesApart'
<1> SUFFICES ASSUME LinesApart, [Next]_vars PROVE LinesApart'
  OBVIOUS
<1>0. /\ script \in Seq(Line) /\ Len(script) \in Nat
      /\ next \in Nat /\ lim \in Nat /\ off \in Nat
      /\ 1 <= next /\ next <= lim /\ lim <= off /\ off <= Len(script) + 1
      /\ ran \in Seq(Nat) /\ Len(ran) = next - 1
  BY DEF LinesApart
<1>1. CASE Fill
  <2>1. /\ next = lim /\ off <= Len(script) /\ next' = off /\ off' = lim'
        /\ lim' = IF off + Block <= Len(script) THEN off + Block ELSE Len(script) + 1
        /\ UNCHANGED <<script, ended, pc, ran, eaten>>
    BY <1>1 DEF Fill, world, history
  <2>2. eaten = lim .. off - 1 /\ (eaten # {} => off = Len(script) + 1)
    BY DEF LinesApart
  <2>3. lim = off /\ eaten = {}
    <3>1. lim < off => lim \in eaten
      BY <1>0, <2>2
    <3>2. off # Len(script) + 1
      BY <1>0, <2>1
    <3>3. ~(lim < off)
      BY <2>2, <3>1, <3>2, Zenon
    <3>4. lim = off
      BY <1>0, <3>3
    <3> QED BY <1>0, <2>2, <3>4
  <2>4. lim' \in Nat /\ off <= lim' /\ lim' <= Len(script) + 1
    BY <1>0, <2>1, BlockAssumption
  <2>5. lim' .. off' - 1 = {}
    BY <2>1, <2>4
  <2>6. ended # "eof"
    BY <1>0, <2>1 DEF LinesApart
  <2> QED BY <1>0, <2>1, <2>3, <2>4, <2>5, <2>6 DEF LinesApart
<1>2. CASE ReadLine
  <2>1. /\ next < lim /\ next' = next + 1 /\ ran' = Append(ran, next)
        /\ UNCHANGED <<script, lim, off, ended, eaten>>
    BY <1>2 DEF ReadLine, world
  <2>2. ended # "eof"
    BY <1>0, <2>1 DEF LinesApart
  <2>3. ran' \in Seq(Nat) /\ Len(ran') = next' - 1 /\ \A n \in 1 .. next' - 1 : ran'[n] = n
    BY <1>0, <2>1 DEF LinesApart
  <2> QED BY <1>0, <2>1, <2>2, <2>3 DEF LinesApart
<1>3. CASE Return
  <2>1. /\ next = lim /\ off > Len(script) /\ pc' = "over"
        /\ UNCHANGED <<script, next, lim, off, ran, eaten>>
    BY <1>3 DEF Return, world, input, history
  <2> QED BY <1>0, <2>1 DEF LinesApart
<1>4. ASSUME NEW p \in Proc, Kill(p) PROVE LinesApart'
  <2>1. UNCHANGED <<script, next, lim, off, ran, eaten>>
    BY <1>4 DEF Kill, world, input, history
  <2>2. ended' = "killed" \/ (ended' = ended /\ pc # "over")
    BY <1>4 DEF Kill, Runs, Proc
  <2>3. ended' # "eof"
    BY <2>2 DEF LinesApart
  <2> QED BY <2>1, <2>3, LinesStep
<1>5. CASE Read
  <2> DEFINE shared == source = "stdin" /\ Running.place # "last"
  <2>1. /\ eaten' = IF shared THEN eaten \cup off .. Len(script) ELSE eaten
        /\ off' = IF shared THEN Len(script) + 1 ELSE off
        /\ pc = "child" /\ UNCHANGED <<script, next, lim, ended, ran>>
    BY <1>5 DEF Read, Runs, world
  <2>2. ended # "eof"
    BY <2>1 DEF LinesApart
  <2>3. eaten' = lim' .. off' - 1 /\ (eaten' # {} => off' = Len(script') + 1)
    <3>1. eaten = lim .. off - 1 /\ (eaten # {} => off = Len(script) + 1)
      BY DEF LinesApart
    <3>2. CASE shared
      <4>1. eaten' = lim .. off - 1 \cup off .. Len(script)
        BY <2>1, <3>1, <3>2
      <4>2. eaten' = lim .. Len(script)
        BY <1>0, <4>1
      <4> QED BY <1>0, <2>1, <3>2, <4>2
    <3>3. CASE ~shared
      BY <2>1, <3>1, <3>3
    <3> QED BY <3>2, <3>3
  <2>4. lim' \in 1 .. off' /\ off' \in 1 .. Len(script') + 1
    BY <1>0, <2>1
  <2> QED BY <1>0, <2>1, <2>2, <2>3, <2>4 DEF LinesApart
<1>6. CASE Leave
  <2>1. UNCHANGED <<script, next, lim, off, ran, eaten>> /\ ended' = "exit"
    BY <1>6 DEF Leave, world, input, history
  <2> QED BY <2>1, LinesStep
<1>7. ASSUME Direct \/ Fork \/ ForkFails \/ Restore \/ Reap \/ LineDone
      PROVE  LinesApart'
  <2>1. UNCHANGED <<script, next, lim, off, ran, eaten, ended>> /\ pc # "over"
    BY <1>7 DEF Direct, Fork, ForkFails, Restore, Reap, LineDone, world, input, history
  <2>2. ended # "eof"
    BY <2>1 DEF LinesApart
  <2> QED BY <2>1, <2>2, LinesStep
<1>8. ASSUME NEW p \in Proc, Echo(p) \/ TooMany(p) \/ Exit(p) \/ Cd(p)
      PROVE  LinesApart'
  <2>1. UNCHANGED <<script, next, lim, off, ran, eaten, ended>> /\ pc # "over"
    BY <1>8 DEF Echo, TooMany, Exit, Cd, Runs, Proc, world, input, history
  <2>2. ended # "eof"
    BY <2>1 DEF LinesApart
  <2> QED BY <2>1, <2>2, LinesStep
<1>9. CASE UNCHANGED vars
  BY <1>9, LinesStep DEF vars
<1> QED
  BY <1>1, <1>2, <1>3, <1>4, <1>5, <1>6, <1>7, <1>8, <1>9 DEF Next, Builtin

LEMMA LinesApartSuffices == LinesApart => LinesOnce
<1> SUFFICES ASSUME LinesApart PROVE LinesOnce
  OBVIOUS
<1>0. /\ Len(script) \in Nat /\ DOMAIN script = 1 .. Len(script)
      /\ next \in Nat /\ lim \in Nat /\ off \in Nat /\ 1 <= next /\ next <= lim
      /\ DOMAIN ran = 1 .. next - 1 /\ \A n \in 1 .. next - 1 : ran[n] = n
      /\ eaten = lim .. off - 1
  BY DEF LinesApart
<1>1. ToSet(ran) = 1 .. next - 1
  BY <1>0 DEF ToSet
<1>2. \A m, n \in DOMAIN ran : m < n => ran[m] < ran[n]
  BY <1>0
<1>3. ToSet(ran) \cap eaten = {}
  BY <1>0, <1>1
<1>4. ASSUME ended = "eof" PROVE ToSet(ran) \cup eaten = DOMAIN script
  <2>1. next = lim /\ off = Len(script) + 1
    BY <1>4 DEF LinesApart
  <2>2. off - 1 = Len(script)
    BY <1>0, <2>1
  <2>3. eaten = next .. Len(script)
    BY <1>0, <2>1, <2>2, Zenon
  <2>4. (1 .. next - 1) \cup (next .. Len(script)) = 1 .. Len(script)
    <3>1. next <= Len(script) + 1
      BY <1>0, <2>1 DEF LinesApart
    <3>2. ASSUME NEW n
          PROVE  n \in (1 .. next - 1) \cup (next .. Len(script))
                    <=> n \in 1 .. Len(script)
      BY <1>0, <3>1
    <3> QED BY <3>2, Zenon
  <2> QED BY <1>0, <1>1, <2>3, <2>4, Zenon
<1> QED BY <1>2, <1>3, <1>4 DEF LinesOnce

(* Each line of the script is executed or read by a program, in its turn,  *)
(* never both, and none is passed over, for every script, however it is    *)
(* split into blocks and whatever runs (io_backend.c:43-51).               *)
THEOREM EveryLineOnce == Spec => []LinesOnce
BY LinesInit, LinesNext, LinesApartSuffices, PTL DEF Spec

-----------------------------------------------------------------------------
(* Numbers: string_to_int and the number that is meant differ by a         *)
(* multiple of the number of exit statuses, after every digit.             *)

LEMMA Least ==
    ASSUME NEW S \in SUBSET Nat, S # {}
    PROVE  \E m \in S : \A n \in S : m <= n
<1> DEFINE R == {ss \in Nat \X Nat : ss[1] < ss[2]}
<1>1. IsWellFoundedOn(R, Nat)
  BY NatLessThanWellFounded, Zenon DEF OpToRel
<1> HIDE DEF R
<1>2. PICK m \in S : \A n \in S : ~(<<n, m>> \in R)
  BY <1>1, WFMin
<1>3. ASSUME NEW n \in S PROVE m <= n
  <2>1. m \in Nat /\ n \in Nat
    OBVIOUS
  <2>2. n < m => <<n, m>> \in R
    BY <2>1 DEF R
  <2>3. ~(n < m)
    BY <1>2, <2>2, Zenon
  <2> QED BY <2>1, <2>3
<1> QED BY <1>3

(* What is defined by its value at 0 and a step from each digit exists. *)
Grown(f, N, d, g) == f = [n \in 0 .. N |-> IF n = 0 THEN 0 ELSE g[<<f[n - 1], d[n]>>]]

LEMMA Recursion ==
    ASSUME NEW N \in Nat, NEW d \in [1 .. N -> Int], NEW g \in [Int \X Int -> Int]
    PROVE  \E f \in [0 .. N -> Int] : Grown(f, N, d, g)
<1> DEFINE Upto(f, n) == f[0] = 0 /\ \A k \in 1 .. n : f[k] = g[<<f[k - 1], d[k]>>]
           Missing == {n \in 0 .. N : ~\E f \in [0 .. n -> Int] : Upto(f, n)}
<1>1. Missing = {}
  <2> SUFFICES ASSUME Missing # {} PROVE FALSE
    OBVIOUS
  <2>0. Missing \in SUBSET Nat
    OBVIOUS
  <2>1. PICK m \in Missing : \A n \in Missing : m <= n
    BY <2>0, Least, Zenon
  <2>2. m # 0
    <3> DEFINE z == [k \in 0 .. 0 |-> 0]
    <3>1. z \in [0 .. 0 -> Int] /\ Upto(z, 0)
      OBVIOUS
    <3> HIDE DEF z, Upto
    <3>2. 0 \notin Missing
      BY <3>1
    <3> QED BY <2>1, <3>2
  <2>3. m - 1 \in 0 .. N /\ m - 1 \notin Missing /\ m \in 1 .. N
    <3>1. m \in 1 .. N
      BY <2>1, <2>2
    <3> HIDE DEF Missing
    <3>2. m - 1 \notin Missing
      BY <2>0, <2>1, <3>1
    <3> QED BY <3>1, <3>2
  <2>4. PICK f \in [0 .. m - 1 -> Int] : Upto(f, m - 1)
    BY <2>3, Zenon
  <2> DEFINE h == [k \in 0 .. m |-> IF k = m THEN g[<<f[m - 1], d[m]>>] ELSE f[k]]
  <2>5. h \in [0 .. m -> Int]
    <3>1. f[m - 1] \in Int /\ d[m] \in Int
      BY <2>3
    <3>2. g[<<f[m - 1], d[m]>>] \in Int
      BY <3>1
    <3>3. \A k \in 0 .. m : k # m => f[k] \in Int
      BY <2>3
    <3> QED BY <3>2, <3>3
  <2>6. h[0] = 0
    BY <2>2, <2>3, <2>4
  <2>7. ASSUME NEW k \in 1 .. m PROVE h[k] = g[<<h[k - 1], d[k]>>]
    <3>1. k - 1 \in 0 .. m /\ k - 1 # m /\ k \in 0 .. m
      BY <2>3
    <3>2. h[k - 1] = f[k - 1]
      BY <3>1
    <3>3. CASE k = m
      BY <3>1, <3>2, <3>3
    <3>4. CASE k # m
      <4>1. k \in 1 .. m - 1 /\ h[k] = f[k]
        BY <2>3, <3>1, <3>4
      <4> QED BY <2>4, <3>2, <4>1
    <3> QED BY <3>3, <3>4
  <2>8. Upto(h, m)
    BY <2>6, <2>7
  <2> HIDE DEF h, Upto
  <2>9. m \notin Missing
    BY <2>5, <2>8
  <2> QED BY <2>1, <2>9
<1>2. PICK f \in [0 .. N -> Int] : Upto(f, N)
  <2>1. N \in 0 .. N
    OBVIOUS
  <2>2. N \notin Missing
    BY <1>1, Zenon
  <2> HIDE DEF Upto
  <2> QED BY <2>1, <2>2
<1>3. ASSUME NEW n \in 0 .. N
      PROVE  f[n] = IF n = 0 THEN 0 ELSE g[<<f[n - 1], d[n]>>]
  <2>1. n # 0 => n \in 1 .. N
    OBVIOUS
  <2> QED BY <1>2, <2>1
<1>4. Grown(f, N, d, g)
  BY <1>3 DEF Grown
<1> QED BY <1>4

LEMMA ModAdd ==
    ASSUME NEW a \in Int, NEW j \in Int, NEW s \in Nat \ {0}
    PROVE  (a + j * s) % s = a % s
<1> DEFINE q == a \div s
           r == a % s
<1>1. a = q * s + r /\ r \in 0 .. s - 1 /\ q \in Int
  OBVIOUS
<1> HIDE DEF q, r
<1>2. a + j * s = (q + j) * s + r
  BY <1>1
<1>3. ((q + j) * s + r) % s = r
  <2> DEFINE k == q + j
  <2>1. k \in Int
    BY <1>1
  <2> HIDE DEF k
  <2>2. (k * s + r) % s = r
    BY <1>1, <2>1
  <2> QED BY <2>2 DEF k
<1> QED BY <1>2, <1>3 DEF r

(* To wrap around is to add a multiple of the number of exit statuses. *)
LEMMA WrapAdds ==
    ASSUME NEW n \in Int
    PROVE  \E j \in Int : Wrap(n) = n + j * Statuses
<1>1. PICK k \in 1 .. Ints : Ints = 2 * k * Statuses
  BY WidthAssumption
<1>2. Ints \in Nat \ {0} /\ Statuses \in Nat /\ k \in Nat
  BY <1>1, WidthAssumption
<1> DEFINE h == Half
           q == (n + h) \div Ints
<1>3. h \in Int
  BY <1>2 DEF Half
<1> HIDE DEF h
<1>4. q \in Int /\ n + h = q * Ints + ((n + h) % Ints) /\ (n + h) % Ints \in Int
  BY <1>2, <1>3
<1>5. Wrap(n) = ((n + h) % Ints) - h
  BY DEF Wrap, h
<1> HIDE DEF q
<1>6. Wrap(n) = n - q * Ints
  BY <1>2, <1>3, <1>4, <1>5
<1>7. q * Ints = (2 * q * k) * Statuses
  BY <1>1, <1>2, <1>4
<1>8. -(2 * q * k) \in Int /\ Wrap(n) = n + (-(2 * q * k)) * Statuses
  BY <1>2, <1>4, <1>6, <1>7
<1> QED BY <1>8

LEMMA WrapType == \A n \in Int : Wrap(n) \in Int
<1> SUFFICES ASSUME NEW n \in Int PROVE Wrap(n) \in Int
  OBVIOUS
<1>1. PICK j \in Int : Wrap(n) = n + j * Statuses
  BY WrapAdds
<1> QED BY <1>1, WidthAssumption

LEMMA DigitsRead ==
    ASSUME NEW digits \in Seq(0 .. 9)
    PROVE  /\ ReadDigits(digits) \in Int /\ Exactly(digits) \in Int
           /\ \E j \in Int : ReadDigits(digits) = Exactly(digits) + j * Statuses
<1> DEFINE N == Len(digits)
           g == [x \in Int \X Int |-> Wrap(x[1] * 10 + x[2])]
           e == [x \in Int \X Int |-> x[1] * 10 + x[2]]
           ReadBy(f) == f = [n \in 0 .. N |->
                   IF n = 0 THEN 0 ELSE Wrap(f[n - 1] * 10 + digits[n])]
           ExactBy(f) == f = [n \in 0 .. N |->
                   IF n = 0 THEN 0 ELSE f[n - 1] * 10 + digits[n]]
           r == CHOOSE f : ReadBy(f)
           v == CHOOSE f : ExactBy(f)
<1>0. N \in Nat /\ digits \in [1 .. N -> Int] /\ \A n \in 1 .. N : digits[n] \in Nat
  OBVIOUS
<1>1. ReadDigits(digits) = r[N] /\ Exactly(digits) = v[N]
  BY Zenon DEF ReadDigits, Exactly
<1> HIDE DEF N
<1>2. g \in [Int \X Int -> Int] /\ \A a, b \in Int : g[<<a, b>>] = Wrap(a * 10 + b)
  <2>1. ASSUME NEW x \in Int \X Int PROVE Wrap(x[1] * 10 + x[2]) \in Int
    <3>1. x[1] * 10 + x[2] \in Int
      OBVIOUS
    <3> QED BY <3>1, WrapType
  <2>2. g \in [Int \X Int -> Int]
    BY <2>1
  <2> QED BY <2>2
<1>3. e \in [Int \X Int -> Int] /\ \A a, b \in Int : e[<<a, b>>] = a * 10 + b
  OBVIOUS
<1> HIDE DEF g, e
<1>4. \E f \in [0 .. N -> Int] : ReadBy(f)
  <2>1. PICK f \in [0 .. N -> Int] : Grown(f, N, digits, g)
    BY <1>0, <1>2, Recursion
  <2>2. ASSUME NEW n \in 0 .. N, n # 0
        PROVE  g[<<f[n - 1], digits[n]>>] = Wrap(f[n - 1] * 10 + digits[n])
    BY <1>0, <1>2, <2>1, <2>2
  <2>3. ReadBy(f)
    BY <2>1, <2>2 DEF Grown
  <2> QED BY <2>3
<1>5. \E f \in [0 .. N -> Int] : ExactBy(f)
  <2>1. PICK f \in [0 .. N -> Int] : Grown(f, N, digits, e)
    BY <1>0, <1>3, Recursion
  <2>2. ASSUME NEW n \in 0 .. N, n # 0
        PROVE  e[<<f[n - 1], digits[n]>>] = f[n - 1] * 10 + digits[n]
    BY <1>0, <1>3, <2>1, <2>2
  <2>3. ExactBy(f)
    BY <2>1, <2>2 DEF Grown
  <2> QED BY <2>3
<1>6. ReadBy(r) /\ ExactBy(v)
  BY <1>4, <1>5, Zenon
<1> HIDE DEF r, v
<1>7. ASSUME NEW n \in 1 .. N
      PROVE  /\ n - 1 \in 0 .. N
             /\ r[n] = Wrap(r[n - 1] * 10 + digits[n])
             /\ v[n] = v[n - 1] * 10 + digits[n]
  BY <1>0, <1>6
<1>8. r[0] = 0 /\ v[0] = 0
  BY <1>0, <1>6
<1> HIDE DEF ReadBy, ExactBy
<1> DEFINE Apart == {n \in 0 .. N :
               ~(r[n] \in Int /\ v[n] \in Int /\ \E j \in Int : r[n] = v[n] + j * Statuses)}
<1>9. Apart = {}
  <2> SUFFICES ASSUME Apart # {} PROVE FALSE
    OBVIOUS
  <2>0. Apart \in SUBSET Nat
    BY <1>0
  <2>1. PICK m \in Apart : \A n \in Apart : m <= n
    BY <2>0, Least, Zenon
  <2>2. m # 0
    <3>1. r[0] = v[0] + 0 * Statuses
      BY <1>8, WidthAssumption
    <3> QED BY <1>8, <2>1, <3>1
  <2>3. m \in 1 .. N /\ m - 1 \notin Apart
    <3>1. m \in 1 .. N
      BY <1>0, <2>1, <2>2
    <3> HIDE DEF Apart
    <3>2. m - 1 \notin Apart
      BY <2>0, <2>1, <3>1
    <3> QED BY <3>1, <3>2
  <2>4. m - 1 \in 0 .. N
    BY <1>7, <2>3
  <2>5. r[m - 1] \in Int /\ v[m - 1] \in Int
    BY <2>3, <2>4
  <2>6. PICK j \in Int : r[m - 1] = v[m - 1] + j * Statuses
    BY <2>3, <2>4
  <2>7. digits[m] \in Int
    BY <1>0, <2>3
  <2>8. PICK w \in Int : Wrap(r[m - 1] * 10 + digits[m])
                           = r[m - 1] * 10 + digits[m] + w * Statuses
    <3>1. r[m - 1] * 10 + digits[m] \in Int
      BY <2>5, <2>7
    <3> QED BY <3>1, WrapAdds
  <2> DEFINE a == r[m - 1]
             b == v[m - 1]
             c == digits[m]
  <2>9. a * 10 + c + w * Statuses = b * 10 + c + (10 * j + w) * Statuses
    <3>1. a \in Int /\ b \in Int /\ c \in Int /\ a = b + j * Statuses /\ Statuses \in Int
      BY <2>5, <2>6, <2>7, WidthAssumption
    <3> HIDE DEF a, b, c
    <3> QED BY <3>1
  <2>10. r[m] = v[m] + (10 * j + w) * Statuses
    BY <1>7, <2>3, <2>8, <2>9
  <2>11. r[m] \in Int /\ v[m] \in Int
    <3>0. r[m - 1] * 10 + digits[m] \in Int
      BY <2>5, <2>7
    <3>1. Wrap(r[m - 1] * 10 + digits[m]) \in Int
      BY <3>0, WrapType
    <3> QED BY <1>7, <2>3, <2>5, <2>7, <3>1
  <2>12. 10 * j + w \in Int
    OBVIOUS
  <2>13. m \notin Apart
    BY <2>10, <2>11, <2>12
  <2> QED BY <2>1, <2>13
<1>10. N \in 0 .. N
  BY <1>0
<1> QED BY <1>1, <1>9, <1>10, Zenon

LEMMA Congruent ==
    ASSUME NEW r \in Int, NEW v \in Int, NEW j \in Int, r = v + j * Statuses
    PROVE  /\ r % Statuses = v % Statuses
           /\ Wrap(-r) % Statuses = (-v) % Statuses
<1>1. Statuses \in Nat \ {0} /\ -r \in Int /\ -v \in Int
  BY WidthAssumption
<1>2. PICK w \in Int : Wrap(-r) = -r + w * Statuses
  BY <1>1, WrapAdds
<1>3. Wrap(-r) = -v + (w - j) * Statuses /\ w - j \in Int
  BY <1>1, <1>2
<1>4. (-v + (w - j) * Statuses) % Statuses = (-v) % Statuses
  BY <1>1, <1>3, ModAdd
<1>5. (v + j * Statuses) % Statuses = v % Statuses
  BY <1>1, ModAdd
<1> QED BY <1>3, <1>4, <1>5

(* So the status is that of the number that was written. *)
LEMMA StatusMeant ==
    ASSUME NEW digits \in Seq(0 .. 9), NEW sign \in Signed
    PROVE  StringToInt(sign, digits) % Statuses =
              CASE sign = "+" -> 0
                [] sign = "-" -> (-Exactly(digits)) % Statuses
                [] OTHER -> Exactly(digits) % Statuses
<1>1. ReadDigits(digits) \in Int /\ Exactly(digits) \in Int
  BY DigitsRead
<1>2. PICK j \in Int : ReadDigits(digits) = Exactly(digits) + j * Statuses
  BY DigitsRead
<1>3. /\ ReadDigits(digits) % Statuses = Exactly(digits) % Statuses
      /\ Wrap(-ReadDigits(digits)) % Statuses = (-Exactly(digits)) % Statuses
  BY <1>1, <1>2, Congruent
<1>4. 0 % Statuses = 0
  BY WidthAssumption
<1> QED BY <1>3, <1>4 DEF StringToInt, Signed

LEMMA StringToIntType ==
    ASSUME NEW digits \in Seq(0 .. 9), NEW sign \in Sign
    PROVE  StringToInt(sign, digits) \in Int
<1>1. ReadDigits(digits) \in Int
  BY DigitsRead
<1>2. Wrap(-ReadDigits(digits)) \in Int
  BY <1>1, WrapType
<1> QED BY <1>1, <1>2 DEF StringToInt

-----------------------------------------------------------------------------
(* Control points and types *)

(* What holds at each control point: where the running line is executed,   *)
(* and to which file the process that executes it writes.                  *)
Control ==
    /\ TypeOK
    /\ ended = "no" <=> pc # "over"
    /\ pc \notin {"read", "over"} \/ ended = "killed" => next > 1
    /\ pc \in {"shell", "restore"} => Here /\ proc["shell"].fd1 = Goes(now)
    /\ pc \in {"child", "gone"} => ~Here /\ proc["shell"].fd1 = "out"
    /\ pc = "child" => proc["child"].fd1 = Goes(now)
    /\ pc \in {"dispatch", "shell", "child"} => now \notin refused
    /\ \A n \in refused :
          n \in 1 .. next - 1 /\ (InShell(n) => Is(n, "reader"))

Text == 1 .. Len(script)

LEMMA NowIs ==
    ASSUME LinesApart, next > 1
    PROVE  /\ now = next - 1 /\ now \in Text /\ Running \in Line /\ ran # <<>>
           /\ Len(script) \in Nat
<1>1. /\ script \in Seq(Line) /\ Len(script) \in Nat /\ next \in Nat
      /\ next - 1 \in 1 .. Len(script) /\ Len(ran) = next - 1 /\ ran \in Seq(Nat)
  BY DEF LinesApart
<1>2. ran[next - 1] = next - 1
  BY <1>1 DEF LinesApart
<1>3. script[next - 1] \in Line
  BY <1>1
<1>4. now = next - 1
  BY <1>1, <1>2 DEF now
<1> QED BY <1>1, <1>3, <1>4 DEF Running, Text

LEMMA NowNext ==
    ASSUME LinesApart, ReadLine
    PROVE  now' = next
<1>1. next' = next + 1 /\ next \in Nat /\ next >= 1
  BY DEF ReadLine, LinesApart
<1>2. LinesApart'
  BY LinesNext DEF Next
<1>3. Len(ran') = next /\ next \in 1 .. next' - 1
  <2>1. Len(ran') = next' - 1
    BY <1>2 DEF LinesApart
  <2> QED BY <1>1, <2>1
<1> QED BY <1>2, <1>3 DEF now, LinesApart

LEMMA WrittenType ==
    ASSUME TypeOK, NEW p \in Proc, NEW texts \in Seq(Text)
    PROVE  Written(p, texts) \in [Dest -> Seq([line : Text, by : Proc])]
<1>1. proc[p].fd1 \in Dest /\ files \in [Dest -> Seq([line : Text, by : Proc])]
  BY DEF TypeOK, Memory, Text
<1>2. \A n \in DOMAIN texts : Entry(p, texts[n]) \in [line : Text, by : Proc]
  BY DEF Entry
<1>3. [n \in DOMAIN texts |-> Entry(p, texts[n])] \in Seq([line : Text, by : Proc])
  <2>1. DOMAIN texts = 1 .. Len(texts) /\ Len(texts) \in Nat
    OBVIOUS
  <2> QED BY <1>2, <2>1, IsASeq
<1>4. files[proc[p].fd1] \o [n \in DOMAIN texts |-> Entry(p, texts[n])]
         \in Seq([line : Text, by : Proc])
  <2> DEFINE T == [line : Text, by : Proc]
             old == files[proc[p].fd1]
             new == [n \in DOMAIN texts |-> Entry(p, texts[n])]
  <2>1. old \in Seq(T) /\ new \in Seq(T)
    BY <1>1, <1>3
  <2> HIDE DEF T, old, new
  <2>2. old \o new \in Seq(T)
    BY <2>1
  <2> QED BY <2>2 DEF T, old, new
<1> QED BY <1>1, <1>4 DEF Written

(* What a process prints ends up in a file or in its buffer. *)
LEMMA PrintsDoes ==
    ASSUME TypeOK, LinesApart, next > 1, NEW p \in Proc, NEW flush \in BOOLEAN,
           NEW st \in 0 .. Statuses - 1, Prints(p, flush, st)
    PROVE  /\ proc' \in [Proc -> Memory]
           /\ \A q \in Proc : q # p => proc'[q] = proc[q]
           /\ proc'[p].fd1 = proc[p].fd1 /\ proc'[p].st = st
           /\ proc'[p].exit = proc[p].exit /\ proc'[p].cwd = proc[p].cwd
           /\ proc'[p].ex_code = proc[p].ex_code
           /\ files' \in [Dest -> Seq([line : Text, by : Proc])]
           /\ Append(proc[p].buf, now) \in Seq(Text)
           /\ \/ /\ proc'[p].buf = <<>>
                 /\ files' = Written(p, Append(proc[p].buf, now))
              \/ /\ ~flush
                 /\ proc'[p].buf = Append(proc[p].buf, now)
                 /\ files' = files
<1> DEFINE all == Append(proc[p].buf, now)
           out == flush \/ Mode(proc[p]) = "line"
<1>1. proc \in [Proc -> Memory] /\ proc[p] \in Memory /\ proc[p].buf \in Seq(Text)
  BY DEF TypeOK, Memory, Text
<1>2. all \in Seq(Text) /\ <<>> \in Seq(Text)
  BY <1>1, NowIs
<1>3. Mode(proc[p]) \in {"unset", "line", "full"}
  BY <1>1 DEF Mode, Memory
<1>4. /\ files' = Written(p, IF out THEN all ELSE <<>>)
      /\ proc' = [proc EXCEPT ![p].buf = IF out THEN <<>> ELSE all,
                              ![p].mode = Mode(proc[p]), ![p].st = st]
  BY DEF Prints
<1> HIDE DEF all, out
<1>5. proc' = [proc EXCEPT ![p] = [proc[p] EXCEPT
                 !.buf = IF out THEN <<>> ELSE all, !.mode = Mode(proc[p]), !.st = st]]
  BY <1>1, <1>4 DEF Memory
<1>6. [proc[p] EXCEPT !.buf = IF out THEN <<>> ELSE all, !.mode = Mode(proc[p]), !.st = st]
         \in Memory
  BY <1>1, <1>2, <1>3 DEF Memory, Text
<1>7. /\ proc' \in [Proc -> Memory]
      /\ \A q \in Proc : q # p => proc'[q] = proc[q]
      /\ proc'[p] = [proc[p] EXCEPT
            !.buf = IF out THEN <<>> ELSE all, !.mode = Mode(proc[p]), !.st = st]
  BY <1>1, <1>5, <1>6
<1>8. Written(p, <<>>) = files
  <2>1. /\ files \in [Dest -> Seq([line : Text, by : Proc])] /\ proc[p].fd1 \in Dest
    BY DEF TypeOK, Memory, Text
  <2>2. [n \in DOMAIN <<>> |-> Entry(p, <<>>[n])] = <<>>
    BY EmptySeq
  <2>3. files[proc[p].fd1] \o <<>> = files[proc[p].fd1]
    BY <2>1
  <2> QED BY <2>1, <2>2, <2>3 DEF Written
<1>9. files' \in [Dest -> Seq([line : Text, by : Proc])]
  BY <1>2, <1>4, WrittenType
<1>10. CASE out
  BY <1>1, <1>2, <1>4, <1>7, <1>9, <1>10 DEF all, Memory
<1>11. CASE ~out
  BY <1>1, <1>2, <1>4, <1>7, <1>8, <1>9, <1>11 DEF all, out, Memory
<1> QED BY <1>10, <1>11

LEMMA FreshType == Fresh \in Memory
<1>1. <<>> \in Seq(1 .. Len(script)) /\ 0 \in 0 .. Statuses - 1
  BY WidthAssumption
<1> QED BY <1>1 DEF Fresh, Memory, Dest, Dir

LEMMA ControlInit == Init => LinesApart /\ Control
<1> SUFFICES ASSUME Init PROVE LinesApart /\ Control
  OBVIOUS
<1>1. LinesApart
  BY LinesInit
<1>3. proc \in [Proc -> Memory] /\ proc["shell"].fd1 = "out"
  BY FreshType DEF Init, Proc, Fresh
<1>4. files \in [Dest -> Seq([line : Text, by : Proc])]
  <2>1. <<>> \in Seq([line : Text, by : Proc])
    OBVIOUS
  <2> QED BY <2>1 DEF Init
<1>5. /\ script \in Scripts /\ source \in {"stdin", "script"} /\ tty \in BOOLEAN
      /\ pc = "read" /\ last_code = 0 /\ code = 0 /\ ended = "no" /\ refused = {}
  BY DEF Init
<1>6. /\ next \in 1 .. lim /\ lim \in 1 .. Len(script) + 1
      /\ off \in lim .. Len(script) + 1
  BY <1>1 DEF LinesApart
<1>7. 0 \in 0 .. Statuses - 1
  BY WidthAssumption
<1>8. TypeOK
  BY <1>3, <1>4, <1>5, <1>6, <1>7 DEF TypeOK, Text
<1> QED BY <1>1, <1>5, <1>8 DEF Control

LEMMA SmallStatuses == 0 \in 0 .. Statuses - 1 /\ 1 \in 0 .. Statuses - 1
                          /\ 2 \in 0 .. Statuses - 1
BY WidthAssumption

LEMMA ProcExcept ==
    ASSUME proc \in [Proc -> Memory], NEW p \in Proc, NEW m \in Memory,
           proc' = [proc EXCEPT ![p] = m]
    PROVE  /\ proc' \in [Proc -> Memory] /\ proc'[p] = m
           /\ \A q \in Proc : q # p => proc'[q] = proc[q]
OBVIOUS

(* The parts of the types that each step has to keep. *)
LEMMA TypesFrom ==
    ASSUME LinesApart', TypeOK, UNCHANGED <<script, source, tty>>,
           pc' \in {"read", "dispatch", "shell", "child", "restore", "gone", "done",
                    "leave", "over"},
           proc' \in [Proc -> Memory],
           pc' \in {"read", "dispatch", "done", "leave"} => proc'["shell"].fd1 = "out",
           last_code' \in 0 .. Statuses - 1, code' \in 0 .. Statuses - 1,
           files' \in [Dest -> Seq([line : Text, by : Proc])],
           ended' \in {"no", "eof", "exit", "killed"}
    PROVE  TypeOK'
<1>1. /\ (next \in 1 .. lim)' /\ (lim \in 1 .. Len(script) + 1)'
      /\ (off \in lim .. Len(script) + 1)'
  BY DEF LinesApart
<1>2. Memory' = Memory /\ Text' = Text
  BY DEF Memory, Text
<1> QED BY <1>1, <1>2 DEF TypeOK, Text

LEMMA ExCodeType ==
    ASSUME LinesApart, TypeOK, next > 1
    PROVE  ExCode \in 0 .. Statuses - 1
<1>1. Running \in Line /\ Running.sign \in Sign /\ Running.digits \in Seq(0 .. 9)
  BY NowIs DEF Line
<1>2. StringToInt(Running.sign, Running.digits) \in Int
  BY <1>1, StringToIntType
<1>3. \A n \in Int : n % Statuses \in 0 .. Statuses - 1
  BY WidthAssumption
<1>4. StringToInt(Running.sign, Running.digits) % Statuses \in 0 .. Statuses - 1
  BY <1>2, <1>3
<1>5. last_code \in 0 .. Statuses - 1
  BY DEF TypeOK
<1> QED BY <1>4, <1>5, SmallStatuses DEF ExCode

(* A command that ends in p leaves p's descriptor where it was. *)
LEMMA CommandControl ==
    ASSUME LinesApart', Control, next > 1, NEW p \in Proc,
           UNCHANGED <<script, source, tty, last_code, ended, code, refused, next, ran>>,
           pc = p, pc' = After(p),
           proc' \in [Proc -> Memory], proc'[p].fd1 = proc[p].fd1,
           \A q \in Proc : q # p => proc'[q] = proc[q],
           files' \in [Dest -> Seq([line : Text, by : Proc])]
    PROVE  Control'
<1>1. TypeOK /\ "shell" \in Proc
  BY DEF Control, Proc
<1>2. pc' = IF p = "shell" THEN "restore" ELSE "gone"
  BY DEF After
<1>3. TypeOK'
  <2>1. last_code \in 0 .. Statuses - 1 /\ code \in 0 .. Statuses - 1
        /\ ended \in {"no", "eof", "exit", "killed"}
    BY <1>1 DEF TypeOK
  <2> QED BY <1>1, <1>2, <2>1, TypesFrom
<1>4. Here' = Here /\ Goes(now)' = Goes(now)
  BY DEF Here, Running, now, Goes
<1> QED BY <1>1, <1>2, <1>3, <1>4 DEF Control, InShell, Is, Proc

LEMMA ControlNext == LinesApart /\ Control /\ [Next]_vars => Control'
<1> SUFFICES ASSUME LinesApart, Control, [Next]_vars PROVE Control'
  OBVIOUS
<1>0. LinesApart'
  BY LinesNext
<1>1. /\ TypeOK /\ proc \in [Proc -> Memory] /\ last_code \in 0 .. Statuses - 1
      /\ code \in 0 .. Statuses - 1 /\ next \in Nat
      /\ files \in [Dest -> Seq([line : Text, by : Proc])]
      /\ ended \in {"no", "eof", "exit", "killed"}
      /\ "shell" \in Proc /\ "child" \in Proc /\ "out" \in Dest
  BY DEF Control, TypeOK, Text, Proc, Dest
<1>2. CASE Fill
  <2>1. /\ UNCHANGED <<script, source, tty, pc, proc, last_code, files, ended, code,
                      refused, ran>>
        /\ pc = "read" /\ next' \in Nat
    BY <1>0, <1>2 DEF Fill, world, history, LinesApart
  <2>2. TypeOK'
    BY <1>0, <1>1, <2>1, TypesFrom DEF TypeOK
  <2>3. next <= next'
    BY <1>2 DEF Fill, LinesApart
  <2> QED BY <1>1, <2>1, <2>2, <2>3 DEF Control, InShell, Is
<1>3. CASE ReadLine
  <2>1. /\ UNCHANGED <<script, source, tty, proc, last_code, files, ended, code, refused>>
        /\ pc = "read" /\ pc' = "dispatch" /\ next' = next + 1
    BY <1>3 DEF ReadLine, world
  <2>2. TypeOK'
    BY <1>0, <1>1, <2>1, TypesFrom DEF TypeOK
  <2>3. next \in 1 .. lim
    BY <1>1 DEF TypeOK
  <2>4. now' \notin refused'
    BY <1>1, <1>3, <2>1, NowNext DEF Control
  <2> QED BY <1>1, <2>1, <2>2, <2>3, <2>4 DEF Control, InShell, Is
<1>4. CASE Return
  <2>1. /\ UNCHANGED <<script, source, tty, last_code, refused, next, ran>>
        /\ pc = "read" /\ pc' = "over" /\ ended' = "eof" /\ code' = last_code
        /\ files' = Written("shell", proc["shell"].buf)
        /\ proc' = [proc EXCEPT !["shell"].buf = <<>>]
    BY <1>4 DEF Return, world, input, history
  <2>2. proc["shell"].buf \in Seq(Text) /\ <<>> \in Seq(Text)
    BY <1>1 DEF Memory, Text
  <2>3. files' \in [Dest -> Seq([line : Text, by : Proc])]
    BY <1>1, <2>1, <2>2, WrittenType
  <2>4. proc' \in [Proc -> Memory]
    BY <1>1, <2>1, <2>2 DEF Memory, Text
  <2>5. TypeOK'
    BY <1>0, <1>1, <2>1, <2>3, <2>4, TypesFrom
  <2> QED BY <1>1, <2>1, <2>5 DEF Control, InShell, Is
<1>5. CASE Direct
  <2>1. /\ UNCHANGED <<script, source, tty, last_code, files, ended, code, refused,
                      next, ran>>
        /\ pc = "dispatch" /\ pc' = "shell" /\ Here
        /\ proc' = [proc EXCEPT !["shell"].fd1 = IF Running.place = "file" THEN "f" ELSE @]
    BY <1>5 DEF Direct, world, input, history
  <2>2. proc' \in [Proc -> Memory]
    <3> DEFINE d == IF Running.place = "file" THEN "f" ELSE proc["shell"].fd1
               m == [proc["shell"] EXCEPT !.fd1 = d]
    <3>1. d \in Dest
      BY <1>1 DEF Memory, Dest
    <3>2. m \in Memory
      <4> HIDE DEF d
      <4> QED BY <1>1, <3>1 DEF Memory
    <3>3. proc' = [proc EXCEPT !["shell"] = m]
      BY <2>1
    <3> HIDE DEF m
    <3> QED BY <1>1, <3>2, <3>3, ProcExcept
  <2>3. TypeOK'
    BY <1>0, <1>1, <2>1, <2>2, TypesFrom
  <2>4. proc["shell"].fd1 = "out"
    BY <1>1, <2>1 DEF TypeOK
  <2>5. Here' /\ proc'["shell"].fd1 = Goes(now)
    BY <1>1, <2>1, <2>4 DEF Here, Goes, Running, now, Memory
  <2>6. Goes(now)' = Goes(now) /\ now' = now
    BY <2>1 DEF Goes, now
  <2> QED BY <1>1, <2>1, <2>3, <2>5, <2>6 DEF Control, InShell, Is
<1>6. CASE Fork
  <2>1. /\ UNCHANGED <<script, source, tty, last_code, files, ended, code, refused,
                      next, ran>>
        /\ pc = "dispatch" /\ pc' = "child" /\ ~Here
        /\ proc' = [proc EXCEPT !["child"] =
                   [proc["shell"] EXCEPT !.fd1 = CASE Running.place = "file" -> "f"
                                                   [] Running.place = "first" -> "pipe"
                                                   [] OTHER -> @]]
    BY <1>6 DEF Fork, world, input, history
  <2>2. proc["shell"].fd1 = "out" /\ next > 1
    BY <1>1, <2>1 DEF TypeOK, Control
  <2>3. proc' \in [Proc -> Memory]
    <3> DEFINE d == CASE Running.place = "file" -> "f"
                      [] Running.place = "first" -> "pipe"
                      [] OTHER -> proc["shell"].fd1
               m == [proc["shell"] EXCEPT !.fd1 = d]
    <3>1. d \in Dest
      BY <1>1 DEF Memory, Dest
    <3>2. m \in Memory
      <4> HIDE DEF d
      <4> QED BY <1>1, <3>1 DEF Memory
    <3>3. proc' = [proc EXCEPT !["child"] = m]
      BY <2>1
    <3> HIDE DEF m
    <3> QED BY <1>1, <3>2, <3>3, ProcExcept
  <2>4. TypeOK'
    BY <1>0, <1>1, <2>1, <2>3, TypesFrom
  <2>5. (~Here)' /\ proc'["child"].fd1 = Goes(now)
    <3>1. Running.place \in Place
      BY <2>2, NowIs DEF Line
    <3> QED BY <1>1, <2>1, <2>2, <3>1 DEF Here, Goes, Running, now, Memory, Place
  <2>6. Goes(now)' = Goes(now) /\ now' = now
    BY <2>1 DEF Goes, now
  <2> QED BY <1>1, <2>1, <2>2, <2>4, <2>5, <2>6 DEF Control, InShell, Is
<1>7. CASE ForkFails
  <2>1. /\ UNCHANGED <<script, source, tty, last_code, files, ended, code, next, ran>>
        /\ pc = "dispatch" /\ pc' = "done" /\ ~Here
        /\ proc' = [proc EXCEPT !["shell"].st = 1] /\ refused' = refused \cup {now}
    BY <1>7 DEF ForkFails, world, input
  <2>2. proc["shell"].fd1 = "out" /\ next > 1
    BY <1>1, <2>1 DEF TypeOK, Control
  <2>3. proc' \in [Proc -> Memory] /\ proc'["shell"].fd1 = "out"
    <3> DEFINE m == [proc["shell"] EXCEPT !.st = 1]
    <3>1. m \in Memory /\ m.fd1 = "out"
      BY <1>1, <2>2, SmallStatuses DEF Memory
    <3>2. proc' = [proc EXCEPT !["shell"] = m]
      BY <2>1
    <3> HIDE DEF m
    <3> QED BY <1>1, <3>1, <3>2, ProcExcept
  <2>4. TypeOK'
    BY <1>0, <1>1, <2>1, <2>3, TypesFrom
  <2>5. now \in 1 .. next - 1 /\ (InShell(now) => Is(now, "reader"))
    BY <1>1, <2>1, <2>2, NowIs DEF Here, InShell, Is, Running
  <2>6. \A n \in refused' : n \in 1 .. next' - 1 /\ (InShell(n)' => Is(n, "reader")')
    BY <2>1, <2>5 DEF Control, InShell, Is
  <2> QED BY <1>1, <2>1, <2>2, <2>4, <2>6 DEF Control
<1>8. ASSUME NEW p \in Proc, Echo(p) \/ TooMany(p) PROVE Control'
  <2>1. /\ UNCHANGED <<script, source, tty, last_code, ended, code, refused, next, ran>>
        /\ pc = p /\ pc' = After(p)
        /\ \E flush \in BOOLEAN, st \in {0, 1} : Prints(p, flush, st)
    BY <1>8 DEF Echo, TooMany, Runs, world, input, history
  <2>2. next > 1
    BY <1>1, <2>1 DEF Control, Proc
  <2>3. PICK flush \in BOOLEAN, st \in 0 .. Statuses - 1 : Prints(p, flush, st)
    BY <2>1, SmallStatuses
  <2>4. /\ proc' \in [Proc -> Memory] /\ proc'[p].fd1 = proc[p].fd1
        /\ \A q \in Proc : q # p => proc'[q] = proc[q]
        /\ files' \in [Dest -> Seq([line : Text, by : Proc])]
    BY <1>1, <2>2, <2>3, PrintsDoes
  <2> QED BY <1>0, <1>1, <2>1, <2>2, <2>4, CommandControl
<1>9. ASSUME NEW p \in Proc, Exit(p) PROVE Control'
  <2>1. /\ UNCHANGED <<script, source, tty, last_code, files, ended, code, refused,
                      next, ran>>
        /\ pc = p /\ pc' = After(p) /\ Is(now, "exit")
        /\ proc' = [proc EXCEPT ![p].exit = TRUE, ![p].ex_code = ExCode,
                            ![p].st = IF Running.sign = "none" THEN 0 ELSE ExCode]
    BY <1>9 DEF Exit, Runs, Is, Running, world, input, history
  <2>2. next > 1
    BY <1>1, <2>1 DEF Control, Proc
  <2>3. ExCode \in 0 .. Statuses - 1
    BY <1>1, <2>2, ExCodeType
  <2> DEFINE st == IF Running.sign = "none" THEN 0 ELSE ExCode
             m == [proc[p] EXCEPT !.exit = TRUE, !.ex_code = ExCode, !.st = st]
  <2>4. st \in 0 .. Statuses - 1
    BY <2>3, SmallStatuses
  <2>5. proc' = [proc EXCEPT ![p] = m]
    BY <1>1, <2>1
  <2> HIDE DEF st
  <2>6. m \in Memory /\ m.fd1 = proc[p].fd1
    BY <1>1, <2>3, <2>4 DEF Memory
  <2> HIDE DEF m
  <2>7. /\ proc' \in [Proc -> Memory] /\ proc'[p].fd1 = proc[p].fd1
        /\ \A q \in Proc : q # p => proc'[q] = proc[q]
    BY <1>1, <2>5, <2>6, ProcExcept
  <2> QED BY <1>0, <1>1, <2>1, <2>2, <2>7, CommandControl
<1>10. ASSUME NEW p \in Proc, Cd(p) PROVE Control'
  <2> DEFINE found == Running.dir = "there" \/ (Running.dir = "none" /\ Home)
             st == IF found THEN 0 ELSE 1
             cwd == IF found THEN Running.dir ELSE proc[p].cwd
             m == [proc[p] EXCEPT !.st = st, !.cwd = cwd]
  <2>1. /\ UNCHANGED <<script, source, tty, last_code, files, ended, code, refused,
                      next, ran>>
        /\ pc = p /\ pc' = After(p)
        /\ proc' = [proc EXCEPT ![p].st = st, ![p].cwd = cwd]
    BY <1>10 DEF Cd, Runs, world, input, history
  <2>2. next > 1
    BY <1>1, <2>1 DEF Control, Proc
  <2>3. Running \in Line
    BY <2>2, NowIs
  <2>4. st \in 0 .. Statuses - 1 /\ cwd \in Dir \cup {"start"}
    BY <1>1, <2>3, SmallStatuses DEF Line, Memory
  <2>5. proc' = [proc EXCEPT ![p] = m]
    BY <1>1, <2>1
  <2> HIDE DEF st, cwd
  <2>6. m \in Memory /\ m.fd1 = proc[p].fd1
    BY <1>1, <2>4 DEF Memory
  <2> HIDE DEF m
  <2>7. /\ proc' \in [Proc -> Memory] /\ proc'[p].fd1 = proc[p].fd1
        /\ \A q \in Proc : q # p => proc'[q] = proc[q]
    BY <1>1, <2>5, <2>6, ProcExcept
  <2> QED BY <1>0, <1>1, <2>1, <2>2, <2>7, CommandControl
<1>11. ASSUME NEW p \in Proc, Kill(p) PROVE Control'
  <2>1. /\ UNCHANGED <<script, source, tty, last_code, files, code, refused, next, ran>>
        /\ pc = p
    BY <1>11 DEF Kill, Runs, world, input, history
  <2>2. next > 1
    BY <1>1, <2>1 DEF Control, Proc
  <2>3. CASE "shell" \in ToSet(Hit)
    <3>1. ended' = "killed" /\ pc' = "over" /\ proc' = proc
      BY <1>11, <2>3 DEF Kill
    <3>2. TypeOK'
      BY <1>0, <1>1, <2>1, <3>1, TypesFrom
    <3> QED BY <1>1, <2>1, <2>2, <3>1, <3>2 DEF Control, InShell, Is
  <2>4. CASE "shell" \notin ToSet(Hit)
    <3> DEFINE m == [proc[p] EXCEPT !.st = KillStatus]
    <3>1. /\ ended' = ended /\ pc' = After(p)
          /\ proc' = [proc EXCEPT ![p] = m]
      BY <1>11, <2>4 DEF Kill
    <3>2. KillStatus \in 0 .. Statuses - 1
      BY SmallStatuses DEF KillStatus
    <3>3. m \in Memory /\ m.fd1 = proc[p].fd1
      BY <1>1, <3>2 DEF Memory
    <3> HIDE DEF m
    <3>4. /\ proc' \in [Proc -> Memory] /\ proc'[p].fd1 = proc[p].fd1
          /\ \A q \in Proc : q # p => proc'[q] = proc[q]
      BY <1>1, <3>1, <3>3, ProcExcept
    <3> QED BY <1>0, <1>1, <2>1, <2>2, <3>1, <3>4, CommandControl
  <2> QED BY <2>3, <2>4
<1>12. CASE Read
  <2> DEFINE m == [proc["child"] EXCEPT !.buf = <<>>, !.st = 0]
  <2>1. /\ UNCHANGED <<script, source, tty, last_code, files, ended, code, refused,
                      next, ran>>
        /\ pc = "child" /\ pc' = After("child")
        /\ proc' = [proc EXCEPT !["child"] = m]
    BY <1>12 DEF Read, Runs, After, world, input
  <2>2. next > 1
    BY <1>1, <2>1 DEF Control
  <2>3. m \in Memory /\ m.fd1 = proc["child"].fd1
    <3>1. <<>> \in Seq(1 .. Len(script))
      OBVIOUS
    <3> QED BY <1>1, <3>1, SmallStatuses DEF Memory
  <2> HIDE DEF m
  <2>4. /\ proc' \in [Proc -> Memory] /\ proc'["child"].fd1 = proc["child"].fd1
        /\ \A q \in Proc : q # "child" => proc'[q] = proc[q]
    BY <1>1, <2>1, <2>3, ProcExcept
  <2> QED BY <1>0, <1>1, <2>1, <2>2, <2>4, CommandControl
<1>13. CASE Restore
  <2> DEFINE m == [proc["shell"] EXCEPT !.fd1 = "out"]
  <2>1. /\ UNCHANGED <<script, source, tty, last_code, files, ended, code, refused,
                      next, ran>>
        /\ pc = "restore" /\ pc' = "done"
        /\ proc' = [proc EXCEPT !["shell"] = m]
    BY <1>13 DEF Restore, world, input, history
  <2>2. m \in Memory /\ m.fd1 = "out"
    BY <1>1 DEF Memory
  <2> HIDE DEF m
  <2>3. proc' \in [Proc -> Memory] /\ proc'["shell"].fd1 = "out"
    BY <1>1, <2>1, <2>2, ProcExcept
  <2>4. TypeOK'
    BY <1>0, <1>1, <2>1, <2>3, TypesFrom
  <2> QED BY <1>1, <2>1, <2>4 DEF Control, InShell, Is
<1>14. CASE Reap
  <2> DEFINE m == [proc["shell"] EXCEPT !.st = Status]
  <2>1. /\ UNCHANGED <<script, source, tty, last_code, files, ended, code, refused,
                      next, ran>>
        /\ pc = "gone" /\ pc' = "done"
        /\ proc' = [proc EXCEPT !["shell"] = m, !["child"] = Fresh]
    BY <1>14 DEF Reap, world, input, history
  <2>2. Status \in 0 .. Statuses - 1
    BY <1>1, SmallStatuses DEF Status, Memory
  <2>3. m \in Memory /\ m.fd1 = proc["shell"].fd1
    BY <1>1, <2>2 DEF Memory
  <2>4. Fresh \in Memory
    BY FreshType
  <2> HIDE DEF m
  <2>5. proc' \in [Proc -> Memory] /\ proc'["shell"] = m
    BY <1>1, <2>1, <2>3, <2>4
  <2>6. proc["shell"].fd1 = "out"
    BY <1>1, <2>1 DEF Control
  <2>7. TypeOK'
    BY <1>0, <1>1, <2>1, <2>3, <2>5, <2>6, TypesFrom
  <2> QED BY <1>1, <2>1, <2>7 DEF Control, InShell, Is
<1>15. CASE LineDone
  <2>1. /\ UNCHANGED <<script, source, tty, proc, files, ended, code, refused, next, ran>>
        /\ pc = "done" /\ pc' \in {"read", "leave"} /\ last_code' = proc["shell"].st
    BY <1>15 DEF LineDone, world, input, history
  <2>2. last_code' \in 0 .. Statuses - 1 /\ proc'["shell"].fd1 = "out"
    BY <1>1, <2>1 DEF Memory, TypeOK
  <2>3. TypeOK'
    BY <1>0, <1>1, <2>1, <2>2, TypesFrom
  <2> QED BY <1>1, <2>1, <2>3 DEF Control, InShell, Is
<1>16. CASE Leave
  <2> DEFINE m == [proc["shell"] EXCEPT !.buf = <<>>]
  <2>1. /\ UNCHANGED <<script, source, tty, last_code, files, refused, next, ran>>
        /\ pc = "leave" /\ pc' = "over" /\ ended' = "exit"
        /\ code' = proc["shell"].ex_code
        /\ proc' = [proc EXCEPT !["shell"] = m]
    BY <1>16 DEF Leave, world, input, history
  <2>2. m \in Memory /\ code' \in 0 .. Statuses - 1
    <3>1. <<>> \in Seq(1 .. Len(script))
      OBVIOUS
    <3> QED BY <1>1, <2>1, <3>1 DEF Memory
  <2> HIDE DEF m
  <2>3. proc' \in [Proc -> Memory]
    BY <1>1, <2>1, <2>2, ProcExcept
  <2>4. TypeOK'
    BY <1>0, <1>1, <2>1, <2>2, <2>3, TypesFrom
  <2> QED BY <1>1, <2>1, <2>4 DEF Control, InShell, Is
<1>17. CASE UNCHANGED vars
  <2>1. UNCHANGED <<script, source, tty, next, lim, off, pc, proc, last_code, files,
                    ended, code, ran, refused>>
    BY <1>17 DEF vars
  <2>2. TypeOK'
    BY <1>0, <1>1, <2>1, TypesFrom DEF TypeOK
  <2>3. Here' = Here /\ Goes(now)' = Goes(now) /\ now' = now
    BY <2>1 DEF Here, Running, now, Goes
  <2> QED BY <2>1, <2>2, <2>3 DEF Control, InShell, Is
<1> QED
  BY <1>2, <1>3, <1>4, <1>5, <1>6, <1>7, <1>8, <1>9, <1>10, <1>11, <1>12, <1>13,
     <1>14, <1>15, <1>16, <1>17 DEF Next, Builtin

-----------------------------------------------------------------------------
(* Lines carried out, of those that were begun, and how steps add to them. *)
Done == {n \in 1 .. next - 1 : Carried(n)}

LEMMA BegunIs ==
    ASSUME LinesApart
    PROVE  /\ ToSet(ran) = 1 .. next - 1
           /\ Done = {n \in ToSet(ran) : Carried(n)}
<1>1. DOMAIN ran = 1 .. next - 1 /\ \A n \in 1 .. next - 1 : ran[n] = n
  BY DEF LinesApart
<1>2. ToSet(ran) = 1 .. next - 1
  BY <1>1 DEF ToSet
<1> QED BY <1>2 DEF Done

Quiet == \/ Fill \/ ReadLine \/ Direct \/ Fork \/ ForkFails \/ Restore \/ Reap
         \/ LineDone \/ UNCHANGED vars

LEMMA QuietStep ==
    ASSUME LinesApart, Control, Quiet
    PROVE  /\ UNCHANGED <<script, files, ended>> /\ Done' = Done
           /\ proc'["shell"].buf = proc["shell"].buf
           /\ proc'["shell"].cwd = proc["shell"].cwd
           /\ proc'["shell"].exit = proc["shell"].exit
           /\ proc'["shell"].ex_code = proc["shell"].ex_code
           /\ proc'["child"].buf \in {proc["child"].buf, proc["shell"].buf, <<>>}
<1>1. proc \in [Proc -> Memory] /\ "shell" \in Proc /\ "child" \in Proc
  BY DEF Control, TypeOK, Proc
<1>2. UNCHANGED <<script, files, ended>>
  BY DEF Quiet, Fill, ReadLine, Direct, Fork, ForkFails, Restore, Reap, LineDone,
         vars, world, input, history
<1>3. /\ proc'["shell"].buf = proc["shell"].buf
      /\ proc'["shell"].cwd = proc["shell"].cwd
      /\ proc'["shell"].exit = proc["shell"].exit
      /\ proc'["shell"].ex_code = proc["shell"].ex_code
      /\ proc'["child"].buf \in {proc["child"].buf, proc["shell"].buf, <<>>}
  <2>1. CASE Fill \/ ReadLine \/ LineDone \/ UNCHANGED vars
    BY <2>1 DEF Fill, ReadLine, LineDone, vars
  <2>2. CASE Direct
    BY <1>1, <2>2 DEF Direct, Memory
  <2>3. CASE Fork
    BY <1>1, <2>3 DEF Fork, Memory
  <2>4. CASE ForkFails
    BY <1>1, <2>4 DEF ForkFails, Memory
  <2>5. CASE Restore
    BY <1>1, <2>5 DEF Restore, Memory
  <2>6. CASE Reap
    BY <1>1, <2>6 DEF Reap, Memory, Fresh
  <2> QED BY <2>1, <2>2, <2>3, <2>4, <2>5, <2>6 DEF Quiet
<1>4. Done' = Done
  <2>1. CASE ReadLine
    <3>1. /\ UNCHANGED <<refused, ended>> /\ pc = "read" /\ pc' = "dispatch"
          /\ next' = next + 1 /\ next \in Nat
      BY <2>1 DEF ReadLine, LinesApart
    <3>2. ended # "killed" /\ ~Begun
      BY <3>1 DEF Control, Begun
    <3>3. now' = next /\ Begun'
      BY <2>1, <3>1, NowNext DEF Begun
    <3> QED BY <3>1, <3>2, <3>3 DEF Done, Carried
  <2>2. CASE ForkFails
    <3>1. /\ UNCHANGED <<next, ran, ended>> /\ pc = "dispatch" /\ pc' = "done"
          /\ refused' = refused \cup {now}
      BY <2>2 DEF ForkFails, input
    <3>2. Begun /\ ~Begun' /\ now' = now
      BY <3>1 DEF Begun, Control, now
    <3> QED BY <3>1, <3>2 DEF Done, Carried
  <2>3. CASE Direct \/ Fork
    <3>1. UNCHANGED <<next, ran, ended, refused>> /\ pc = "dispatch"
          /\ pc' \in {"shell", "child"}
      BY <2>3 DEF Direct, Fork, input, history
    <3>2. Begun /\ Begun' /\ now' = now
      BY <3>1 DEF Begun, now
    <3> QED BY <3>1, <3>2 DEF Done, Carried
  <2>4. CASE Restore \/ Reap \/ LineDone
    <3>1. UNCHANGED <<next, ran, ended, refused>> /\ pc \in {"restore", "gone", "done"}
          /\ pc' \in {"done", "read", "leave"}
      BY <2>4 DEF Restore, Reap, LineDone, input, history
    <3>2. ~Begun /\ ~Begun'
      BY <3>1 DEF Begun, Control
    <3> QED BY <3>1, <3>2 DEF Done, Carried
  <2>5. CASE UNCHANGED vars
    BY <2>5 DEF vars, Done, Carried, Begun, now
  <2>6. CASE Fill
    <3>1. UNCHANGED <<ran, ended, refused, pc>> /\ pc = "read" /\ next = lim /\ next' = off
      BY <2>6 DEF Fill, history
    <3>2. ~Begun /\ ~Begun'
      BY <3>1 DEF Begun, Control
    <3>3. LinesApart'
      BY <2>6, LinesNext DEF Next
    <3>4. next' = next
      <4>1. Len(ran) = next - 1 /\ next \in Nat
        BY DEF LinesApart
      <4>2. Len(ran) = next' - 1 /\ next' \in Nat
        BY <3>1, <3>3 DEF LinesApart
      <4>3. next - 1 = next' - 1
        BY <4>1, <4>2, Zenon
      <4>4. \A a, b \in Nat : a - 1 = b - 1 => a = b
        OBVIOUS
      <4> QED BY <4>1, <4>2, <4>3, <4>4, Zenon
    <3> QED BY <3>1, <3>2, <3>4 DEF Done, Carried
  <2> QED BY <2>1, <2>2, <2>3, <2>4, <2>5, <2>6 DEF Quiet
<1> QED BY <1>2, <1>3, <1>4

Command(p) == Builtin(p) \/ (p = "child" /\ Read)

LEMMA CommandStep ==
    ASSUME LinesApart, Control, NEW p \in Proc, Command(p), ended' = ended
    PROVE  /\ UNCHANGED <<script, ended, ran, next, refused>> /\ now' = now
           /\ pc = p /\ pc' = After(p) /\ next > 1 /\ now \in Nat
           /\ Done' = Done \cup {now} /\ \A n \in Done : n \in Nat /\ n < now
           /\ \A q \in Proc : q # p => proc'[q] = proc[q]
<1>1. proc \in [Proc -> Memory] /\ "shell" \in Proc /\ "child" \in Proc
  BY DEF Control, TypeOK, Proc
<1>2. pc = p
  BY DEF Command, Builtin, Echo, TooMany, Exit, Cd, Kill, Read, Runs
<1>3. next > 1 /\ ended = "no"
  BY <1>2 DEF Control, Proc
<1>4. UNCHANGED <<script, ended, ran, next, refused>> /\ now' = now
  BY DEF Command, Builtin, Echo, TooMany, Exit, Cd, Kill, Read, world, input, history, now
<1>5. pc' = After(p) /\ \A q \in Proc : q # p => proc'[q] = proc[q]
  <2>1. CASE Echo(p) \/ TooMany(p)
    BY <1>1, <2>1 DEF Echo, TooMany, Prints
  <2>2. CASE Exit(p)
    BY <1>1, <2>2 DEF Exit
  <2>3. CASE Cd(p)
    BY <1>1, <2>3 DEF Cd
  <2>4. CASE Kill(p)
    BY <1>1, <1>3, <2>4 DEF Kill
  <2>5. CASE p = "child" /\ Read
    BY <1>1, <2>5 DEF Read, After
  <2> QED BY <2>1, <2>2, <2>3, <2>4, <2>5 DEF Command, Builtin
<1>6. now = next - 1 /\ next \in Nat
  BY <1>3, NowIs DEF LinesApart
<1>7. Begun /\ ~Begun' /\ now \notin refused
  BY <1>2, <1>3, <1>4, <1>5 DEF Begun, After, Proc, Control
<1>8. Done = {n \in 1 .. next - 1 : n \notin refused /\ n # now}
  BY <1>7 DEF Done, Carried
<1>9. Done' = {n \in 1 .. next - 1 : n \notin refused}
  BY <1>4, <1>7 DEF Done, Carried
<1> QED BY <1>2, <1>3, <1>4, <1>5, <1>6, <1>7, <1>8, <1>9

Ending == Return \/ Leave \/ \E p \in Proc : Kill(p) /\ ended' # ended

LEMMA EndStep ==
    ASSUME LinesApart, Control, Ending
    PROVE  /\ UNCHANGED <<script, ran, next, refused>> /\ now' = now /\ Done' = Done
           /\ pc' = "over" /\ proc'["child"] = proc["child"]
           /\ proc'["shell"].cwd = proc["shell"].cwd
           /\ proc'["shell"].exit = proc["shell"].exit
           /\ \/ Return
              \/ Leave /\ files' = files
              \/ ended' = "killed" /\ UNCHANGED <<proc, files>>
<1>1. proc \in [Proc -> Memory] /\ "shell" \in Proc /\ "child" \in Proc
  BY DEF Control, TypeOK, Proc
<1>2. UNCHANGED <<script, ran, next, refused>> /\ now' = now
  BY DEF Ending, Return, Leave, Kill, world, input, history, now
<1>3. CASE Return \/ Leave
  <2>1. pc \in {"read", "leave"} /\ pc' = "over" /\ ended' \in {"eof", "exit"}
    BY <1>3 DEF Return, Leave
  <2>2. ~Begun /\ ~Begun'
    BY <2>1 DEF Begun, Control
  <2>3. Done' = Done
    BY <1>2, <2>2 DEF Done, Carried
  <2>4. proc' = [proc EXCEPT !["shell"].buf = <<>>]
    BY <1>3 DEF Return, Leave
  <2> QED BY <1>1, <1>2, <1>3, <2>1, <2>3, <2>4 DEF Memory, Leave
<1>4. CASE \E p \in Proc : Kill(p) /\ ended' # ended
  <2>1. /\ pc \in Proc /\ pc' = "over" /\ ended' = "killed" /\ UNCHANGED <<proc, files>>
    BY <1>4 DEF Kill, Runs
  <2>2. Begun /\ Begun'
    BY <2>1 DEF Begun, Proc
  <2> QED BY <1>2, <2>1, <2>2 DEF Done, Carried
<1> QED BY <1>3, <1>4 DEF Ending

LEMMA StepKinds ==
    [Next]_vars => \/ Quiet \/ Ending
                   \/ \E p \in Proc : Command(p) /\ ended' = ended
<1>1. ASSUME NEW p \in Proc, Builtin(p), ended' # ended
      PROVE  Kill(p)
  BY <1>1 DEF Builtin, Echo, TooMany, Exit, Cd
<1>2. Read => ended' = ended /\ "child" \in Proc
  BY DEF Read, Proc
<1> QED BY <1>1, <1>2 DEF Next, Quiet, Ending, Command

-----------------------------------------------------------------------------
(* What cd and exit leave behind in the shell *)

LEMMA MaxIs ==
    ASSUME NEW S \in SUBSET Nat, NEW n \in S, \A m \in S : m <= n
    PROVE  Max(S) = n
<1>1. \A x \in S : (\A y \in S : x >= y) => x = n
  OBVIOUS
<1>2. \A y \in S : n >= y
  OBVIOUS
<1> QED BY <1>1, <1>2 DEF Max

Moves == {n \in Done : Arrives(n) /\ InShell(n)}
Lasting ==
    /\ proc["shell"].cwd = IF Moves = {} THEN "start" ELSE script[Max(Moves)].dir
    /\ proc["shell"].exit = \E n \in Done : Is(n, "exit") /\ InShell(n)

LEMMA LastingIs ==
    ASSUME LinesApart
    PROVE  LastingEffects <=> Lasting
<1>1. Moves = {n \in ToSet(ran) : Arrives(n) /\ InShell(n) /\ Carried(n)}
  BY BegunIs DEF Moves
<1>2. (\E n \in Done : Is(n, "exit") /\ InShell(n))
        <=> \E n \in ToSet(ran) : Is(n, "exit") /\ InShell(n) /\ Carried(n)
  BY BegunIs
<1>3. (proc["shell"].exit = \E n \in Done : Is(n, "exit") /\ InShell(n))
        <=> (proc["shell"].exit = \E n \in ToSet(ran) :
                                     Is(n, "exit") /\ InShell(n) /\ Carried(n))
  BY <1>2, Zenon
<1> QED BY <1>1, <1>3, Zenon DEF LastingEffects, Lasting

LEMMA LastingInit == Init => Lasting
<1> SUFFICES ASSUME Init PROVE Lasting
  OBVIOUS
<1>1. Done = {}
  BY DEF Init, Done
<1> QED BY <1>1 DEF Init, Lasting, Moves, Proc, Fresh

LEMMA LastingNext == LinesApart /\ Control /\ Lasting /\ [Next]_vars => Lasting'
<1> SUFFICES ASSUME LinesApart, Control, Lasting, [Next]_vars PROVE Lasting'
  OBVIOUS
<1>0. ASSUME UNCHANGED script, Done' = Done,
             proc'["shell"].cwd = proc["shell"].cwd,
             proc'["shell"].exit = proc["shell"].exit
      PROVE  Lasting'
  BY <1>0 DEF Lasting, Moves, Arrives, InShell, Is
<1>1. CASE Quiet
  BY <1>0, <1>1, QuietStep
<1>2. CASE Ending
  BY <1>0, <1>2, EndStep
<1>3. ASSUME NEW p \in Proc, Command(p), ended' = ended PROVE Lasting'
  <2>1. /\ script' = script /\ pc = p /\ now \in Nat
        /\ Done' = Done \cup {now} /\ \A n \in Done : n \in Nat /\ n < now
        /\ \A q \in Proc : q # p => proc'[q] = proc[q]
    BY <1>3, CommandStep
  <2>2. proc \in [Proc -> Memory] /\ "shell" \in Proc
    BY DEF Control, TypeOK, Proc
  <2>3. Moves' = Moves \cup (IF Arrives(now) /\ InShell(now) THEN {now} ELSE {})
    BY <2>1 DEF Moves, Arrives, InShell, Is
  <2>4. (\E n \in Done : Is(n, "exit") /\ InShell(n))'
          <=> \/ \E n \in Done : Is(n, "exit") /\ InShell(n)
              \/ Is(now, "exit") /\ InShell(now)
    BY <2>1 DEF InShell, Is
  <2>5. proc["shell"].exit \in BOOLEAN /\ proc'["shell"].exit \in BOOLEAN
    <3>1. Control'
      BY ControlNext
    <3> QED BY <2>2, <3>1 DEF Control, TypeOK, Memory
  <2>6. proc["shell"].exit <=> \E n \in Done : Is(n, "exit") /\ InShell(n)
    BY <2>5, Zenon DEF Lasting
  <2>7. CASE p = "child"
    <3>1. InShell(now) => Is(now, "reader")
      BY <2>1, <2>7 DEF Control, Here, InShell, Is, Running
    <3>2. Moves' = Moves /\ proc'["shell"] = proc["shell"]
      BY <2>1, <2>2, <2>3, <2>7, <3>1 DEF Arrives, Is
    <3>3. (\E n \in Done : Is(n, "exit") /\ InShell(n))'
            <=> \E n \in Done : Is(n, "exit") /\ InShell(n)
      BY <2>4, <3>1 DEF Is
    <3>4. proc'["shell"].exit <=> (\E n \in Done : Is(n, "exit") /\ InShell(n))'
      BY <2>6, <3>2, <3>3
    <3>5. proc'["shell"].exit = (\E n \in Done : Is(n, "exit") /\ InShell(n))'
      BY <2>5, <3>4, Zenon
    <3> QED BY <2>1, <3>2, <3>5 DEF Lasting
  <2>8. CASE p = "shell"
    <3>1. InShell(now)
      BY <2>1, <2>8 DEF Control, Here, InShell, Running
    <3>2. CASE Cd(p)
      <4>1. ~Is(now, "exit") /\ Is(now, "cd")
        BY <3>2 DEF Cd, Runs, Running, Is
      <4>2. /\ proc'["shell"].exit = proc["shell"].exit
            /\ proc'["shell"].cwd = IF Arrives(now) THEN script[now].dir
                                    ELSE proc["shell"].cwd
        BY <2>2, <2>8, <3>2, <4>1 DEF Cd, Memory, Arrives, Running
      <4>3. CASE Arrives(now)
        <5>1. now \in Moves' /\ Moves' \in SUBSET Nat /\ \A m \in Moves' : m <= now
          BY <2>1, <2>3, <3>1, <4>3 DEF Moves
        <5>2. Max(Moves') = now
          BY <5>1, MaxIs
        <5>3. proc'["shell"].exit = (\E n \in Done : Is(n, "exit") /\ InShell(n))'
          BY <2>4, <2>5, <2>6, <4>1, <4>2, Zenon
        <5> QED BY <2>1, <4>2, <4>3, <5>1, <5>2, <5>3 DEF Lasting
      <4>4. CASE ~Arrives(now)
        <5>1. Moves' = Moves
          BY <2>3, <4>4
        <5>2. proc'["shell"].exit = (\E n \in Done : Is(n, "exit") /\ InShell(n))'
          BY <2>4, <2>5, <2>6, <4>1, <4>2, Zenon
        <5> QED BY <2>1, <4>2, <4>4, <5>1, <5>2 DEF Lasting
      <4> QED BY <4>3, <4>4
    <3>3. CASE Exit(p)
      <4>1. Is(now, "exit") /\ ~Arrives(now)
        BY <3>3 DEF Exit, Runs, Running, Is, Arrives
      <4>2. proc'["shell"].exit = TRUE /\ proc'["shell"].cwd = proc["shell"].cwd
        BY <2>2, <2>8, <3>3 DEF Exit, Memory
      <4>3. Moves' = Moves
        BY <2>3, <4>1
      <4>4. proc'["shell"].exit = (\E n \in Done : Is(n, "exit") /\ InShell(n))'
        BY <2>4, <2>5, <3>1, <4>1, <4>2, Zenon
      <4> QED BY <2>1, <4>2, <4>3, <4>4 DEF Lasting
    <3>4. CASE Echo(p) \/ TooMany(p) \/ Kill(p)
      <4>1. ~Is(now, "exit") /\ ~Arrives(now)
        BY <3>4 DEF Echo, TooMany, Kill, Runs, Running, Is, Arrives
      <4>2. proc'["shell"].exit = proc["shell"].exit
            /\ proc'["shell"].cwd = proc["shell"].cwd
        <5>1. CASE Echo(p) \/ TooMany(p)
          BY <2>2, <2>8, <5>1 DEF Echo, TooMany, Prints, Memory
        <5>2. CASE Kill(p)
          BY <2>2, <2>8, <5>2 DEF Kill, Memory
        <5> QED BY <3>4, <5>1, <5>2
      <4>3. Moves' = Moves
        BY <2>3, <4>1
      <4>4. proc'["shell"].exit = (\E n \in Done : Is(n, "exit") /\ InShell(n))'
        BY <2>4, <2>5, <2>6, <4>1, <4>2, Zenon
      <4> QED BY <2>1, <4>2, <4>3, <4>4 DEF Lasting
    <3> QED BY <1>3, <2>8, <3>2, <3>3, <3>4 DEF Command, Builtin
  <2> QED BY <2>7, <2>8 DEF Proc
<1> QED BY <1>1, <1>2, <1>3, StepKinds

-----------------------------------------------------------------------------
(* The status that exit was asked for *)

Plain == Is(now, "exit") /\ Running.sign \in Signed /\ now \notin refused

(* Where that status is, from the line of the exit on. *)
Asked ==
    /\ proc["shell"].exit =>
          /\ pc \in {"restore", "done", "leave", "over"} /\ ran # <<>>
          /\ Is(now, "exit") /\ InShell(now)
    /\ pc = "leave" \/ ended = "exit" => proc["shell"].exit
    /\ ran # <<>> /\ Plain =>
          /\ pc \in {"restore", "done", "leave"} /\ InShell(now) =>
                proc["shell"].ex_code = Number(now)
          /\ pc = "gone" => proc["child"].st = Number(now)
          /\ pc = "done" /\ Running.place = "last" => proc["shell"].st = Number(now)
          /\ pc = "read" /\ Running.place = "last" => last_code = Number(now)
          /\ ended = "exit" => code = Number(now)

LEMMA NumberMeant ==
    ASSUME LinesApart, next > 1, Running.sign \in Signed
    PROVE  ExCode = Number(now)
<1>1. Running.digits \in Seq(0 .. 9)
  BY NowIs DEF Line
<1>2. ExCode = StringToInt(Running.sign, Running.digits) % Statuses
  BY DEF ExCode, Signed
<1> QED BY <1>1, <1>2, StatusMeant DEF Number, Running

LEMMA AskedNext == LinesApart /\ Control /\ Asked /\ [Next]_vars => Asked'
<1> SUFFICES ASSUME LinesApart, Control, Asked, [Next]_vars PROVE Asked'
  OBVIOUS
<1>1. proc \in [Proc -> Memory] /\ "shell" \in Proc /\ "child" \in Proc
  BY DEF Control, TypeOK, Proc
<1>2. ASSUME UNCHANGED <<script, ran, refused>>
      PROVE  /\ now' = now /\ Plain' = Plain /\ Running' = Running
             /\ Number(now)' = Number(now) /\ Is(now, "exit")' = Is(now, "exit")
             /\ InShell(now)' = InShell(now)
  BY <1>2 DEF now, Plain, Running, Number, Is, InShell
<1>3. CASE Fill \/ UNCHANGED vars
  <2>1. UNCHANGED <<script, ran, refused, pc, proc, last_code, ended, code>>
    BY <1>3 DEF Fill, vars, world, history
  <2> QED BY <1>2, <2>1 DEF Asked
<1>4. CASE ReadLine
  <2>1. pc = "read" /\ pc' = "dispatch" /\ UNCHANGED <<proc, ended>>
    BY <1>4 DEF ReadLine
  <2>2. ~proc["shell"].exit /\ ended # "exit"
    BY <2>1 DEF Asked, Control
  <2> QED BY <2>1, <2>2 DEF Asked
<1>5. CASE Direct \/ Fork
  <2>1. /\ pc = "dispatch" /\ pc' \in {"shell", "child"}
        /\ UNCHANGED <<script, ran, refused, ended>>
    BY <1>5 DEF Direct, Fork, world, history
  <2>2. proc'["shell"].exit = proc["shell"].exit
    BY <1>5, QuietStep DEF Quiet
  <2>3. ~proc["shell"].exit /\ ended # "exit"
    BY <2>1 DEF Asked, Control
  <2> QED BY <2>1, <2>2, <2>3 DEF Asked
<1>6. CASE ForkFails
  <2>1. /\ pc = "dispatch" /\ pc' = "done" /\ UNCHANGED <<script, ran, ended>>
        /\ refused' = refused \cup {now}
    BY <1>6 DEF ForkFails, world
  <2>2. proc'["shell"].exit = proc["shell"].exit
    BY <1>6, QuietStep DEF Quiet
  <2>3. ~proc["shell"].exit /\ ended # "exit"
    BY <2>1 DEF Asked, Control
  <2>4. ~Plain'
    BY <2>1 DEF Plain, now
  <2> QED BY <2>1, <2>2, <2>3, <2>4 DEF Asked
<1>7. CASE Restore
  <2>1. /\ pc = "restore" /\ pc' = "done" /\ UNCHANGED <<script, ran, refused, ended>>
    BY <1>7 DEF Restore, world, history
  <2>2. /\ proc'["shell"].exit = proc["shell"].exit
        /\ proc'["shell"].ex_code = proc["shell"].ex_code
    BY <1>7, QuietStep DEF Quiet
  <2>3. Running.place # "last" /\ ended # "exit"
    BY <2>1 DEF Control, Here
  <2> QED BY <1>2, <2>1, <2>2, <2>3 DEF Asked
<1>8. CASE Reap
  <2>1. /\ pc = "gone" /\ pc' = "done" /\ UNCHANGED <<script, ran, refused, ended>>
    BY <1>8 DEF Reap, world, history
  <2>2. /\ proc'["shell"].exit = proc["shell"].exit
        /\ Running.place = "last" => proc'["shell"].st = proc["child"].st
    BY <1>1, <1>8, QuietStep DEF Quiet, Reap, Memory, Status
  <2>3. ended # "exit" /\ (Is(now, "exit") => ~InShell(now))
    BY <2>1 DEF Control, Here, Running, InShell, Is
  <2> QED BY <1>2, <2>1, <2>2, <2>3 DEF Asked, Plain
<1>9. CASE LineDone
  <2>1. /\ pc = "done" /\ pc' = (IF proc["shell"].exit THEN "leave" ELSE "read")
        /\ UNCHANGED <<script, ran, refused, ended, proc>>
        /\ last_code' = proc["shell"].st
    BY <1>9 DEF LineDone, world, history
  <2>2. ended # "exit"
    BY <2>1 DEF Control
  <2> QED BY <1>2, <2>1, <2>2 DEF Asked
<1>10. CASE Return
  <2>1. /\ pc = "read" /\ pc' = "over" /\ ended' = "eof"
        /\ UNCHANGED <<script, ran, refused>>
    BY <1>10 DEF Return, world, history
  <2>2. proc'["shell"].exit = proc["shell"].exit
    BY <1>10, EndStep DEF Ending
  <2> QED BY <1>2, <2>1, <2>2 DEF Asked
<1>11. CASE Leave
  <2>1. /\ pc = "leave" /\ pc' = "over" /\ ended' = "exit"
        /\ UNCHANGED <<script, ran, refused>> /\ code' = proc["shell"].ex_code
    BY <1>11 DEF Leave, world, history
  <2>2. proc'["shell"].exit = proc["shell"].exit
    BY <1>11, EndStep DEF Ending
  <2> QED BY <1>2, <2>1, <2>2 DEF Asked
<1>12. ASSUME NEW p \in Proc, Kill(p), ended' # ended PROVE Asked'
  <2>1. /\ pc = p /\ pc' = "over" /\ ended' = "killed" /\ proc' = proc
        /\ UNCHANGED <<script, ran, refused>>
    BY <1>12 DEF Kill, Runs, world, history
  <2>2. ~proc["shell"].exit
    BY <2>1 DEF Asked, Proc
  <2> QED BY <2>1, <2>2 DEF Asked
<1>13. ASSUME NEW p \in Proc, Command(p), ended' = ended PROVE Asked'
  <2>1. /\ UNCHANGED <<script, ended, ran, refused>> /\ pc = p /\ pc' = After(p)
        /\ next > 1 /\ \A q \in Proc : q # p => proc'[q] = proc[q]
    BY <1>13, CommandStep
  <2>2. pc' = (IF p = "shell" THEN "restore" ELSE "gone")
    BY <2>1 DEF After
  <2>3. ~proc["shell"].exit /\ ended # "exit"
    BY <2>1 DEF Asked, Control, Proc
  <2>4. CASE ~Exit(p)
    <3>1. ~Is(now, "exit")
      BY <1>13, <2>4 DEF Command, Builtin, Echo, TooMany, Cd, Kill, Read, Runs,
                         Running, Is
    <3>2. proc'["shell"].exit = proc["shell"].exit
      <4>1. CASE p = "shell" /\ (Echo(p) \/ TooMany(p))
        BY <1>1, <4>1 DEF Echo, TooMany, Prints, Memory
      <4>2. CASE p = "shell" /\ (Cd(p) \/ Kill(p))
        BY <1>1, <4>2 DEF Cd, Kill, Memory
      <4>3. CASE p # "shell"
        BY <1>1, <2>1, <4>3
      <4> QED BY <1>13, <2>4, <4>1, <4>2, <4>3 DEF Command, Builtin
    <3> QED BY <1>2, <2>1, <2>2, <2>3, <3>1, <3>2 DEF Asked, Plain
  <2>5. CASE Exit(p)
    <3> DEFINE st == IF Running.sign = "none" THEN 0 ELSE ExCode
    <3>1. /\ Is(now, "exit") /\ ran # <<>>
          /\ proc' = [proc EXCEPT ![p].exit = TRUE, ![p].ex_code = ExCode, ![p].st = st]
      BY <2>1, <2>5, NowIs DEF Exit, Runs, Running, Is
    <3>2. Plain => ExCode = Number(now) /\ st = ExCode
      BY <2>1, NumberMeant DEF Plain, Signed
    <3> HIDE DEF st
    <3>3. proc'[p].exit = TRUE /\ proc'[p].ex_code = ExCode /\ proc'[p].st = st
      BY <1>1, <3>1 DEF Memory
    <3>4. CASE p = "shell"
      <4>1. InShell(now)
        BY <2>1, <3>4 DEF Control, Here, Running, InShell
      <4> QED BY <1>2, <2>1, <2>2, <2>3, <3>1, <3>2, <3>3, <3>4, <4>1 DEF Asked
    <3>5. CASE p = "child"
      <4>1. proc'["shell"] = proc["shell"]
        BY <1>1, <2>1, <3>5
      <4> QED BY <1>2, <2>1, <2>2, <2>3, <3>1, <3>2, <3>3, <3>5, <4>1 DEF Asked
    <3> QED BY <3>4, <3>5 DEF Proc
  <2> QED BY <2>4, <2>5
<1> QED
  BY <1>3, <1>4, <1>5, <1>6, <1>7, <1>8, <1>9, <1>10, <1>11, <1>12, <1>13, StepKinds
     DEF Quiet, Ending

LEMMA AskedInit == Init => Asked
BY DEF Init, Asked, Proc, Fresh

LEMMA AskedSuffices == LinesApart /\ Control /\ Asked => ExitStatus
<1> SUFFICES ASSUME LinesApart, Control, Asked,
                    ran # <<>>, Is(now, "exit"), Running.sign \in Signed,
                    now \notin refused
             PROVE  /\ ended = "exit" => code = Number(now)
                    /\ pc = "read" /\ Running.place = "last" => last_code = Number(now)
  BY DEF ExitStatus
<1> QED BY DEF Asked, Plain

-----------------------------------------------------------------------------
(* What one call writes to a file *)

LEMMA Joined ==
    ASSUME NEW T, NEW a \in Seq(T), NEW b \in Seq(T)
    PROVE  /\ a \o b \in Seq(T) /\ Len(a \o b) = Len(a) + Len(b)
           /\ \A m \in 1 .. Len(a) : (a \o b)[m] = a[m]
           /\ \A m \in Len(a) + 1 .. Len(a) + Len(b) : (a \o b)[m] = b[m - Len(a)]
OBVIOUS

(* File e, of k entries, gets the w texts of p. *)
Grows(p, texts, e, k, w) ==
    /\ \A d \in Dest : d # e => files'[d] = files[d]
    /\ DOMAIN files[e] = 1 .. k /\ DOMAIN files'[e] = 1 .. k + w
    /\ Len(files'[e]) = k + w
    /\ \A m \in 1 .. k : files'[e][m] = files[e][m]
    /\ \A m \in k + 1 .. k + w :
          /\ m - k \in 1 .. w /\ files'[e][m] = Entry(p, texts[m - k])
          /\ files'[e][m].by = p /\ files'[e][m].line = texts[m - k]
    /\ \A i \in 1 .. w :
          k + i \in k + 1 .. k + w /\ files'[e][k + i] = Entry(p, texts[i])

LEMMA GrowsAt ==
    ASSUME TypeOK, NEW p \in Proc, NEW texts \in Seq(Text),
           NEW e \in Dest, NEW k \in Nat, NEW w \in Nat,
           e = proc[p].fd1, k = Len(files[e]), w = Len(texts),
           files' = Written(p, texts)
    PROVE  Grows(p, texts, e, k, w)
<1> DEFINE T == [line : Text, by : Proc]
           old == files[e]
           new == [n \in DOMAIN texts |-> Entry(p, texts[n])]
<1>1. /\ e \in Dest /\ files \in [Dest -> Seq(T)] /\ DOMAIN texts = 1 .. w
      /\ k \in Nat /\ w \in Nat
  <2>1. e \in Dest /\ files \in [Dest -> Seq(T)]
    BY DEF TypeOK, Memory, Text
  <2>2. files[e] \in Seq(T)
    BY <2>1
  <2> HIDE DEF T
  <2> QED BY <2>1, <2>2
<1>2. new \in Seq(T) /\ Len(new) = w /\ \A n \in 1 .. w : new[n] = Entry(p, texts[n])
  <2>1. \A n \in DOMAIN texts : Entry(p, texts[n]) \in T
    BY DEF Entry
  <2> QED BY <1>1, <2>1, IsASeq
<1>3. files' = [files EXCEPT ![e] = old \o new]
  BY <1>1 DEF Written
<1>4. old \in Seq(T) /\ Len(old) = k
  BY <1>1
<1> HIDE DEF T, old, new
<1>5. /\ Len(old \o new) = k + w
      /\ \A m \in 1 .. k : (old \o new)[m] = old[m]
      /\ \A m \in k + 1 .. k + w : (old \o new)[m] = new[m - k]
  <2>1. old \in Seq(T) /\ new \in Seq(T)
    BY <1>2, <1>4
  <2>2. /\ Len(old \o new) = Len(old) + Len(new)
        /\ \A m \in 1 .. Len(old) : (old \o new)[m] = old[m]
        /\ \A m \in Len(old) + 1 .. Len(old) + Len(new) :
              (old \o new)[m] = new[m - Len(old)]
    BY <2>1, Joined, Zenon
  <2>3. Len(old) = k /\ Len(new) = w
    BY <1>2, <1>4
  <2> QED BY <2>2, <2>3, Zenon
<1>15. old \o new \in Seq(T)
  BY <1>2, <1>4
<1>6. files'[e] = old \o new /\ \A d \in Dest : d # e => files'[d] = files[d]
  BY <1>1, <1>3 DEF T
<1>7. \A m \in k + 1 .. k + w : m - k \in 1 .. w
  BY <1>1
<1>8. \A m \in k + 1 .. k + w : files'[e][m] = Entry(p, texts[m - k])
  BY <1>2, <1>5, <1>6, <1>7
<1>9. \A i \in 1 .. w : k + i \in k + 1 .. k + w /\ (k + i) - k = i
  BY <1>1
<1>10. \A m \in 1 .. k : files'[e][m] = files[e][m]
  BY <1>5, <1>6 DEF old
<1>11. DOMAIN files[e] = 1 .. k
  BY <1>4 DEF old
<1>12. Len(files'[e]) = k + w /\ DOMAIN files'[e] = 1 .. k + w
  BY <1>1, <1>5, <1>6, <1>15
<1>13. \A i \in 1 .. w :
         k + i \in k + 1 .. k + w /\ files'[e][k + i] = Entry(p, texts[i])
  BY <1>8, <1>9
<1>14. \A m \in k + 1 .. k + w :
          files'[e][m].by = p /\ files'[e][m].line = texts[m - k]
  <2> TAKE m \in k + 1 .. k + w
  <2>1. files'[e][m] = Entry(p, texts[m - k])
    BY <1>8
  <2> QED BY <2>1 DEF Entry
<1> QED BY <1>1, <1>6, <1>7, <1>8, <1>10, <1>11, <1>12, <1>13, <1>14 DEF Grows

LEMMA WrittenIs ==
    ASSUME TypeOK, NEW p \in Proc, NEW texts \in Seq(Text), files' = Written(p, texts)
    PROVE  \E e \in Dest, k \in Nat, w \in Nat :
              /\ e = proc[p].fd1 /\ k = Len(files[e]) /\ w = Len(texts)
              /\ Grows(p, texts, e, k, w)
<1> DEFINE T == [line : Text, by : Proc]
<1>1. proc[p].fd1 \in Dest /\ files[proc[p].fd1] \in Seq(T)
  BY DEF TypeOK, Memory, Text
<1> HIDE DEF T
<1>2. Len(files[proc[p].fd1]) \in Nat /\ Len(texts) \in Nat
  BY <1>1
<1> QED BY <1>1, <1>2, GrowsAt

LEMMA LastOf ==
    ASSUME NEW S, NEW s \in Seq(S), NEW x \in S
    PROVE  /\ Append(s, x) \in Seq(S) /\ Append(s, x) # <<>>
           /\ Len(Append(s, x)) = Len(s) + 1 /\ Len(s) \in Nat
           /\ DOMAIN Append(s, x) = 1 .. Len(s) + 1
           /\ Append(s, x)[Len(s) + 1] = x
           /\ \A i \in 1 .. Len(s) : Append(s, x)[i] = s[i]
           /\ \A i \in 1 .. Len(s) : i \in DOMAIN s
BY AppendProperties

(* What a step writes: the buffer of the shell as it returns, or that of a *)
(* process and the line that it executes;  buffers only grow by that line. *)
Prompt(p) == Echo(p) \/ TooMany(p)

LEMMA PromptStep ==
    ASSUME LinesApart, Control, NEW p \in Proc, Prompt(p)
    PROVE  /\ now \in Text /\ proc[p].buf \in Seq(Text)
           /\ proc'[p].exit = proc[p].exit
           /\ \/ /\ proc'[p].buf = <<>>
                 /\ files' = Written(p, Append(proc[p].buf, now))
              \/ /\ TooMany(p)
                 /\ proc'[p].buf = Append(proc[p].buf, now)
                 /\ files' = files
<1>1. next > 1 /\ TypeOK
  BY DEF Control, Prompt, Echo, TooMany, Runs, Proc
<1>2. now \in Text /\ proc[p].buf \in Seq(Text)
  BY <1>1, NowIs DEF TypeOK, Memory, Text
<1>3. CASE Echo(p)
  <2>1. Prints(p, TRUE, 0) /\ TRUE \in BOOLEAN
    BY <1>3 DEF Echo
  <2> QED BY <1>1, <1>2, <2>1, PrintsDoes, SmallStatuses
<1>4. CASE TooMany(p)
  <2>1. Prints(p, FALSE, 1) /\ FALSE \in BOOLEAN
    BY <1>4 DEF TooMany
  <2> QED BY <1>1, <1>2, <1>4, <2>1, PrintsDoes, SmallStatuses
<1> QED BY <1>3, <1>4 DEF Prompt

(* Every other command leaves the files and, but for a program's own, the  *)
(* buffers as they are.                                                    *)
LEMMA SilentStep ==
    ASSUME LinesApart, Control, NEW p \in Proc, Command(p), ~Prompt(p)
    PROVE  /\ files' = files /\ ~Is(now, "echo") /\ ~Is(now, "toomany")
           /\ proc'[p].buf \in {proc[p].buf, <<>>}
           /\ p = "shell" => proc'[p].buf = proc[p].buf
<1>1. proc \in [Proc -> Memory]
  BY DEF Control, TypeOK
<1>2. files' = files /\ ~Is(now, "echo") /\ ~Is(now, "toomany")
  BY DEF Command, Builtin, Prompt, Exit, Cd, Kill, Read, Runs, Running, Is
<1>3. CASE Exit(p) \/ Cd(p) \/ Kill(p)
  BY <1>1, <1>2, <1>3 DEF Exit, Cd, Kill, Memory
<1>4. CASE p = "child" /\ Read
  BY <1>1, <1>2, <1>4 DEF Read, Memory
<1> QED BY <1>3, <1>4 DEF Command, Builtin, Prompt

LEMMA ReturnStep ==
    ASSUME Control, Return
    PROVE  /\ files' = Written("shell", proc["shell"].buf)
           /\ proc["shell"].buf \in Seq(Text) /\ proc'["shell"].buf = <<>>
           /\ "shell" \in Proc /\ ended = "no" /\ ended' = "eof"
<1>1. proc \in [Proc -> Memory] /\ "shell" \in Proc
  BY DEF Control, TypeOK, Proc
<1> QED BY <1>1 DEF Return, Memory, Text, Control

-----------------------------------------------------------------------------
(* What children write *)

LEMMA CopiesInit == Init => CopiesCarried
BY DEF Init, CopiesCarried

LEMMA CopiesNext ==
    LinesApart /\ Control /\ CopiesCarried /\ [Next]_vars => CopiesCarried'
<1> SUFFICES ASSUME LinesApart, Control, CopiesCarried, [Next]_vars
             PROVE  CopiesCarried'
  OBVIOUS
<1>1. TypeOK
  BY DEF Control
<1>2. ASSUME UNCHANGED <<script, files>> PROVE CopiesCarried'
  BY <1>2 DEF CopiesCarried, InShell
<1>3. ASSUME NEW p \in Proc, NEW texts \in Seq(Text), script' = script,
             files' = Written(p, texts),
             p = "child" => ~InShell(texts[Len(texts)])
      PROVE  CopiesCarried'
  <2>0. PICK e \in Dest, k \in Nat, w \in Nat :
           /\ e = proc[p].fd1 /\ k = Len(files[e]) /\ w = Len(texts)
           /\ Grows(p, texts, e, k, w)
    BY <1>1, <1>3, WrittenIs
  <2>1. /\ e \in Dest /\ k \in Nat /\ w \in Nat
        /\ \A d \in Dest : d # e => files'[d] = files[d]
        /\ DOMAIN files[e] = 1 .. k /\ DOMAIN files'[e] = 1 .. k + w
        /\ Len(files'[e]) = k + w
        /\ \A m \in 1 .. k : files'[e][m] = files[e][m]
        /\ \A m \in k + 1 .. k + w :
              /\ m - k \in 1 .. w
              /\ files'[e][m].by = p /\ files'[e][m].line = texts[m - k]
    BY <2>0 DEF Grows
  <2>2. ASSUME NEW d \in Dest, NEW m \in DOMAIN files'[d],
               files'[d][m].by = "child", InShell(files'[d][m].line)
        PROVE  \E o \in m + 1 .. Len(files'[d]) :
                   /\ ~InShell(files'[d][o].line)
                   /\ \A q \in m .. o : files'[d][q].by = "child"
    <3>1. CASE d # e
      <4>1. files'[d] = files[d]
        BY <2>1, <3>1
      <4> QED BY <2>2, <4>1 DEF CopiesCarried
    <3>2. CASE d = e /\ m \in 1 .. k
      <4>1. files[e][m].by = "child" /\ InShell(files[e][m].line) /\ m \in DOMAIN files[e]
        BY <2>1, <2>2, <3>2
      <4>2. PICK o \in m + 1 .. k :
                   /\ ~InShell(files[e][o].line)
                   /\ \A q \in m .. o : files[e][q].by = "child"
        BY <2>0, <2>1, <4>1 DEF CopiesCarried
      <4>3. o \in m + 1 .. k + w /\ o \in 1 .. k /\ \A q \in m .. o : q \in 1 .. k
        BY <2>1, <3>2
      <4> QED BY <2>1, <3>2, <4>2, <4>3
    <3>3. CASE d = e /\ m \in k + 1 .. k + w
      <4>1. files'[e][m].by = p /\ files'[e][m].line = texts[m - k]
        BY <2>1, <3>3
      <4>2. p = "child" /\ InShell(texts[m - k])
        BY <2>2, <3>3, <4>1
      <4>3. ~InShell(texts[w])
        BY <1>3, <2>0, <4>2
      <4>4. m - k # w
        BY <4>2, <4>3
      <4>5. k + w \in m + 1 .. k + w /\ k + w \in k + 1 .. k + w /\ (k + w) - k = w
        BY <2>1, <3>3, <4>4
      <4>6. \A q \in m .. k + w : q \in k + 1 .. k + w
        BY <2>1, <3>3
      <4>7. \A q \in m .. k + w : files'[e][q].by = "child"
        BY <2>1, <4>2, <4>6
      <4>8. files'[e][k + w].line = texts[w]
        BY <2>1, <4>5
      <4> QED BY <2>1, <3>3, <4>3, <4>5, <4>7, <4>8
    <3>4. m \in 1 .. k \/ m \in k + 1 .. k + w \/ d # e
      BY <2>1
    <3> QED BY <3>1, <3>2, <3>3, <3>4
  <2>3. \A n : InShell(n)' = InShell(n)
    BY <1>3 DEF InShell
  <2> QED BY <2>2, <2>3 DEF CopiesCarried
<1>4. CASE Quiet
  BY <1>2, <1>4, QuietStep
<1>5. CASE Ending
  <2>1. CASE Return
    BY <1>3, <1>5, <2>1, EndStep, ReturnStep
  <2>2. CASE ~Return
    BY <1>2, <1>5, <2>2, EndStep
  <2> QED BY <2>1, <2>2
<1>6. ASSUME NEW p \in Proc, Command(p), ended' = ended PROVE CopiesCarried'
  <2>1. script' = script /\ pc = p
    BY <1>6, CommandStep
  <2>2. CASE Prompt(p)
    <3> DEFINE all == Append(proc[p].buf, now)
    <3>1. /\ now \in Text /\ proc[p].buf \in Seq(Text)
          /\ files' = Written(p, all) \/ files' = files
      BY <2>2, PromptStep
    <3>2. all \in Seq(Text) /\ all[Len(all)] = now
      BY <3>1, LastOf
    <3> HIDE DEF all
    <3>3. p = "child" => ~InShell(now)
      BY <2>1, <2>2 DEF Control, Here, InShell, Running, Prompt, Echo, TooMany, Runs
    <3> QED BY <1>2, <1>3, <2>1, <3>1, <3>2, <3>3
  <2>3. CASE ~Prompt(p)
    BY <1>2, <1>6, <2>1, <2>3, SilentStep
  <2> QED BY <2>2, <2>3
<1> QED BY <1>4, <1>5, <1>6, StepKinds

-----------------------------------------------------------------------------
(* The buffers: only messages of refused exits wait in one, and in the     *)
(* shell's each of them once, in the order of their lines.                 *)

Kept == proc["shell"].buf
Messages ==
    /\ \A p \in Proc : \A i \in DOMAIN proc[p].buf : Is(proc[p].buf[i], "toomany")
    /\ \A i \in DOMAIN Kept : Kept[i] \in Done /\ InShell(Kept[i])
    /\ \A i, j \in DOMAIN Kept : i < j => Kept[i] < Kept[j]
    /\ ended \in {"eof", "exit"} => Kept = <<>>

LEMMA MessagesInit == Init => Messages
BY DEF Init, Messages, Kept, Proc, Fresh

LEMMA MessagesNext == LinesApart /\ Control /\ Messages /\ [Next]_vars => Messages'
<1> SUFFICES ASSUME LinesApart, Control, Messages, [Next]_vars PROVE Messages'
  OBVIOUS
<1>1. "shell" \in Proc /\ "child" \in Proc /\ \A p \in Proc : p \in {"shell", "child"}
  BY DEF Proc
<1>2. ASSUME UNCHANGED script, Done \subseteq Done', Kept' = Kept,
             \A i \in DOMAIN proc'["child"].buf : Is(proc'["child"].buf[i], "toomany"),
             ended' \in {"eof", "exit"} => ended' = ended
      PROVE  Messages'
  <2>1. \A p \in Proc : \A i \in DOMAIN proc'[p].buf : Is(proc'[p].buf[i], "toomany")
    BY <1>1, <1>2 DEF Messages, Kept, Is
  <2>2. \A i \in DOMAIN Kept' : Kept'[i] \in Done' /\ InShell(Kept'[i])
    BY <1>2 DEF Messages, InShell
  <2>3. \A i, j \in DOMAIN Kept' : i < j => Kept'[i] < Kept'[j]
    BY <1>2 DEF Messages
  <2>4. \A n : Is(n, "toomany")' = Is(n, "toomany") /\ InShell(n)' = InShell(n)
    BY <1>2 DEF Is, InShell
  <2> QED BY <1>2, <2>1, <2>2, <2>3, <2>4 DEF Messages
<1>3. ASSUME UNCHANGED script, Kept' = <<>>,
             \A i \in DOMAIN proc'["child"].buf : Is(proc'["child"].buf[i], "toomany")
      PROVE  Messages'
  <2>1. \A n : Is(n, "toomany")' = Is(n, "toomany")
    BY <1>3 DEF Is
  <2> QED BY <1>1, <1>3, <2>1 DEF Messages, Kept
<1>4. CASE Quiet
  <2>1. \A i \in DOMAIN proc'["child"].buf : Is(proc'["child"].buf[i], "toomany")
    BY <1>1, <1>4, QuietStep DEF Messages
  <2> QED BY <1>2, <1>4, <2>1, QuietStep DEF Kept
<1>5. CASE Ending
  <2>1. UNCHANGED script /\ Done' = Done /\ proc'["child"] = proc["child"]
    BY <1>5, EndStep
  <2>2. \A i \in DOMAIN proc'["child"].buf : Is(proc'["child"].buf[i], "toomany")
    BY <1>1, <2>1 DEF Messages
  <2>3. CASE Return \/ Leave
    <3>1. Kept' = <<>>
      BY <1>1, <2>3 DEF Return, Leave, Kept, Control, TypeOK, Memory
    <3> QED BY <1>3, <2>1, <2>2, <3>1
  <2>4. CASE ended' = "killed" /\ UNCHANGED <<proc, files>>
    BY <1>2, <2>1, <2>2, <2>4 DEF Kept
  <2> QED BY <1>5, <2>3, <2>4, EndStep
<1>6. ASSUME NEW p \in Proc, Command(p), ended' = ended PROVE Messages'
  <2>1. /\ script' = script /\ pc = p /\ now \in Nat
        /\ Done' = Done \cup {now} /\ \A n \in Done : n \in Nat /\ n < now
        /\ \A q \in Proc : q # p => proc'[q] = proc[q]
    BY <1>6, CommandStep
  <2>2. ended' = "no"
    BY <1>1, <1>6, <2>1 DEF Control
  <2>3. CASE p = "child"
    <3>1. Kept' = Kept
      BY <1>1, <2>1, <2>3 DEF Kept
    <3>2. \A i \in DOMAIN proc["child"].buf : Is(proc["child"].buf[i], "toomany")
      BY <1>1 DEF Messages
    <3>3. \A i \in DOMAIN proc'["child"].buf : Is(proc'["child"].buf[i], "toomany")
      <4>1. CASE ~Prompt(p)
        BY <1>6, <2>3, <3>2, <4>1, SilentStep
      <4>2. CASE Prompt(p) /\ proc'[p].buf = <<>>
        BY <2>3, <4>2
      <4>3. CASE TooMany(p) /\ proc'[p].buf = Append(proc[p].buf, now)
        <5>1. Is(now, "toomany")
          BY <4>3 DEF TooMany, Runs, Running, Is
        <5>2. now \in Text /\ proc[p].buf \in Seq(Text)
          BY <1>6, <4>3, PromptStep DEF Prompt
        <5>3. \A i \in DOMAIN Append(proc[p].buf, now) :
                 \/ i \in DOMAIN proc[p].buf /\ Append(proc[p].buf, now)[i] = proc[p].buf[i]
                 \/ Append(proc[p].buf, now)[i] = now
          BY <5>2, LastOf
        <5> QED BY <2>3, <3>2, <4>3, <5>1, <5>3
      <4> QED BY <1>6, <4>1, <4>2, <4>3, PromptStep
    <3> QED BY <1>2, <2>1, <2>2, <3>1, <3>3
  <2>4. CASE p = "shell"
    <3>1. \A i \in DOMAIN proc'["child"].buf : Is(proc'["child"].buf[i], "toomany")
      BY <1>1, <2>1, <2>4 DEF Messages
    <3>2. CASE ~Prompt(p)
      BY <1>2, <1>6, <2>1, <2>2, <2>4, <3>1, <3>2, SilentStep DEF Kept
    <3>3. CASE Prompt(p) /\ proc'[p].buf = <<>>
      BY <1>3, <2>1, <2>4, <3>1, <3>3 DEF Kept
    <3>4. CASE TooMany(p) /\ proc'[p].buf = Append(proc[p].buf, now)
      <4>1. Is(now, "toomany") /\ InShell(now)
        BY <2>1, <2>4, <3>4 DEF TooMany, Runs, Running, Is, Control, Here, InShell
      <4>2. now \in Text /\ Kept \in Seq(Text) /\ Kept' = Append(Kept, now)
        BY <2>4, <3>4, PromptStep DEF Prompt, Kept
      <4>3. \A i \in DOMAIN Kept' :
               \/ i \in DOMAIN Kept /\ Kept'[i] = Kept[i] /\ i \in 1 .. Len(Kept)
               \/ Kept'[i] = now /\ i = Len(Kept) + 1
        BY <4>2, LastOf
      <4>4. Len(Kept) \in Nat /\ DOMAIN Kept' = 1 .. Len(Kept) + 1
        BY <4>2, LastOf
      <4>5. \A i \in DOMAIN Kept' : Is(Kept'[i], "toomany")
        BY <1>1, <4>1, <4>3 DEF Messages, Kept
      <4>6. \A i \in DOMAIN Kept' : Kept'[i] \in Done' /\ InShell(Kept'[i])
        BY <2>1, <4>1, <4>3 DEF Messages
      <4>7. ASSUME NEW i \in DOMAIN Kept', NEW j \in DOMAIN Kept', i < j
            PROVE  Kept'[i] < Kept'[j]
        <5>1. i \in DOMAIN Kept /\ Kept'[i] = Kept[i]
          BY <4>3, <4>4, <4>7
        <5>2. Kept[i] < now
          BY <2>1, <5>1 DEF Messages
        <5> QED BY <4>3, <4>7, <5>1, <5>2 DEF Messages
      <4>8. \A n : Is(n, "toomany")' = Is(n, "toomany") /\ InShell(n)' = InShell(n)
        BY <2>1 DEF Is, InShell
      <4> QED BY <1>1, <2>2, <3>1, <4>5, <4>6, <4>7, <4>8 DEF Messages, Kept
    <3> QED BY <1>6, <3>2, <3>3, <3>4, PromptStep
  <2> QED BY <1>1, <2>3, <2>4
<1> QED BY <1>4, <1>5, <1>6, StepKinds

-----------------------------------------------------------------------------
(* What echo prints *)

Landed ==
    \A d \in Dest :
        /\ {n \in Done : Is(n, "echo") /\ Goes(n) = d}
              = {files[d][m].line : m \in Echoes(d)}
        /\ \A l, m \in Echoes(d) : l < m => files[d][l].line < files[d][m].line

LEMMA LandedIs == LinesApart => (EchoLands <=> Landed)
<1> SUFFICES ASSUME LinesApart PROVE EchoLands <=> Landed
  OBVIOUS
<1>1. ASSUME NEW d \in Dest
      PROVE  {n \in ToSet(ran) : Is(n, "echo") /\ Goes(n) = d /\ Carried(n)}
                = {n \in Done : Is(n, "echo") /\ Goes(n) = d}
  BY BegunIs
<1> QED BY <1>1 DEF EchoLands, Landed

LEMMA LandedInit == Init => Landed
<1> SUFFICES ASSUME Init PROVE Landed
  OBVIOUS
<1>1. Done = {} /\ \A d \in Dest : Echoes(d) = {}
  BY DEF Init, Done, Echoes
<1> QED BY <1>1 DEF Landed

(* The last of the w texts that e gets is echo's, and no other is. *)
EchoesAdd(e, k, w, echo) ==
    /\ \A d \in Dest : d # e => Echoes(d)' = Echoes(d)
    /\ Echoes(e)' = Echoes(e) \cup (IF echo THEN {k + w} ELSE {})
    /\ Echoes(e) \subseteq 1 .. k

LEMMA EchoesGrow ==
    ASSUME UNCHANGED script, NEW p \in Proc, NEW texts, NEW e \in Dest,
           NEW k \in Nat, NEW w \in Nat, Grows(p, texts, e, k, w),
           \A i \in 1 .. w : i # w => ~Is(texts[i], "echo")
    PROVE  EchoesAdd(e, k, w, w > 0 /\ Is(texts[w], "echo"))
<1>1. \A n : Is(n, "echo")' = Is(n, "echo")
  BY DEF Is
<1>2. ASSUME NEW d \in Dest, d # e PROVE Echoes(d)' = Echoes(d)
  <2>1. files'[d] = files[d]
    BY <1>2 DEF Grows
  <2> QED BY <1>1, <2>1 DEF Echoes
<1>3. Echoes(e) = {m \in 1 .. k : Is(files[e][m].line, "echo")}
  BY DEF Echoes, Grows
<1>4. Echoes(e)' = {m \in 1 .. k + w : Is(files'[e][m].line, "echo")}
  BY <1>1 DEF Echoes, Grows
<1>5. \A m \in 1 .. k : Is(files'[e][m].line, "echo") <=> Is(files[e][m].line, "echo")
  BY DEF Grows
<1>6. \A m \in k + 1 .. k + w :
         Is(files'[e][m].line, "echo") <=> m = k + w /\ Is(texts[w], "echo")
  <2> TAKE m \in k + 1 .. k + w
  <2>1. files'[e][m].line = texts[m - k] /\ m - k \in 1 .. w
    BY DEF Grows
  <2>2. m - k = w <=> m = k + w
    OBVIOUS
  <2> QED BY <2>1, <2>2
<1>7. \A m \in 1 .. k + w : m \in 1 .. k \/ m \in k + 1 .. k + w
  OBVIOUS
<1>8. \A m \in 1 .. k : m \in 1 .. k + w /\ (w > 0 => m # k + w)
  OBVIOUS
<1>9. w > 0 => k + w \in k + 1 .. k + w /\ k + w \in 1 .. k + w
  OBVIOUS
<1>10. \A m \in k + 1 .. k + w : m \notin 1 .. k /\ w > 0
  OBVIOUS
<1>11. ASSUME NEW m
       PROVE  m \in Echoes(e)' <=>
                 \/ m \in Echoes(e)
                 \/ w > 0 /\ Is(texts[w], "echo") /\ m = k + w
  <2>1. m \in Echoes(e)' => m \in Echoes(e) \/ (w > 0 /\ Is(texts[w], "echo") /\ m = k + w)
    BY <1>3, <1>4, <1>5, <1>6, <1>7, <1>10
  <2>2. m \in Echoes(e) => m \in Echoes(e)'
    BY <1>3, <1>4, <1>5, <1>8
  <2>3. w > 0 /\ Is(texts[w], "echo") => k + w \in Echoes(e)'
    BY <1>4, <1>6, <1>9
  <2> QED BY <2>1, <2>2, <2>3
<1> QED BY <1>2, <1>3, <1>11 DEF EchoesAdd

LEMMA LandedNext ==
    LinesApart /\ Control /\ Messages /\ Landed /\ [Next]_vars => Landed'
<1> SUFFICES ASSUME LinesApart, Control, Messages, Landed, [Next]_vars PROVE Landed'
  OBVIOUS
<1>1. TypeOK
  BY DEF Control
<1>2. ASSUME UNCHANGED script PROVE \A n : Is(n, "echo")' = Is(n, "echo") /\ Goes(n)' = Goes(n)
  BY <1>2 DEF Is, Goes
<1>3. ASSUME UNCHANGED <<script, files>>,
             \A n : n \in Done' /\ Is(n, "echo") <=> n \in Done /\ Is(n, "echo")
      PROVE  Landed'
  <2>1. \A d \in Dest : Echoes(d)' = Echoes(d)
    BY <1>3 DEF Echoes, Is
  <2>2. ASSUME NEW d \in Dest
        PROVE  {n \in Done : Is(n, "echo") /\ Goes(n) = d}'
                  = {n \in Done : Is(n, "echo") /\ Goes(n) = d}
    BY <1>2, <1>3
  <2> QED BY <1>3, <2>1, <2>2 DEF Landed
<1>4. ASSUME UNCHANGED script, NEW p \in Proc, NEW texts \in Seq(Text),
             files' = Written(p, texts),
             \A i \in 1 .. Len(texts) : ~Is(texts[i], "echo"),
             \A n : n \in Done' /\ Is(n, "echo") <=> n \in Done /\ Is(n, "echo")
      PROVE  Landed'
  <2>1. PICK e \in Dest, k \in Nat, w \in Nat :
           /\ e = proc[p].fd1 /\ k = Len(files[e]) /\ w = Len(texts)
           /\ Grows(p, texts, e, k, w)
    BY <1>1, <1>4, WrittenIs
  <2>2. /\ \A d \in Dest : d # e => Echoes(d)' = Echoes(d)
        /\ Echoes(e)' = Echoes(e) \cup
                           (IF w > 0 /\ Is(texts[w], "echo") THEN {k + w} ELSE {})
        /\ Echoes(e) \subseteq 1 .. k
    <3>1. /\ \A i \in 1 .. w : i # w => ~Is(texts[i], "echo")
          /\ script' = script /\ p \in Proc /\ Grows(p, texts, e, k, w)
      BY <1>4, <2>1
    <3>2. EchoesAdd(e, k, w, w > 0 /\ Is(texts[w], "echo"))
      BY <2>1, <3>1, EchoesGrow
    <3> QED BY <3>2 DEF EchoesAdd
  <2>3. w > 0 => ~Is(texts[w], "echo")
    BY <1>4, <2>1
  <2>4. \A d \in Dest : Echoes(d)' = Echoes(d)
    BY <2>2, <2>3
  <2>5. ASSUME NEW d \in Dest, NEW m \in Echoes(d) PROVE files'[d][m] = files[d][m]
    BY <2>1, <2>2, <2>5 DEF Grows
  <2>6. ASSUME NEW d \in Dest
        PROVE  {n \in Done : Is(n, "echo") /\ Goes(n) = d}'
                  = {n \in Done : Is(n, "echo") /\ Goes(n) = d}
    BY <1>2, <1>4
  <2> QED BY <2>4, <2>5, <2>6 DEF Landed
<1>5. ASSUME UNCHANGED script, NEW p \in Proc, now \in Text, proc[p].buf \in Seq(Text),
             files' = Written(p, Append(proc[p].buf, now)),
             Is(now, "echo"), proc[p].fd1 = Goes(now), Done' = Done \cup {now},
             \A n \in Done : n \in Nat /\ n < now
      PROVE  Landed'
  <2> DEFINE all == Append(proc[p].buf, now)
  <2>1. /\ all \in Seq(Text) /\ Len(all) = Len(proc[p].buf) + 1 /\ Len(proc[p].buf) \in Nat
        /\ all[Len(all)] = now
        /\ \A i \in 1 .. Len(proc[p].buf) :
              i \in DOMAIN proc[p].buf /\ all[i] = proc[p].buf[i]
    BY <1>5, LastOf
  <2>2. \A i \in 1 .. Len(all) : i # Len(all) => ~Is(all[i], "echo")
    <3>1. \A i \in DOMAIN proc[p].buf : ~Is(proc[p].buf[i], "echo")
      BY <1>5 DEF Messages, Is
    <3>2. \A i \in 1 .. Len(all) : i # Len(all) => i \in 1 .. Len(proc[p].buf)
      BY <2>1
    <3> HIDE DEF all
    <3> QED BY <2>1, <3>1, <3>2
  <2> HIDE DEF all
  <2>3. PICK e \in Dest, k \in Nat, w \in Nat :
           /\ e = proc[p].fd1 /\ k = Len(files[e]) /\ w = Len(all)
           /\ Grows(p, all, e, k, w)
    BY <1>1, <1>5, <2>1, WrittenIs DEF all
  <2>4. /\ \A d \in Dest : d # e => Echoes(d)' = Echoes(d)
        /\ Echoes(e)' = Echoes(e) \cup
                           (IF w > 0 /\ Is(all[w], "echo") THEN {k + w} ELSE {})
        /\ Echoes(e) \subseteq 1 .. k
    <3>1. /\ \A i \in 1 .. w : i # w => ~Is(all[i], "echo")
          /\ script' = script /\ p \in Proc /\ Grows(p, all, e, k, w)
      BY <1>5, <2>2, <2>3
    <3>2. EchoesAdd(e, k, w, w > 0 /\ Is(all[w], "echo"))
      BY <2>3, <3>1, EchoesGrow
    <3> QED BY <3>2 DEF EchoesAdd
  <2>5. w > 0 /\ all[w] = now /\ w \in 1 .. w
    BY <2>1, <2>3
  <2>6. Echoes(e)' = Echoes(e) \cup {k + w} /\ \A m \in Echoes(e) : m < k + w /\ m # k + w
    BY <1>5, <2>3, <2>4, <2>5
  <2>7. files'[e][k + w].line = now
    <3>1. files'[e][k + w] = Entry(p, all[w])
      BY <2>3, <2>5 DEF Grows
    <3> QED BY <2>5, <3>1 DEF Entry
  <2>8. ASSUME NEW d \in Dest, NEW m \in Echoes(d) PROVE files'[d][m] = files[d][m]
    <3>1. CASE d = e
      <4>1. m \in 1 .. k
        BY <2>4, <2>8, <3>1
      <4> QED BY <2>3, <3>1, <4>1 DEF Grows
    <3>2. CASE d # e
      <4>1. files'[d] = files[d]
        BY <2>3, <2>8, <3>2 DEF Grows
      <4> QED BY <4>1
    <3> QED BY <3>1, <3>2
  <2>9. ASSUME NEW d \in Dest, d # e
        PROVE  {n \in Done : Is(n, "echo") /\ Goes(n) = d}'
                  = {n \in Done : Is(n, "echo") /\ Goes(n) = d}
    BY <1>2, <1>5, <2>3, <2>9
  <2>10. {n \in Done : Is(n, "echo") /\ Goes(n) = e}'
            = {n \in Done : Is(n, "echo") /\ Goes(n) = e} \cup {now}
    BY <1>2, <1>5, <2>3
  <2>11. {files'[e][m].line : m \in Echoes(e)'}
            = {files[e][m].line : m \in Echoes(e)} \cup {now}
    BY <2>6, <2>7, <2>8
  <2>12. \A m \in Echoes(e) : files[e][m].line \in Done
    BY DEF Landed
  <2>13. \A l, m \in Echoes(e)' : l < m => files'[e][l].line < files'[e][m].line
    <3> SUFFICES ASSUME NEW l \in Echoes(e)', NEW m \in Echoes(e)', l < m
                 PROVE  files'[e][l].line < files'[e][m].line
      OBVIOUS
    <3>1. l \in Echoes(e)
      BY <2>3, <2>4, <2>6
    <3>2. CASE m \in Echoes(e)
      BY <2>8, <3>1, <3>2 DEF Landed
    <3>3. CASE m = k + w
      <4>1. files[e][l].line < now
        BY <1>5, <2>12, <3>1
      <4> QED BY <2>7, <2>8, <3>1, <3>3, <4>1
    <3> QED BY <2>6, <3>2, <3>3
  <2>14. ASSUME NEW d \in Dest
         PROVE  /\ {n \in Done : Is(n, "echo") /\ Goes(n) = d}'
                      = {files'[d][m].line : m \in Echoes(d)'}
                /\ \A l, m \in Echoes(d)' : l < m => files'[d][l].line < files'[d][m].line
    <3>1. CASE d = e
      <4>1. {n \in Done : Is(n, "echo") /\ Goes(n) = e}
               = {files[e][m].line : m \in Echoes(e)}
        BY DEF Landed
      <4> QED BY <2>10, <2>11, <2>13, <3>1, <4>1
    <3>2. CASE d # e
      <4>1. /\ {n \in Done : Is(n, "echo") /\ Goes(n) = d}
                  = {files[d][m].line : m \in Echoes(d)}
            /\ \A l, m \in Echoes(d) : l < m => files[d][l].line < files[d][m].line
        BY DEF Landed
      <4>2. Echoes(d)' = Echoes(d) /\ files'[d] = files[d]
        BY <2>3, <2>4, <3>2 DEF Grows
      <4> QED BY <2>9, <3>2, <4>1, <4>2
    <3> QED BY <3>1, <3>2
  <2> QED BY <2>14 DEF Landed
<1>6. CASE Quiet
  BY <1>3, <1>6, QuietStep
<1>7. CASE Ending
  <2>1. UNCHANGED script /\ Done' = Done
    BY <1>7, EndStep
  <2>2. CASE Return
    <3>1. \A i \in 1 .. Len(Kept) : ~Is(Kept[i], "echo")
      <4>1. Kept \in Seq(Text)
        BY <2>2, ReturnStep DEF Kept
      <4>2. \A i \in DOMAIN Kept : Is(Kept[i], "toomany")
        BY <2>2, ReturnStep DEF Messages, Kept
      <4> QED BY <4>1, <4>2 DEF Is
    <3> QED BY <1>4, <2>1, <2>2, <3>1, ReturnStep DEF Kept
  <2>3. CASE ~Return
    BY <1>3, <1>7, <2>1, <2>3, EndStep
  <2> QED BY <2>2, <2>3
<1>8. ASSUME NEW p \in Proc, Command(p), ended' = ended PROVE Landed'
  <2>1. /\ script' = script /\ pc = p /\ now \in Nat
        /\ Done' = Done \cup {now} /\ \A n \in Done : n \in Nat /\ n < now
    BY <1>8, CommandStep
  <2>2. CASE ~Prompt(p)
    BY <1>3, <1>8, <2>1, <2>2, SilentStep
  <2>3. CASE TooMany(p)
    <3>1. Is(now, "toomany") /\ ~Is(now, "echo")
      BY <2>3 DEF TooMany, Runs, Running, Is
    <3>2. now \in Text /\ proc[p].buf \in Seq(Text)
      BY <1>8, <2>3, PromptStep DEF Prompt
    <3>3. CASE files' = Written(p, Append(proc[p].buf, now))
      <4> DEFINE all == Append(proc[p].buf, now)
      <4>1. all \in Seq(Text)
        BY <3>2, LastOf
      <4>2. \A i \in 1 .. Len(all) : ~Is(all[i], "echo")
        <5>1. \A i \in DOMAIN proc[p].buf : ~Is(proc[p].buf[i], "echo")
          BY <1>8 DEF Messages, Is
        <5>2. \A i \in 1 .. Len(all) :
                 all[i] = now \/ (i \in DOMAIN proc[p].buf /\ all[i] = proc[p].buf[i])
          BY <3>2, LastOf
        <5> QED BY <3>1, <5>1, <5>2
      <4> HIDE DEF all
      <4> QED BY <1>4, <1>8, <2>1, <3>1, <3>3, <4>1, <4>2 DEF all
    <3>4. CASE files' = files
      BY <1>3, <2>1, <3>1, <3>4
    <3> QED BY <1>8, <2>3, <3>3, <3>4, PromptStep DEF Prompt
  <2>4. CASE Echo(p)
    <3>1. Is(now, "echo")
      BY <2>4 DEF Echo, Runs, Running, Is
    <3>2. /\ now \in Text /\ proc[p].buf \in Seq(Text)
          /\ files' = Written(p, Append(proc[p].buf, now))
      <4>1. ~TooMany(p)
        BY <2>4 DEF Echo, TooMany, Runs
      <4> QED BY <1>8, <2>4, <4>1, PromptStep DEF Prompt
    <3>3. proc[p].fd1 = Goes(now)
      BY <2>1 DEF Control, Proc
    <3> QED BY <1>5, <1>8, <2>1, <3>1, <3>2, <3>3
  <2> QED BY <2>2, <2>3, <2>4 DEF Prompt
<1> QED BY <1>6, <1>7, <1>8, StepKinds

-----------------------------------------------------------------------------
(* The messages of refused exits *)

(* What the shell has written is of lines it has carried out, no message   *)
(* twice, and one it neither wrote nor keeps was lost when it exited.      *)
Message(n) == Is(n, "toomany") /\ InShell(n)
Delivered ==
    /\ \A d \in Dest : \A m \in DOMAIN files[d] :
          files[d][m].by = "shell" => files[d][m].line \in Done
    /\ \A n \in Done : Message(n) =>
          /\ ~Twice(n)
          /\ InFile(n) => ~Waiting(n)
          /\ ~InFile(n) =>
                /\ Waiting(n) \/ ended = "exit"
                /\ \A m \in Done : m > n /\ InShell(m) => ~Is(m, "echo")

LEMMA DeliveredInit == Init => Delivered
<1> SUFFICES ASSUME Init PROVE Delivered
  OBVIOUS
<1>1. Done = {} /\ \A d \in Dest : DOMAIN files[d] = {}
  BY DEF Init, Done
<1> QED BY <1>1 DEF Delivered

LEMMA InFileIs ==
    ASSUME TypeOK, NEW n
    PROVE  InFile(n) <=> \E d \in Dest : \E m \in DOMAIN files[d] :
                             files[d][m] = Entry("shell", n)
BY DEF InFile, ToSet

(* A block of texts that the shell writes is in the files from then on,    *)
(* and nothing gets there twice that was not in one of them before.        *)
LEMMA ShellWrites ==
    ASSUME TypeOK, TypeOK', NEW texts \in Seq(Text), files' = Written("shell", texts),
           \A i \in DOMAIN texts : ~InFile(texts[i]),
           \A i, j \in DOMAIN texts : i < j => texts[i] # texts[j]
    PROVE  /\ \A n : InFile(n)' <=> InFile(n) \/ n \in ToSet(texts)
           /\ \A n : Twice(n)' => Twice(n)
           /\ \A d \in Dest : \A m \in DOMAIN files'[d] :
                 \/ m \in DOMAIN files[d] /\ files'[d][m] = files[d][m]
                 \/ files'[d][m].line \in ToSet(texts)
<1>0. "shell" \in Proc
  BY DEF Proc
<1>1. PICK e \in Dest, k \in Nat, w \in Nat :
         /\ e = proc["shell"].fd1 /\ k = Len(files[e]) /\ w = Len(texts)
         /\ Grows("shell", texts, e, k, w)
  BY <1>0, WrittenIs
<1>2. DOMAIN texts = 1 .. w /\ ToSet(texts) = {texts[i] : i \in 1 .. w}
  BY <1>1 DEF ToSet
<1>3. ASSUME NEW d \in Dest, NEW m \in DOMAIN files'[d]
      PROVE  \/ m \in DOMAIN files[d] /\ files'[d][m] = files[d][m]
             \/ /\ d = e /\ m - k \in DOMAIN texts /\ m \in Nat
                /\ files'[d][m] = Entry("shell", texts[m - k])
  <2>1. CASE d # e
    BY <1>1, <1>3, <2>1 DEF Grows
  <2>2. CASE d = e
    <3>1. m \in 1 .. k \/ m \in k + 1 .. k + w
      BY <1>1, <1>3, <2>2 DEF Grows
    <3>2. CASE m \in 1 .. k
      BY <1>1, <2>2, <3>2 DEF Grows
    <3>3. CASE m \in k + 1 .. k + w
      BY <1>1, <1>2, <2>2, <3>3 DEF Grows
    <3> QED BY <3>1, <3>2, <3>3
  <2> QED BY <2>1, <2>2
<1>4. ASSUME NEW d \in Dest, NEW m \in DOMAIN files[d]
      PROVE  m \in DOMAIN files'[d] /\ files'[d][m] = files[d][m]
  <2>1. CASE d # e
    BY <1>1, <1>4, <2>1 DEF Grows
  <2>2. CASE d = e
    <3>1. m \in 1 .. k /\ m \in 1 .. k + w
      BY <1>1, <1>4, <2>2 DEF Grows
    <3> QED BY <1>1, <2>2, <3>1 DEF Grows
  <2> QED BY <2>1, <2>2
<1>5. ASSUME NEW n PROVE InFile(n)' <=> InFile(n) \/ n \in ToSet(texts)
  <2>1. InFile(n)' <=> \E d \in Dest : \E m \in DOMAIN files'[d] :
                           files'[d][m] = Entry("shell", n)
    BY InFileIs DEF InFile, ToSet
  <2>2. InFile(n)' => InFile(n) \/ n \in ToSet(texts)
    <3> SUFFICES ASSUME NEW d \in Dest, NEW m \in DOMAIN files'[d],
                        files'[d][m] = Entry("shell", n)
                 PROVE  InFile(n) \/ n \in ToSet(texts)
      BY <2>1
    <3>1. CASE m \in DOMAIN files[d] /\ files'[d][m] = files[d][m]
      BY <3>1, InFileIs
    <3>2. CASE m - k \in DOMAIN texts /\ files'[d][m] = Entry("shell", texts[m - k])
      BY <1>2, <3>2 DEF Entry
    <3> QED BY <1>3, <3>1, <3>2
  <2>3. InFile(n) => InFile(n)'
    BY <1>4, <2>1, InFileIs
  <2>4. n \in ToSet(texts) => InFile(n)'
    <3> SUFFICES ASSUME NEW i \in 1 .. w, n = texts[i] PROVE InFile(n)'
      BY <1>2
    <3>1. k + i \in 1 .. k + w
      BY <1>1
    <3>2. k + i \in DOMAIN files'[e] /\ files'[e][k + i] = Entry("shell", n)
      BY <1>1, <3>1 DEF Grows
    <3> QED BY <2>1, <3>2
  <2> QED BY <2>2, <2>3, <2>4
<1>6. ASSUME NEW n, Twice(n)' PROVE Twice(n)
  <2>1. PICK d \in Dest, c \in Dest : \E l \in DOMAIN files'[d], m \in DOMAIN files'[c] :
           /\ files'[d][l] = Entry("shell", n) /\ files'[c][m] = Entry("shell", n)
           /\ d # c \/ l # m
    BY <1>6 DEF Twice, Entry
  <2>2. PICK l \in DOMAIN files'[d], m \in DOMAIN files'[c] :
           /\ files'[d][l] = Entry("shell", n) /\ files'[c][m] = Entry("shell", n)
           /\ d # c \/ l # m
    BY <2>1
  <2>3. \A a, b : Entry("shell", a) = Entry("shell", b) => a = b
    BY DEF Entry
  <2>4. CASE l \in DOMAIN files[d] /\ files'[d][l] = files[d][l]
    <3>1. InFile(n)
      BY <2>2, <2>4, InFileIs
    <3>2. CASE m \in DOMAIN files[c] /\ files'[c][m] = files[c][m]
      BY <2>2, <2>4, <3>2 DEF Twice
    <3>3. CASE m - k \in DOMAIN texts /\ files'[c][m] = Entry("shell", texts[m - k])
      BY <2>2, <2>3, <3>1, <3>3
    <3> QED BY <1>3, <3>2, <3>3
  <2>5. CASE /\ d = e /\ l - k \in DOMAIN texts /\ l \in Nat
             /\ files'[d][l] = Entry("shell", texts[l - k])
    <3>1. n = texts[l - k] /\ ~InFile(n)
      BY <2>2, <2>3, <2>5
    <3>2. CASE m \in DOMAIN files[c] /\ files'[c][m] = files[c][m]
      BY <2>2, <3>1, <3>2, InFileIs
    <3>3. CASE /\ c = e /\ m - k \in DOMAIN texts /\ m \in Nat
               /\ files'[c][m] = Entry("shell", texts[m - k])
      <4>1. n = texts[m - k] /\ l # m
        BY <2>2, <2>3, <2>5, <3>3
      <4>2. l - k < m - k \/ m - k < l - k
        BY <1>1, <2>5, <3>3, <4>1
      <4> QED BY <2>5, <3>1, <3>3, <4>1, <4>2
    <3> QED BY <1>3, <3>2, <3>3
  <2> QED BY <1>3, <2>4, <2>5
<1>7. ASSUME NEW d \in Dest, NEW m \in DOMAIN files'[d]
      PROVE  \/ m \in DOMAIN files[d] /\ files'[d][m] = files[d][m]
             \/ files'[d][m].line \in ToSet(texts)
  <2>1. CASE m - k \in DOMAIN texts /\ files'[d][m] = Entry("shell", texts[m - k])
    BY <1>2, <2>1 DEF Entry
  <2> QED BY <1>3, <1>7, <2>1
<1> QED BY <1>5, <1>6, <1>7

(* What a child writes is its own. *)
LEMMA ChildWrites ==
    ASSUME TypeOK, TypeOK', NEW texts \in Seq(Text), files' = Written("child", texts)
    PROVE  /\ \A n : InFile(n)' <=> InFile(n)
           /\ \A n : Twice(n)' => Twice(n)
           /\ \A d \in Dest : \A m \in DOMAIN files'[d] :
                 files'[d][m].by = "shell" =>
                    m \in DOMAIN files[d] /\ files'[d][m] = files[d][m]
<1>0. "child" \in Proc
  BY DEF Proc
<1>1. PICK e \in Dest, k \in Nat, w \in Nat :
         /\ e = proc["child"].fd1 /\ k = Len(files[e]) /\ w = Len(texts)
         /\ Grows("child", texts, e, k, w)
  BY <1>0, WrittenIs
<1>2. ASSUME NEW d \in Dest, NEW m \in DOMAIN files'[d], files'[d][m].by = "shell"
      PROVE  m \in DOMAIN files[d] /\ files'[d][m] = files[d][m]
  <2>1. CASE d # e
    BY <1>1, <1>2, <2>1 DEF Grows
  <2>2. CASE d = e
    <3>1. m \in 1 .. k \/ m \in k + 1 .. k + w
      BY <1>1, <1>2, <2>2 DEF Grows
    <3>2. CASE m \in 1 .. k
      BY <1>1, <2>2, <3>2 DEF Grows
    <3>3. CASE m \in k + 1 .. k + w
      BY <1>1, <1>2, <2>2, <3>3 DEF Grows
    <3> QED BY <3>1, <3>2, <3>3
  <2> QED BY <2>1, <2>2
<1>3. ASSUME NEW d \in Dest, NEW m \in DOMAIN files[d]
      PROVE  m \in DOMAIN files'[d] /\ files'[d][m] = files[d][m]
  <2>1. CASE d # e
    BY <1>1, <1>3, <2>1 DEF Grows
  <2>2. CASE d = e
    <3>1. m \in 1 .. k /\ m \in 1 .. k + w
      BY <1>1, <1>3, <2>2 DEF Grows
    <3> QED BY <1>1, <2>2, <3>1 DEF Grows
  <2> QED BY <2>1, <2>2
<1>4. \A n : Entry("shell", n).by = "shell"
  BY DEF Entry
<1>5. ASSUME NEW n PROVE InFile(n)' <=> InFile(n)
  <2>1. InFile(n)' <=> \E d \in Dest : \E m \in DOMAIN files'[d] :
                           files'[d][m] = Entry("shell", n)
    BY InFileIs DEF InFile, ToSet
  <2> QED BY <1>2, <1>3, <1>4, <2>1, InFileIs
<1>6. ASSUME NEW n, Twice(n)' PROVE Twice(n)
  <2>1. PICK d \in Dest, c \in Dest : \E l \in DOMAIN files'[d], m \in DOMAIN files'[c] :
           /\ files'[d][l] = Entry("shell", n) /\ files'[c][m] = Entry("shell", n)
           /\ d # c \/ l # m
    BY <1>6 DEF Twice, Entry
  <2> QED BY <1>2, <1>4, <2>1 DEF Twice
<1> QED BY <1>2, <1>5, <1>6

LEMMA DeliveredNext ==
    LinesApart /\ Control /\ Messages /\ Delivered /\ [Next]_vars => Delivered'
<1> SUFFICES ASSUME LinesApart, Control, Messages, Delivered, [Next]_vars
             PROVE  Delivered'
  OBVIOUS
<1>1. TypeOK /\ TypeOK' /\ "shell" \in Proc /\ "child" \in Proc
  BY ControlNext DEF Control, Proc
<1>2. ASSUME UNCHANGED script
      PROVE  \A n : Message(n)' = Message(n) /\ InShell(n)' = InShell(n)
                       /\ Is(n, "echo")' = Is(n, "echo")
  BY <1>2 DEF Message, InShell, Is
<1>3. \A n : Waiting(n) <=> \E i \in DOMAIN Kept : n = Kept[i]
  BY DEF Waiting, Kept, ToSet
(* The shell's output and buffer stay, and a line of a child may be over. *)
<1>4. ASSUME UNCHANGED script, \A n : InFile(n)' <=> InFile(n),
             \A n : Twice(n)' => Twice(n),
             \A n : Waiting(n) => Waiting(n)' \/ ended' = "exit",
             \A n : Waiting(n)' => Waiting(n), ended = "exit" => ended' = "exit",
             \A d \in Dest : \A m \in DOMAIN files'[d] :
                files'[d][m].by = "shell" =>
                   m \in DOMAIN files[d] /\ files'[d][m] = files[d][m],
             Done \subseteq Done',
             \A n \in Done' : n \in Done \/ ~InShell(n) \/ (~Is(n, "echo") /\ ~Message(n))
      PROVE  Delivered'
  <2>1. ASSUME NEW d \in Dest, NEW m \in DOMAIN files'[d], files'[d][m].by = "shell"
        PROVE  files'[d][m].line \in Done'
    BY <1>4, <2>1 DEF Delivered
  <2>2. ASSUME NEW n \in Done', Message(n)
        PROVE  /\ ~Twice(n)'
               /\ InFile(n)' => ~Waiting(n)'
               /\ ~InFile(n)' =>
                     /\ Waiting(n)' \/ ended' = "exit"
                     /\ \A m \in Done' : m > n /\ InShell(m) => ~Is(m, "echo")
    <3>1. n \in Done
      BY <1>4, <2>2 DEF Message
    <3>2. /\ ~Twice(n)
          /\ InFile(n) => ~Waiting(n)
          /\ ~InFile(n) =>
                /\ Waiting(n) \/ ended = "exit"
                /\ \A m \in Done : m > n /\ InShell(m) => ~Is(m, "echo")
      BY <2>2, <3>1 DEF Delivered
    <3> QED BY <1>4, <3>2
  <2> QED BY <1>2, <1>4, <2>1, <2>2 DEF Delivered
(* The shell writes its buffer out, perhaps with the line that is now over. *)
<1>5. ASSUME UNCHANGED script, NEW texts \in Seq(Text), files' = Written("shell", texts),
             \A i \in DOMAIN texts : ~InFile(texts[i]) /\ texts[i] \in Done',
             \A i, j \in DOMAIN texts : i < j => texts[i] # texts[j],
             Kept' = <<>>, \A n : Waiting(n) => n \in ToSet(texts),
             ended # "exit", Done \subseteq Done',
             \A n \in Done' : n \in Done \/ n \in ToSet(texts)
      PROVE  Delivered'
  <2>1. /\ \A n : InFile(n)' <=> InFile(n) \/ n \in ToSet(texts)
        /\ \A n : Twice(n)' => Twice(n)
        /\ \A d \in Dest : \A m \in DOMAIN files'[d] :
              \/ m \in DOMAIN files[d] /\ files'[d][m] = files[d][m]
              \/ files'[d][m].line \in ToSet(texts)
    <3>1. \A i \in DOMAIN texts : ~InFile(texts[i])
      BY <1>5
    <3> QED BY <1>1, <1>5, <3>1, ShellWrites
  <2>2. \A n \in ToSet(texts) : n \in Done' /\ ~InFile(n)
    BY <1>5 DEF ToSet
  <2>3. \A n : ~Waiting(n)'
    BY <1>5 DEF Waiting, Kept, ToSet
  <2>4. ASSUME NEW d \in Dest, NEW m \in DOMAIN files'[d], files'[d][m].by = "shell"
        PROVE  files'[d][m].line \in Done'
    BY <1>5, <2>1, <2>2, <2>4 DEF Delivered
  <2>5. \A n : Twice(n) => InFile(n)
    BY <1>1, InFileIs DEF Twice
  <2>6. ASSUME NEW n \in Done', Message(n)
        PROVE  ~Twice(n)' /\ InFile(n)'
    <3>1. CASE n \in ToSet(texts)
      BY <2>1, <2>2, <2>5, <3>1
    <3>2. CASE n \notin ToSet(texts)
      <4>1. n \in Done /\ ~Waiting(n)
        BY <1>5, <3>2
      <4>2. ~Twice(n) /\ InFile(n)
        BY <1>5, <2>6, <4>1 DEF Delivered
      <4> QED BY <2>1, <4>2
    <3> QED BY <3>1, <3>2
  <2> QED BY <1>2, <1>5, <2>3, <2>4, <2>6 DEF Delivered
<1>6. ASSUME UNCHANGED <<script, files>>
      PROVE  /\ \A n : InFile(n)' <=> InFile(n)
             /\ \A n : Twice(n)' => Twice(n)
             /\ \A d \in Dest : \A m \in DOMAIN files'[d] :
                   files'[d][m].by = "shell" =>
                      m \in DOMAIN files[d] /\ files'[d][m] = files[d][m]
  BY <1>6 DEF InFile, Twice, Entry
<1>7. ASSUME Kept' = Kept PROVE \A n : Waiting(n)' <=> Waiting(n)
  BY <1>7 DEF Waiting, Kept
<1>8. \A i \in DOMAIN Kept : ~InFile(Kept[i]) /\ Kept[i] \in Done /\ Message(Kept[i])
  <2> TAKE i \in DOMAIN Kept
  <2>1. Kept[i] \in Done /\ Message(Kept[i])
    BY <1>1 DEF Messages, Kept, Message
  <2>2. Waiting(Kept[i])
    BY <1>3
  <2> QED BY <2>1, <2>2 DEF Delivered
<1>9. \A i, j \in DOMAIN Kept : i < j => Kept[i] # Kept[j]
  <2> TAKE i, j \in DOMAIN Kept
  <2>1. Kept[i] \in Nat /\ Kept[j] \in Nat
    BY <1>8 DEF Done, LinesApart
  <2> QED BY <2>1 DEF Messages
<1>10. CASE Quiet
  <2>1. UNCHANGED <<script, files, ended>> /\ Done' = Done /\ Kept' = Kept
    BY <1>10, QuietStep DEF Kept
  <2> QED BY <1>4, <1>6, <1>7, <2>1
<1>11. CASE Ending
  <2>1. UNCHANGED script /\ Done' = Done
    BY <1>11, EndStep
  <2>2. CASE Return
    <3>1. /\ files' = Written("shell", Kept) /\ Kept \in Seq(Text) /\ Kept' = <<>>
          /\ ended # "exit"
      BY <2>2, ReturnStep DEF Kept
    <3>2. \A n : Waiting(n) => n \in ToSet(Kept)
      BY DEF Waiting, Kept
    <3> QED BY <1>5, <1>8, <1>9, <2>1, <3>1, <3>2
  <2>3. CASE Leave
    <3>1. files' = files /\ ended' = "exit" /\ Kept' = <<>>
      BY <1>1, <2>3 DEF Leave, Kept, TypeOK, Memory
    <3>2. \A n : ~Waiting(n)'
      BY <3>1 DEF Waiting, Kept, ToSet
    <3> QED BY <1>4, <1>6, <2>1, <3>1, <3>2
  <2>4. CASE ended' = "killed" /\ UNCHANGED <<proc, files>>
    <3>1. Kept' = Kept /\ ended # "exit"
      <4>1. ended = "no"
        <5>1. \E p \in Proc : Kill(p)
          BY <1>11, <2>4 DEF Ending, Return, Leave
        <5> QED BY <5>1 DEF Kill, Runs, Control, Proc
      <4> QED BY <2>4, <4>1 DEF Kept
    <3> QED BY <1>4, <1>6, <1>7, <2>1, <2>4, <3>1
  <2> QED BY <1>11, <2>2, <2>3, <2>4, EndStep
<1>12. ASSUME NEW p \in Proc, Command(p), ended' = ended PROVE Delivered'
  <2>1. /\ script' = script /\ pc = p /\ now \in Nat
        /\ Done' = Done \cup {now} /\ \A n \in Done : n \in Nat /\ n < now
        /\ \A q \in Proc : q # p => proc'[q] = proc[q]
    BY <1>12, CommandStep
  <2>2. ended # "exit"
    BY <1>12, <2>1 DEF Control, Proc
  <2>3. CASE ~Prompt(p)
    <3>1. files' = files /\ ~Is(now, "echo") /\ ~Is(now, "toomany")
      BY <1>12, <2>3, SilentStep
    <3>2. Kept' = Kept
      BY <1>1, <1>12, <2>1, <2>3, SilentStep DEF Kept
    <3> QED BY <1>4, <1>6, <1>7, <1>12, <2>1, <2>2, <3>1, <3>2 DEF Message
  <2>4. CASE Prompt(p) /\ p = "child"
    <3>1. ~InShell(now)
      BY <2>1, <2>4 DEF Control, Here, InShell, Running, Prompt, Echo, TooMany, Runs
    <3>2. Kept' = Kept
      BY <1>1, <2>1, <2>4 DEF Kept
    <3>3. CASE files' = files
      BY <1>4, <1>6, <1>7, <1>12, <2>1, <2>2, <3>1, <3>2, <3>3
    <3>4. CASE files' = Written("child", Append(proc["child"].buf, now))
      <4>1. Append(proc["child"].buf, now) \in Seq(Text)
        BY <2>4, LastOf, PromptStep
      <4>2. /\ \A n : InFile(n)' <=> InFile(n)
            /\ \A n : Twice(n)' => Twice(n)
            /\ \A d \in Dest : \A m \in DOMAIN files'[d] :
                  files'[d][m].by = "shell" =>
                     m \in DOMAIN files[d] /\ files'[d][m] = files[d][m]
        BY <1>1, <3>4, <4>1, ChildWrites
      <4> QED BY <1>4, <1>7, <1>12, <2>1, <2>2, <3>1, <3>2, <4>2
    <3> QED BY <2>4, <3>3, <3>4, PromptStep
  <2>5. CASE Prompt(p) /\ p = "shell"
    <3> DEFINE all == Append(Kept, now)
    <3>1. now \in Text /\ Kept \in Seq(Text)
      BY <2>5, PromptStep DEF Kept
    <3>2. /\ all \in Seq(Text) /\ Len(Kept) \in Nat
          /\ \A i \in DOMAIN all : i \in 1 .. Len(Kept) + 1
          /\ all[Len(Kept) + 1] = now /\ Len(Kept) + 1 \in DOMAIN all
          /\ \A i \in 1 .. Len(Kept) : i \in DOMAIN Kept /\ all[i] = Kept[i]
          /\ \A i \in DOMAIN Kept : i \in DOMAIN all /\ all[i] = Kept[i]
      BY <3>1, LastOf
    <3> HIDE DEF all
    <3>3. now \notin Done /\ ~InFile(now)
      <4>1. now \notin Done
        BY <2>1
      <4>2. ASSUME NEW d \in Dest, NEW m \in DOMAIN files[d],
                   files[d][m] = Entry("shell", now)
            PROVE  FALSE
        BY <4>1, <4>2 DEF Delivered, Entry
      <4> QED BY <1>1, <4>1, <4>2, InFileIs
    <3>4. \A n : n \in ToSet(all) <=> Waiting(n) \/ n = now
      <4>1. \A n : n \in ToSet(all) <=> \E i \in DOMAIN all : n = all[i]
        BY DEF ToSet
      <4>2. \A i \in DOMAIN all : i \in 1 .. Len(Kept) \/ i = Len(Kept) + 1
        BY <3>2
      <4> QED BY <1>3, <3>2, <4>1, <4>2
    <3>5. CASE proc'[p].buf = <<>> /\ files' = Written(p, all)
      <4>1. \A i \in DOMAIN all : ~InFile(all[i]) /\ all[i] \in Done'
        <5>1. \A i \in DOMAIN all : i \in 1 .. Len(Kept) \/ i = Len(Kept) + 1
          BY <3>2
        <5> QED BY <1>8, <2>1, <3>2, <3>3, <5>1
      <4>2. \A i, j \in DOMAIN all : i < j => all[i] # all[j]
        <5> SUFFICES ASSUME NEW i \in DOMAIN all, NEW j \in DOMAIN all, i < j
                     PROVE  all[i] # all[j]
          OBVIOUS
        <5>1. i \in DOMAIN Kept /\ all[i] = Kept[i]
          BY <3>2
        <5>2. CASE j \in 1 .. Len(Kept)
          BY <1>9, <3>2, <5>1, <5>2
        <5>3. CASE j = Len(Kept) + 1
          BY <1>8, <3>2, <3>3, <5>1, <5>3
        <5> QED BY <3>2, <5>2, <5>3
      <4>3. Kept' = <<>> /\ files' = Written("shell", all)
        BY <2>5, <3>5 DEF Kept
      <4>4. \A n : Waiting(n) => n \in ToSet(all)
        BY <3>4
      <4>5. \A n \in Done' : n \in Done \/ n \in ToSet(all)
        BY <2>1, <3>4
      <4>6. Done \subseteq Done'
        BY <2>1
      <4> QED BY <1>5, <2>1, <2>2, <3>2, <4>1, <4>2, <4>3, <4>4, <4>5, <4>6
    <3>6. CASE TooMany(p) /\ proc'[p].buf = all /\ files' = files
      <4>1. Message(now) /\ ~Is(now, "echo")
        BY <2>1, <2>5, <3>6 DEF TooMany, Runs, Running, Is, Control, Here, InShell,
                                Message
      <4>2. \A n : Waiting(n)' <=> Waiting(n) \/ n = now
        BY <2>5, <3>4, <3>6 DEF Waiting
      <4>3. ASSUME NEW d \in Dest, NEW m \in DOMAIN files'[d], files'[d][m].by = "shell"
            PROVE  files'[d][m].line \in Done'
        BY <2>1, <3>6, <4>3 DEF Delivered
      <4>4. \A n : Twice(n) => InFile(n)
        BY <1>1, InFileIs DEF Twice
      <4>5. ASSUME NEW n \in Done', Message(n)
            PROVE  /\ ~Twice(n)'
                   /\ InFile(n)' => ~Waiting(n)'
                   /\ ~InFile(n)' =>
                         /\ Waiting(n)' \/ ended' = "exit"
                         /\ \A m \in Done' : m > n /\ InShell(m) => ~Is(m, "echo")
        <5>1. \A k : (InFile(k)' <=> InFile(k)) /\ (Twice(k)' => Twice(k))
          BY <1>6, <2>1, <3>6
        <5>2. CASE n = now
          <6>1. \A m \in Done' : ~(m > n)
            BY <2>1, <5>2
          <6> QED BY <3>3, <4>2, <4>4, <5>1, <5>2, <6>1
        <5>3. CASE n \in Done
          <6>1. /\ ~Twice(n)
                /\ InFile(n) => ~Waiting(n)
                /\ ~InFile(n) =>
                      /\ Waiting(n)
                      /\ \A m \in Done : m > n /\ InShell(m) => ~Is(m, "echo")
            BY <2>2, <4>5, <5>3 DEF Delivered
          <6>2. n # now
            BY <3>3, <5>3
          <6> QED BY <2>1, <4>1, <4>2, <5>1, <6>1, <6>2
        <5> QED BY <2>1, <5>2, <5>3
      <4> QED BY <1>2, <2>1, <4>3, <4>5 DEF Delivered
    <3> QED BY <2>5, <3>5, <3>6, PromptStep DEF all, Kept
  <2> QED BY <1>1, <2>3, <2>4, <2>5 DEF Proc
<1> QED BY <1>10, <1>11, <1>12, StepKinds

LEMMA DeliveredSuffices ==
    LinesApart /\ Control /\ Delivered => MessageOnce
<1> SUFFICES ASSUME LinesApart, Control, Delivered,
                    NEW n \in ToSet(ran), Message(n), Carried(n)
             PROVE  /\ ~Twice(n)
                    /\ IF ended \in {"no", "eof"}
                       THEN InFile(n) # Waiting(n)
                       ELSE ~InFile(n) =>
                               \A m \in ToSet(ran) :
                                   m > n /\ Is(m, "echo") /\ InShell(m) => ~Carried(m)
  BY DEF MessageOnce, Message
<1>1. n \in Done /\ \A m \in ToSet(ran) : Carried(m) => m \in Done
  BY BegunIs
<1>2. /\ ~Twice(n)
      /\ InFile(n) => ~Waiting(n)
      /\ ~InFile(n) =>
            /\ Waiting(n) \/ ended = "exit"
            /\ \A m \in Done : m > n /\ InShell(m) => ~Is(m, "echo")
  BY <1>1 DEF Delivered
<1>3. InFile(n) \in BOOLEAN /\ Waiting(n) \in BOOLEAN
  BY DEF InFile, Waiting
<1> QED BY <1>1, <1>2, <1>3

-----------------------------------------------------------------------------
(* Theorems *)

(* What all the others rest on: the lines, the types and the control       *)
(* points, and what is in the buffers.                                     *)
LEMMA Base == Spec => [](LinesApart /\ Control /\ Messages)
BY LinesInit, LinesNext, ControlInit, ControlNext, MessagesInit, MessagesNext, PTL
   DEF Spec

(* For every script, however far the shell reads ahead: what it has read   *)
(* is part of the script, statuses are those a system can have, and        *)
(* between lines the shell's output is where it was.                       *)
THEOREM TypeCorrect == Spec => []TypeOK
<1>1. Control => TypeOK
  BY DEF Control
<1> QED BY <1>1, Base, PTL

(* What echo prints is written before the next line is executed, to the    *)
(* file that its line names, once and in the order of the lines.           *)
THEOREM EchoIsWritten == Spec => []EchoLands
<1>1. Spec => []Landed
  BY Base, LandedInit, LandedNext, PTL DEF Spec
<1>2. LinesApart /\ Landed => EchoLands
  BY LandedIs
<1> QED BY <1>1, <1>2, Base, PTL

(* The message of an exit that is refused is written once, in the end; it  *)
(* is lost only when an exit or a signal ends the shell before an echo.    *)
THEOREM MessageIsOnce == Spec => []MessageOnce
<1>1. Spec => []Delivered
  BY Base, DeliveredInit, DeliveredNext, PTL DEF Spec
<1> QED BY <1>1, Base, DeliveredSuffices, PTL

(* A child writes what it inherited in the buffer only in front of a text  *)
(* of its own.                                                             *)
THEOREM CopiesAreCarried == Spec => []CopiesCarried
BY Base, CopiesInit, CopiesNext, PTL DEF Spec

(* The status that exit gives is the number that is written after it,      *)
(* modulo the number of statuses, however many digits it has and however   *)
(* often an int wraps around as they are read; behind a +, which the test  *)
(* of the argument lets through, it is 0 whatever the digits.              *)
THEOREM StatusIsMeant == Spec => []ExitStatus
<1>1. Spec => []Asked
  BY Base, AskedInit, AskedNext, PTL DEF Spec
<1> QED BY <1>1, Base, AskedSuffices, PTL

(* cd and exit count for the shell, redirected or not, and in a pipeline   *)
(* they change nothing in it.                                              *)
THEOREM EffectsLast == Spec => []LastingEffects
<1>1. Spec => []Lasting
  BY Base, LastingInit, LastingNext, PTL DEF Spec
<1>2. LinesApart /\ Lasting => LastingEffects
  BY LastingIs
<1> QED BY <1>1, <1>2, Base, PTL

=============================================================================
