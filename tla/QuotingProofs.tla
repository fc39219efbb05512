---------------------------- MODULE QuotingProofs ----------------------------
(***************************************************************************)
(* What the shell makes of a text of any length.  First the lexer alone:   *)
(* the tokens are well-formed, with a number only in front of the operator *)
(* it belongs to and nothing behind the end.  Then, they say what the text *)
(* says: between a reading of the text that knows nothing of tokens and    *)
(* the tokens there is at every step the invariant Understood, how far     *)
(* each loop has come (Placed), where the tokens lie (Behind), which       *)
(* characters they hold (Collected), what is held together and parted      *)
(* (HeldTogether, Cut), and which operators were found (Found), of the     *)
(* right kind (Kinds).  Every step is of one kind, Takes: it deals with    *)
(* the next characters and keeps some of them, in order.  At the end       *)
(* lexer, expansion and echo together: each is what it is alone, so that   *)
(* what is proved of the parts holds of the whole, and the arguments are   *)
(* what their text means.                                                  *)
(***************************************************************************)
EXTENDS Quoting, FiniteSetTheorems, NaturalsInduction, WellFoundedInduction, TLAPS

Positions == 1 .. Length + 1
Types == {"word", "nb", "nl", "semi", "pipe", "or", "and", "in", "out", "app", Eof}
Token == [type : Types, val : Seq(Positions), at : 1 .. Length + 2]

Formed(t) ==
    /\ ~IsWord(t) => t.val = <<>>
    /\ t.type = "nb" => t.val # <<>>

(* What the token that was popped last says of the next one. *)
Newest == toks[Len(toks)]
Handover ==
    toks # <<>> =>
        /\ Newest.type = "nb" => pc = "build" /\ At(pos) \in {"lt", "gt"}
        /\ Newest.type = Eof => pc = "build" /\ At(pos) = Eof

Lexed ==
    /\ text \in Text /\ text \in Seq(Symbol)
    /\ pos \in 1 .. Length + 2
    /\ pc \in {"build", "number", "comment", "word", "double", "single"}
    /\ pc # "build" => pos >= 2
    /\ pc = "number" => val # <<>>
    /\ start \in Positions
    /\ val \in Seq(Positions)
    /\ marked \subseteq 1 .. Length
    /\ toks \in Seq(Token)
    /\ \A n \in DOMAIN toks : Formed(toks[n])
    /\ Handover
    /\ TokensForParser

LEMMA Reading ==
    ASSUME text \in Seq(Symbol), NEW p \in Nat \ {0}
    PROVE  /\ p <= Length => At(p) \in Symbol /\ At(p) # Eof
           /\ p > Length => At(p) = Eof
           /\ Length \in Nat
           /\ After(p) = IF p <= Length THEN p + 1 ELSE Length + 2
<1>1. Length \in Nat
  BY DEF Length
<1>2. Eof \notin Symbol
  BY LetterAssumption DEF Symbol, Named, Eof
<1> QED BY <1>1, <1>2 DEF At, After, Length

(* Neither a number nor the end of the input was popped just before. *)
Between == toks = <<>> \/ (Newest.type # "nb" /\ Newest.type # Eof)

LEMMA WhenBetween ==
    ASSUME Lexed, pc # "build" \/ At(pos) \notin {"lt", "gt", Eof}
    PROVE  Between
BY DEF Lexed, Handover, Between

LEMMA LexedInit == Init => Lexed
<1> SUFFICES ASSUME Init PROVE Lexed
  OBVIOUS
<1>1. text \in Text /\ text \in Seq(Symbol)
  BY TextAssumption DEF Init
<1>2. Length \in Nat
  BY <1>1 DEF Length
<1>3. pos = 1 /\ pc = "build" /\ start = 1 /\ val = <<>> /\ marked = {} /\ toks = <<>>
  BY DEF Init
<1>4. toks \in Seq(Token) /\ Len(toks) = 0 /\ val \in Seq(Positions) /\ DOMAIN toks = {}
  BY <1>3
<1>5. 1 .. Len(toks) - 1 = {}
  BY <1>4
<1> QED BY <1>1, <1>2, <1>3, <1>4, <1>5 DEF Lexed, Handover, TokensForParser, Positions

(* A function reads on. *)
LEMMA GotoKeeps ==
    ASSUME Lexed, Between,
           NEW place \in {"build", "number", "comment", "word", "double", "single"},
           NEW from \in Positions, NEW v \in Seq(Positions), NEW next \in 1 .. Length + 2,
           place # "build" => next >= 2, place = "number" => v # <<>>,
           Goto(place, from, v, next)
    PROVE  Lexed'
<1>1. /\ pc' = place /\ start' = from /\ val' = v /\ pos' = next
      /\ text' = text /\ marked' = marked /\ toks' = toks
  BY DEF Goto
<1>2. Length' = Length /\ Positions' = Positions /\ Token' = Token
  BY <1>1 DEF Length, Positions, Token
<1>3. Newest' = Newest /\ Between
  BY <1>1 DEF Newest
<1>4. Handover'
  BY <1>1, <1>3 DEF Between, Handover
<1>5. TokensForParser'
  BY <1>1 DEF Lexed, TokensForParser
<1> QED BY <1>1, <1>2, <1>4, <1>5 DEF Lexed

(* A token is popped. *)
LEMMA EmitKeeps ==
    ASSUME Lexed, NEW type \in Types, NEW v \in Seq(Positions),
           NEW from \in 1 .. Length + 2, NEW next \in 1 .. Length + 2,
           Emit(type, v, from, next),
           type \notin {"word", "nb"} => v = <<>>,
           type = "nb" => v # <<>> /\ At(next) \in {"lt", "gt"},
           type = Eof => At(next) = Eof,
           toks # <<>> /\ Newest.type = "nb" => type \in {"in", "out", "app"},
           toks # <<>> /\ Newest.type = Eof => type = Eof
    PROVE  Lexed'
<1> DEFINE t == [type |-> type, val |-> v, at |-> from]
<1>1. /\ toks' = Append(toks, t) /\ pos' = next /\ pc' = "build" /\ val' = <<>>
      /\ text' = text /\ start' = start /\ marked' = marked
  BY DEF Emit
<1>2. Length' = Length /\ Positions' = Positions /\ Token' = Token
      /\ \A p : At(p)' = At(p)
  BY <1>1 DEF Length, Positions, Token, At
<1>3. t \in Token /\ Formed(t) /\ t.type = type
  BY DEF Token, Formed, IsWord
<1> HIDE DEF t
<1>4. toks \in Seq(Token) /\ Len(toks) \in Nat
  BY DEF Lexed
<1>5. /\ toks' \in Seq(Token) /\ Len(toks') = Len(toks) + 1 /\ toks'[Len(toks) + 1] = t
      /\ \A n \in 1 .. Len(toks) : toks'[n] = toks[n]
  BY <1>1, <1>3, <1>4
<1>6. \A n \in DOMAIN toks' : Formed(toks'[n])
  <2>1. \A n \in 1 .. Len(toks) : Formed(toks[n])
    BY <1>4 DEF Lexed
  <2>2. DOMAIN toks' = 1 .. Len(toks) + 1
    BY <1>5
  <2> QED BY <1>3, <1>4, <1>5, <2>1, <2>2
<1>7. Newest' = t
  BY <1>4, <1>5 DEF Newest
<1>8. Handover'
  BY <1>1, <1>2, <1>3, <1>7 DEF Handover
<1>9. TokensForParser'
  <2> DEFINE Fits(n) ==
          /\ toks'[n].type = "nb" => toks'[n + 1].type \in {"in", "out", "app"}
          /\ toks'[n].type = Eof => toks'[n + 1].type = Eof
  <2>1. ASSUME NEW n \in 1 .. Len(toks) - 1 PROVE Fits(n)
    <3>1. n \in 1 .. Len(toks) /\ n + 1 \in 1 .. Len(toks)
      BY <1>4
    <3>2. /\ toks[n].type = "nb" => toks[n + 1].type \in {"in", "out", "app"}
          /\ toks[n].type = Eof => toks[n + 1].type = Eof
      BY DEF Lexed, TokensForParser
    <3> QED BY <1>5, <3>1, <3>2
  <2>2. ASSUME Len(toks) # 0 PROVE Fits(Len(toks))
    <3>1. toks # <<>> /\ toks'[Len(toks)] = Newest
      BY <1>4, <1>5, <2>2 DEF Newest
    <3> QED BY <1>3, <1>5, <3>1
  <2>3. 1 .. Len(toks') - 1 = 1 .. Len(toks)
    BY <1>4, <1>5
  <2>4. \A n \in 1 .. Len(toks) : n \in 1 .. Len(toks) - 1 \/ (n = Len(toks) /\ Len(toks) # 0)
    BY <1>4
  <2>5. \A n \in 1 .. Len(toks') - 1 : Fits(n)
    BY <2>1, <2>2, <2>3, <2>4
  <2> QED BY <2>5 DEF TokensForParser
<1>10. <<>> \in Seq(Positions)
  OBVIOUS
<1> QED BY <1>1, <1>2, <1>5, <1>6, <1>8, <1>9, <1>10 DEF Lexed

(* A word without a number in front of an operator. *)
LEMMA WordKeeps ==
    ASSUME Lexed, Between, NEW v \in Seq(Positions), NEW from \in 1 .. Length + 2,
           NEW next \in 1 .. Length + 2, Emit("word", v, from, next)
    PROVE  Lexed'
BY EmitKeeps DEF Between, Types, Eof

(* An operator, also behind a number, and a line break. *)
LEMMA OperatorKeeps ==
    ASSUME Lexed, NEW type \in {"nl", "semi", "pipe", "or", "and", "in", "out", "app"},
           NEW from \in 1 .. Length + 2, NEW next \in 1 .. Length + 2,
           Emit(type, <<>>, from, next),
           Between \/ (type \in {"in", "out", "app"} /\ At(pos) # Eof)
    PROVE  Lexed'
<1>1. <<>> \in Seq(Positions)
  OBVIOUS
<1>2. type \in Types /\ type \notin {"word", "nb", Eof}
  BY DEF Types, Eof
<1>3. /\ toks # <<>> /\ Newest.type = "nb" => type \in {"in", "out", "app"}
      /\ toks # <<>> /\ Newest.type = Eof => FALSE
  BY DEF Between, Lexed, Handover, Eof
<1> QED BY <1>1, <1>2, <1>3, EmitKeeps

(* The end of the input, which stays the end. *)
LEMMA EndKeeps ==
    ASSUME Lexed, NEW from \in 1 .. Length + 2, NEW next \in 1 .. Length + 2,
           Emit(Eof, <<>>, from, next), At(next) = Eof,
           pc # "build" \/ At(pos) = Eof
    PROVE  Lexed'
<1>1. <<>> \in Seq(Positions) /\ Eof \in Types
  BY DEF Types
<1>2. Eof \notin {"word", "nb"}
  BY DEF Eof
<1>3. ~(toks # <<>> /\ Newest.type = "nb")
  BY DEF Lexed, Handover, Eof
<1> QED BY <1>1, <1>2, <1>3, EmitKeeps

LEMMA OneOrTwoKeeps ==
    ASSUME Lexed, NEW c \in {"bar", "gt", "amp"},
           NEW one \in {"pipe", "out", "word"}, NEW two \in {"or", "app", "and"},
           NEW v, OneOrTwo(c, one, two, v),
           c = "gt" => one = "out" /\ two = "app",
           one = "word" => v = <<pos>>, one # "word" => v = <<>>
    PROVE  Lexed'
<1>1. text \in Seq(Symbol) /\ pos \in 1 .. Length + 2 /\ Length \in Nat /\ pc = "build"
  BY DEF Lexed, OneOrTwo, Building, Length
<1>2. At(pos) = c /\ c # Eof
  BY DEF OneOrTwo, Eof
<1>3. pos <= Length /\ (At(pos + 1) = c => pos + 1 <= Length)
  BY <1>1, <1>2, Reading
<1>4. Between \/ c = "gt"
  BY <1>2, WhenBetween DEF Eof
<1>5. CASE At(pos + 1) = c
  <2>1. Emit(two, <<>>, pos, pos + 2)
    BY <1>5 DEF OneOrTwo
  <2>2. pos + 2 \in 1 .. Length + 2
    BY <1>1, <1>3, <1>5
  <2> QED BY <1>1, <1>2, <1>4, <2>1, <2>2, OperatorKeeps
<1>6. CASE At(pos + 1) # c
  <2>1. Emit(one, v, pos, pos + 1)
    BY <1>6 DEF OneOrTwo
  <2>2. pos + 1 \in 1 .. Length + 2
    BY <1>1, <1>3
  <2>3. CASE one = "word"
    <3>1. v = <<pos>> /\ pos \in Positions
      BY <1>1, <1>3, <2>3 DEF Positions
    <3>2. v \in Seq(Positions)
      BY <3>1
    <3> QED BY <1>1, <1>4, <2>1, <2>2, <2>3, <3>2, WordKeeps
  <2>4. CASE one # "word"
    <3>1. Emit(one, <<>>, pos, pos + 1)
      BY <2>1, <2>4, Zenon
    <3>2. one \in {"pipe", "out"} /\ (Between \/ one = "out") /\ At(pos) # Eof
      BY <1>2, <1>4, <2>4
    <3> QED BY <1>1, <2>2, <3>1, <3>2, OperatorKeeps
  <2> QED BY <2>3, <2>4
<1> QED BY <1>5, <1>6

(* The end of the body of read_tok's loop. *)
LEMMA FurtherKeeps ==
    ASSUME Lexed, pc = "word", NEW v \in Seq(Positions), NEW p \in 2 .. Length + 2,
           Further(v, p)
    PROVE  Lexed'
<1>1. /\ text \in Seq(Symbol) /\ Length \in Nat /\ start \in Positions
      /\ start \in 1 .. Length + 2
  BY DEF Lexed, Length, Positions
<1>2. Between
  BY WhenBetween
<1>3. CASE At(p) \in StopsBefore
  <2>1. Emit("word", v, start, p)
    BY <1>3 DEF Further
  <2> QED BY <1>1, <1>2, <2>1, WordKeeps
<1>4. CASE At(p) \notin StopsBefore
  <2>1. Goto("word", start, v, p + 1)
    BY <1>4 DEF Further
  <2>2. p <= Length
    BY <1>1, <1>4, Reading DEF StopsBefore
  <2> QED BY <1>1, <1>2, <2>1, <2>2, GotoKeeps
<1> QED BY <1>3, <1>4

(* A token that has just begun, or goes on. *)
LEMMA BeginKeeps ==
    ASSUME Lexed, At(pos) \notin {"lt", "gt", Eof},
           NEW place \in {"number", "comment", "word"}, NEW v \in Seq(Positions),
           place = "number" => v # <<>>, Goto(place, pos, v, pos + 1)
    PROVE  Lexed'
<1>1. text \in Seq(Symbol) /\ pos \in Nat \ {0} /\ Length \in Nat
  BY DEF Lexed, Length
<1>2. pos <= Length
  BY <1>1, Reading
<1>3. pos \in Positions /\ pos + 1 \in 1 .. Length + 2 /\ pos + 1 >= 2
  BY <1>1, <1>2 DEF Positions
<1>4. Between
  BY WhenBetween
<1> QED BY <1>3, <1>4, GotoKeeps

LEMMA ContinueKeeps ==
    ASSUME Lexed, pc # "build", NEW place \in {"number", "comment", "word", "double", "single"},
           NEW v \in Seq(Positions), place = "number" => v # <<>>,
           NEW next \in 2 .. Length + 2, Goto(place, start, v, next)
    PROVE  Lexed'
<1>1. start \in Positions /\ next \in 1 .. Length + 2 /\ next >= 2
  BY DEF Lexed
<1>2. Between
  BY WhenBetween
<1> QED BY <1>1, <1>2, GotoKeeps

LEMMA LexedNext == ASSUME Lexed, [Next]_vars PROVE Lexed'
<1>0. /\ text \in Seq(Symbol) /\ Length \in Nat /\ pos \in Nat /\ 1 <= pos
      /\ pos <= Length + 2 /\ start \in Positions /\ val \in Seq(Positions)
      /\ start \in 1 .. Length + 2 /\ <<>> \in Seq(Positions)
  BY DEF Lexed, Length, Positions
<1>a. ASSUME At(pos) # Eof
      PROVE  pos <= Length /\ pos \in Positions /\ pos + 1 \in 2 .. Length + 2
  <2>1. pos <= Length
    BY <1>0, <1>a, Reading
  <2> QED BY <1>0, <2>1 DEF Positions
<1>b. After(pos) \in 2 .. Length + 2
  BY <1>0, Reading
<1>c. ASSUME pc # "build", Cur # Eof
      PROVE  /\ pos - 1 \in Positions /\ pos \in Positions /\ pos - 1 \in 1 .. Length
             /\ pos \in 2 .. Length + 2
  <2>1. pos - 1 \in Nat \ {0}
    BY <1>0, <1>c DEF Lexed
  <2>2. pos - 1 <= Length
    BY <1>0, <1>c, <2>1, Reading DEF Cur
  <2> QED BY <1>0, <2>1, <2>2 DEF Positions
<1>d. pc # "build" => pos >= 2 /\ Between
  BY WhenBetween DEF Lexed
<1>1. CASE Skip
  <2>1. Goto("build", start, val, pos + 1) /\ At(pos) \in {"blank", "tab"}
    BY <1>1 DEF Skip
  <2> QED BY <1>0, <1>a, <2>1, WhenBetween, GotoKeeps DEF Eof
<1>2. CASE SimpleTok
  <2>1. pc = "build" /\ At(pos) \in {Eof, "nl", "semi"} /\ Emit(At(pos), <<>>, pos, After(pos))
    BY <1>2 DEF SimpleTok, Building
  <2>2. CASE At(pos) = Eof
    <3>1. After(pos) = Length + 2
      BY <1>0, <2>2, Reading
    <3>2. At(Length + 2) = Eof
      BY <1>0, Reading
    <3> QED BY <1>0, <2>1, <2>2, <3>1, <3>2, EndKeeps
  <2>3. CASE At(pos) \in {"nl", "semi"}
    BY <1>0, <1>b, <2>1, <2>3, WhenBetween, OperatorKeeps DEF Eof
  <2> QED BY <2>1, <2>2, <2>3
<1>3. CASE PipeTok \/ RedirOutTok \/ Ampersand
  BY <1>3, OneOrTwoKeeps DEF PipeTok, RedirOutTok, Ampersand
<1>4. CASE RedirInTok
  <2>1. At(pos) = "lt" /\ Emit("in", <<>>, pos, pos + 1)
    BY <1>4 DEF RedirInTok
  <2> QED BY <1>0, <1>a, <2>1, OperatorKeeps DEF Eof
<1>5. CASE Comment
  <2>1. At(pos) = "hash" /\ Goto("comment", pos, <<>>, pos + 1)
    BY <1>5 DEF Comment
  <2>2. At(pos) \notin {"lt", "gt", Eof}
    BY <2>1 DEF Eof
  <2> QED BY <1>0, <2>1, <2>2, BeginKeeps
<1>6. CASE CommentChar
  <2>1. pc = "comment" /\ Goto("comment", start, val, After(pos))
    BY <1>6 DEF CommentChar
  <2> QED BY <1>0, <1>b, <2>1, ContinueKeeps
<1>7. CASE CommentEnd
  <2>1. pc = "comment" /\ Cur \in {Eof, "nl"} /\ Emit(Cur, <<>>, pos - 1, pos)
    BY <1>7 DEF CommentEnd
  <2>2. pos - 1 \in 1 .. Length + 2 /\ pos \in 1 .. Length + 2
    BY <1>0, <1>d, <2>1
  <2>3. CASE Cur = Eof
    <3>1. At(pos) = Eof
      BY <1>0, <2>2, <2>3, Reading DEF Cur
    <3> QED BY <2>1, <2>2, <2>3, <3>1, EndKeeps
  <2>4. CASE Cur = "nl"
    BY <1>d, <2>1, <2>2, <2>4, OperatorKeeps
  <2> QED BY <2>1, <2>3, <2>4
<1>8. CASE Number
  <2>1. At(pos) = "digit" /\ Goto("number", pos, <<pos>>, pos + 1)
    BY <1>8 DEF Number
  <2>2. <<pos>> \in Seq(Positions) /\ <<pos>> # <<>>
    BY <1>a, <2>1 DEF Eof
  <2>3. At(pos) \notin {"lt", "gt", Eof}
    BY <2>1 DEF Eof
  <2> QED BY <2>1, <2>2, <2>3, BeginKeeps
<1>9. CASE Digit
  <2>1. pc = "number" /\ At(pos) = "digit" /\ Goto("number", start, Append(val, pos), pos + 1)
    BY <1>9 DEF Digit
  <2>2. Append(val, pos) \in Seq(Positions) /\ Append(val, pos) # <<>>
    BY <1>0, <1>a, <2>1 DEF Eof
  <2>3. pos + 1 \in 2 .. Length + 2 /\ pc # "build"
    BY <1>a, <2>1 DEF Eof
  <2> QED BY <2>1, <2>2, <2>3, ContinueKeeps
<1>10. CASE NumberEnd
  <2>1. pc = "number" /\ Emit(IF At(pos) \in {"lt", "gt"} THEN "nb" ELSE "word", val, start, pos)
    BY <1>10 DEF NumberEnd
  <2>2. val # <<>> /\ pos \in 1 .. Length + 2
    BY <1>0, <2>1 DEF Lexed
  <2>3. CASE At(pos) \in {"lt", "gt"}
    <3>1. Emit("nb", val, start, pos)
      BY <2>1, <2>3
    <3>2. "nb" \in Types /\ "nb" # Eof
      BY DEF Types, Eof
    <3> QED BY <1>0, <1>d, <2>1, <2>2, <2>3, <3>1, <3>2, EmitKeeps DEF Between
  <2>4. CASE At(pos) \notin {"lt", "gt"}
    BY <1>0, <1>d, <2>1, <2>2, <2>4, WordKeeps
  <2> QED BY <2>3, <2>4
<1>11. CASE ReadTok
  <2>1. At(pos) \in {"space", "dq", "sq", "bs", "bang", "dollar"} \cup Letter
        /\ Goto("word", pos, <<>>, pos + 1)
    BY <1>11 DEF ReadTok
  <2>2. At(pos) \notin {"lt", "gt", Eof}
    BY <2>1, LetterAssumption DEF Named, Eof
  <2> QED BY <1>0, <2>1, <2>2, BeginKeeps
<1>12. CASE WordEnd
  <2>1. pc = "word" /\ Emit("word", val, start, pos) /\ pos \in 1 .. Length + 2
    BY <1>0, <1>12 DEF WordEnd
  <2> QED BY <1>0, <1>d, <2>1, WordKeeps
<1>13. CASE Plain
  <2>1. pc = "word" /\ Cur # Eof /\ Further(Append(val, pos - 1), pos)
    BY <1>13 DEF Plain, Stops
  <2>2. Append(val, pos - 1) \in Seq(Positions)
    BY <1>0, <1>c, <2>1
  <2> QED BY <1>c, <2>1, <2>2, FurtherKeeps
<1>14. CASE Backslash
  <2> DEFINE v == IF At(pos) = "nl" THEN val ELSE Append(val, pos)
  <2>1. pc = "word" /\ Cur = "bs" /\ Further(v, After(pos))
    BY <1>14 DEF Backslash
  <2>2. v \in Seq(Positions)
    BY <1>0, <1>c, <2>1 DEF Eof
  <2> HIDE DEF v
  <2> QED BY <1>b, <2>1, <2>2, FurtherKeeps
<1>15. CASE OpenQuote
  <2> DEFINE place == IF Cur = "dq" THEN "double" ELSE "single"
  <2>1. pc = "word" /\ Goto(place, start, val, After(pos))
    BY <1>15 DEF OpenQuote
  <2>2. place \in {"double", "single"}
    OBVIOUS
  <2> HIDE DEF place
  <2> QED BY <1>0, <1>b, <2>1, <2>2, ContinueKeeps
<1>16. CASE DoubleEscape
  <2>1. /\ pc = "double" /\ Cur = "bs" /\ val' = val \o Escaped(pos)
        /\ marked' = IF At(pos) = "dollar" THEN marked \cup {pos} ELSE marked
        /\ pos' = After(After(pos))
        /\ UNCHANGED <<text, pc, start, toks>>
    BY <1>16 DEF DoubleEscape
  <2>2. Escaped(pos) \in Seq(Positions)
    BY <1>c, <2>1 DEF Escaped, Eof
  <2>3. val' \in Seq(Positions)
    BY <1>0, <2>1, <2>2
  <2>4. pos' \in 2 .. Length + 2
    <3>1. After(pos) \in Nat \ {0} /\ After(pos) <= Length + 2
      BY <1>0, <1>b
    <3>2. After(After(pos)) = IF After(pos) <= Length THEN After(pos) + 1 ELSE Length + 2
      BY <1>0, <3>1, Reading
    <3> QED BY <1>0, <2>1, <3>1, <3>2
  <2>5. marked' \subseteq 1 .. Length
    BY <1>0, <1>a, <2>1 DEF Lexed, Eof
  <2>6. Length' = Length /\ Positions' = Positions /\ Token' = Token /\ Newest' = Newest
    BY <2>1 DEF Length, Positions, Token, Newest
  <2>7. Handover' /\ TokensForParser'
    BY <1>d, <2>1, <2>6 DEF Lexed, Between, Handover, TokensForParser
  <2> QED BY <2>1, <2>3, <2>4, <2>5, <2>6, <2>7 DEF Lexed
<1>17. CASE DoubleChar \/ SingleChar
  <2>1. /\ pc # "build" /\ Cur # Eof
        /\ \/ Goto("double", start, Append(val, pos - 1), After(pos))
           \/ Goto("single", start, Append(val, pos - 1), After(pos))
    BY <1>17 DEF DoubleChar, SingleChar
  <2>2. Append(val, pos - 1) \in Seq(Positions)
    BY <1>0, <1>c, <2>1
  <2> QED BY <1>b, <2>1, <2>2, ContinueKeeps
<1>18. CASE DoubleEnd \/ SingleEnd
  <2>1. pc # "build" /\ Goto("word", start, val, After(pos))
    BY <1>18 DEF DoubleEnd, SingleEnd
  <2> QED BY <1>0, <1>b, <2>1, ContinueKeeps
<1>19. CASE UNCHANGED vars
  BY <1>19 DEF vars, Lexed, Length, Positions, Token, Newest, Handover, TokensForParser, At
<1> QED
  BY <1>1, <1>2, <1>3, <1>4, <1>5, <1>6, <1>7, <1>8, <1>9, <1>10, <1>11, <1>12,
     <1>13, <1>14, <1>15, <1>16, <1>17, <1>18, <1>19 DEF Next

LEMMA AlwaysLexed == Spec => []Lexed
BY LexedInit, LexedNext, PTL DEF Spec

(* Positions never run behind the end of the input, operators carry no     *)
(* text and numbers at least a digit (lexer.c:64, 239), for every input.   *)
THEOREM TypeCorrect == Spec => []TypeOK
<1>1. ASSUME Lexed PROVE TypeOK
  <2>1. ASSUME NEW n \in DOMAIN toks
        PROVE  /\ toks[n].type \in Types
               /\ toks[n].at \in 1 .. Length + 2
               /\ toks[n].val \in Seq(Positions)
               /\ Formed(toks[n])
    <3>1. toks[n] \in Token
      BY <1>1 DEF Lexed
    <3> QED BY <1>1, <3>1 DEF Lexed, Token
  <2> QED BY <1>1, <2>1 DEF Lexed, TypeOK, Formed, Types, Positions
<1> QED BY AlwaysLexed, <1>1, PTL

(* What the parser builds on holds for every input: a number is only there *)
(* in front of the operator it belongs to, and the end is the end          *)
(* (lexer.c:247, parser.c:485).                                            *)
THEOREM NumbersBelong == Spec => []TokensForParser
<1>1. Lexed => TokensForParser
  BY DEF Lexed
<1> QED BY AlwaysLexed, <1>1, PTL

-----------------------------------------------------------------------------
(* Mode is what its definition says, for a text of any length. *)

LEMMA Least ==
    ASSUME NEW S \in SUBSET Nat, S # {}
    PROVE  \E m \in S : \A n \in S : m <= n
<1> DEFINE R == {ss \in Nat \X Nat : ss[1] < ss[2]}
<1>1. IsWellFoundedOn(R, Nat)
  BY NatLessThanWellFounded, Zenon DEF OpToRel
<1> HIDE DEF R
<1>2. PICK m \in S : \A n \in S : ~(<<n, m>> \in R)
  BY <1>1, WFMin
<1>3. ASSUME NEW n \in S PROVE m <= n
  <2>1. m \in Nat /\ n \in Nat
    OBVIOUS
  <2>2. n < m => <<n, m>> \in R
    BY <2>1 DEF R
  <2>3. ~(n < m)
    BY <1>2, <2>2, Zenon
  <2> QED BY <2>1, <2>3
<1> QED BY <1>3

ModeNames == {"plain", "double", "single", "escape", "double escape"}

LEMMA TurnType == \A m \in ModeNames : \A c : Turn(m, c) \in ModeNames
<1> SUFFICES ASSUME NEW m \in ModeNames, NEW c PROVE Turn(m, c) \in ModeNames
  OBVIOUS
<1> QED BY DEF Turn, ModeNames

(* There is such a reading: one up to each character, by a step from the   *)
(* one before.                                                             *)
LEMMA ModeIs ==
    ASSUME text \in Seq(Symbol)
    PROVE  /\ Length \in Nat
           /\ Mode \in [0 .. Length -> ModeNames]
           /\ Mode[0] = "plain"
           /\ \A p \in 1 .. Length : Mode[p] = Turn(Mode[p - 1], text[p])
<1>0. Length \in Nat /\ "plain" \in ModeNames
  BY DEF Length, ModeNames
<1> DEFINE Reads(f) == f = [p \in 0 .. Length |->
                               IF p = 0 THEN "plain" ELSE Turn(f[p - 1], text[p])]
           Upto(f, n) == f[0] = "plain" /\ \A u \in 1 .. n : f[u] = Turn(f[u - 1], text[u])
           Missing == {n \in 0 .. Length : ~\E f \in [0 .. n -> ModeNames] : Upto(f, n)}
<1>1. Missing = {}
  <2> SUFFICES ASSUME Missing # {} PROVE FALSE
    OBVIOUS
  <2>0. Missing \in SUBSET Nat
    BY <1>0
  <2>1. PICK m \in Missing : \A n \in Missing : m <= n
    BY <2>0, Least, Zenon
  <2>2. m # 0
    <3> DEFINE z0 == [u \in 0 .. 0 |-> "plain"]
    <3>1. z0 \in [0 .. 0 -> ModeNames] /\ Upto(z0, 0)
      BY <1>0
    <3> HIDE DEF z0, Upto
    <3>2. 0 \notin Missing
      BY <3>1
    <3> QED BY <2>1, <3>2
  <2>3. m - 1 \in 0 .. Length /\ m - 1 \notin Missing /\ m \in 1 .. Length
    <3>1. m \in 1 .. Length
      BY <1>0, <2>1, <2>2
    <3> HIDE DEF Missing
    <3>2. m - 1 \notin Missing
      BY <1>0, <2>0, <2>1, <3>1
    <3> QED BY <1>0, <3>1, <3>2
  <2>4. PICK f \in [0 .. m - 1 -> ModeNames] : Upto(f, m - 1)
    BY <2>3, Zenon
  <2> DEFINE h == [u \in 0 .. m |-> IF u = m THEN Turn(f[m - 1], text[m]) ELSE f[u]]
  <2>5. h \in [0 .. m -> ModeNames]
    <3>1. f[m - 1] \in ModeNames
      BY <2>3
    <3>2. Turn(f[m - 1], text[m]) \in ModeNames
      BY <3>1, TurnType
    <3>3. \A u \in 0 .. m : u # m => f[u] \in ModeNames
      BY <2>3
    <3> QED BY <3>2, <3>3
  <2>6. h[0] = "plain"
    BY <2>2, <2>3, <2>4
  <2>7. ASSUME NEW u \in 1 .. m PROVE h[u] = Turn(h[u - 1], text[u])
    <3>1. u - 1 \in 0 .. m /\ u - 1 # m /\ u \in 0 .. m
      BY <2>3
    <3>2. h[u - 1] = f[u - 1]
      BY <3>1
    <3>3. CASE u = m
      BY <3>1, <3>2, <3>3
    <3>4. CASE u # m
      <4>1. u \in 1 .. m - 1 /\ h[u] = f[u]
        BY <2>3, <3>1, <3>4
      <4> QED BY <2>4, <3>2, <4>1
    <3> QED BY <3>3, <3>4
  <2>8. Upto(h, m)
    BY <2>6, <2>7
  <2> HIDE DEF h, Upto
  <2>9. m \notin Missing
    BY <2>5, <2>8
  <2> QED BY <2>1, <2>9
<1>2. PICK f \in [0 .. Length -> ModeNames] : Upto(f, Length)
  <2>1. Length \in 0 .. Length
    BY <1>0
  <2>2. Length \notin Missing
    BY <1>1, Zenon
  <2> HIDE DEF Upto
  <2> QED BY <2>1, <2>2
<1>3. Reads(f)
  <2>1. \A n \in 0 .. Length : n # 0 => n \in 1 .. Length
    BY <1>0
  <2>2. \A n \in 0 .. Length :
            f[n] = IF n = 0 THEN "plain" ELSE Turn(f[n - 1], text[n])
    BY <1>2, <2>1
  <2> QED BY <2>2
<1>4. Mode = CHOOSE h : Reads(h)
  BY Zenon DEF Mode
<1>5. Reads(Mode)
  BY <1>3, <1>4, Zenon
<1> HIDE DEF Mode
<1>6. \A p \in 1 .. Length : p \in 0 .. Length /\ p # 0
  BY <1>0
<1>7. Mode[0] = "plain" /\ \A p \in 1 .. Length : Mode[p] = Turn(Mode[p - 1], text[p])
  BY <1>0, <1>5, <1>6
<1> DEFINE Odd == {p \in 0 .. Length : Mode[p] \notin ModeNames}
<1>8. Odd = {}
  <2> SUFFICES ASSUME Odd # {} PROVE FALSE
    OBVIOUS
  <2>1. PICK m \in Odd : \A n \in Odd : m <= n
    <3>1. Odd \in SUBSET Nat
      BY <1>0
    <3> QED BY <3>1, Least, Zenon
  <2>2. m \in 1 .. Length /\ m - 1 \in 0 .. Length
    <3>1. "plain" \in ModeNames
      BY DEF ModeNames
    <3>2. m # 0 /\ m \in 0 .. Length
      BY <1>7, <2>1, <3>1
    <3> QED BY <1>0, <3>2
  <2>3. Mode[m - 1] \in ModeNames
    BY <1>0, <2>1, <2>2
  <2> QED BY <1>7, <2>1, <2>2, <2>3, TurnType
<1>9. Mode \in [0 .. Length -> ModeNames]
  <2>1. \A p \in 0 .. Length : Mode[p] \in ModeNames
    BY <1>8
  <2>2. Mode = [p \in 0 .. Length |-> Mode[p]]
    BY <1>5
  <2> QED BY <2>1, <2>2
<1> QED BY <1>0, <1>7, <1>9
-----------------------------------------------------------------------------
(* Between the text and the tokens.  Read is how many characters have been *)
(* dealt with: in the middle of a word, the one taken last is still to be  *)
(* looked at.                                                              *)
Read == IF pc \in {"build", "number"} THEN pos - 1 ELSE pos - 2

(* Which characters each loop stands at, for texts without a comment. *)
Placed ==
    /\ pc # "comment"
    /\ pc = "build" => val = <<>>
    /\ pos <= Length + 1 =>
          /\ pc \in {"build", "number"} => Mode[pos - 1] = "plain"
          /\ pc = "word" => Mode[pos - 2] = "plain"
          /\ pc \in {"double", "single"} => Mode[pos - 2] = pc
    /\ pc # "build" => start <= Length /\ start < pos /\ IsPlain(start)
    /\ pc \in {"double", "single"} => start < pos - 1
    /\ pc = "number" => text[start] = "digit"
    /\ pc = "word" /\ pos <= Length + 1 /\ text[pos - 1] \in Operator =>
          pos > 2 /\ Closes(pos - 2)

(* Tokens lie in what has been read. *)
Behind ==
    \A n \in DOMAIN toks :
        IF toks[n].type = Eof THEN toks[n].at > Length /\ pos = Length + 2
        ELSE /\ toks[n].at <= Length
             /\ IF IsWord(toks[n]) THEN toks[n].at <= Read
                ELSE toks[n].at + Width(toks[n]) - 1 <= Read

(* The values of the tokens, the unfinished one last. *)
Values == [n \in 1 .. Len(toks) + 1 |-> IF n <= Len(toks) THEN toks[n].val ELSE val]
Has(p) == \E n \in DOMAIN Values : p \in ToSet(Values[n])

Collected ==
    /\ \A p \in Places : p <= Read => (Belongs(p) <=> Has(p))
    /\ \A p \in Positions : Has(p) => p <= Read \/ pos = Length + 2
    /\ \A n, m \in DOMAIN Values :
          \A i \in DOMAIN Values[n], j \in DOMAIN Values[m] :
              n < m \/ (n = m /\ i < j) => Values[n][i] < Values[m][j]
    /\ pc # "build" =>
          \A n \in DOMAIN toks : \A p \in ToSet(toks[n].val) : p < start

HeldTogether ==
    \A p \in Places :
        p + 1 <= Length /\ p + 1 <= Read /\ Inside(p) /\ Inside(p + 1) =>
            \E n \in DOMAIN Values : {p, p + 1} \subseteq ToSet(Values[n])

(* What parts a word from the place behind it. *)
Parted(t, to) ==
    \/ \E p \in t.at .. to : p <= Length /\ IsPlain(p) /\ text[p] \in White \cup Operator
    \/ text[t.at] \in {"digit", "amp"}

Cut ==
    /\ \A n \in 1 .. Len(toks) - 1 :
          IsWord(toks[n]) /\ IsWord(toks[n + 1]) =>
              Parted(toks[n], toks[n + 1].at) \/ text[toks[n + 1].at] = "bang"
    /\ toks # <<>> /\ IsWord(Newest) =>
          IF pc = "build" THEN Parted(Newest, pos - 1) \/ At(pos) \in StopsBefore
          ELSE Parted(Newest, start) \/ text[start] = "bang"

Found ==
    \A p \in Places : p <= Read /\ IsPlain(p) /\ text[p] \in Operator =>
        Spanned(p) \/ (p > 1 /\ Closes(p - 1))

Understood == NoHash => Placed /\ Behind /\ Collected /\ HeldTogether /\ Cut /\ Found

(* What each mode makes of a character. *)
LEMMA Turns ==
    ASSUME text \in Seq(Symbol), NEW p \in Places
    PROVE  /\ text[p] \in Symbol /\ At(p) = text[p] /\ p - 1 \in 0 .. Length
           /\ Mode[p - 1] \in ModeNames /\ Mode[p] \in ModeNames
           /\ Mode[p - 1] = "plain" =>
                 Mode[p] = IF text[p] = "dq" THEN "double"
                           ELSE IF text[p] = "sq" THEN "single"
                           ELSE IF text[p] = "bs" THEN "escape" ELSE "plain"
           /\ Mode[p - 1] = "double" =>
                 Mode[p] = IF text[p] = "bs" THEN "double escape"
                           ELSE IF text[p] = "dq" THEN "plain" ELSE "double"
           /\ Mode[p - 1] = "single" =>
                 Mode[p] = IF text[p] = "sq" THEN "plain" ELSE "single"
           /\ Mode[p - 1] = "escape" => Mode[p] = "plain"
           /\ Mode[p - 1] = "double escape" => Mode[p] = "double"
<1>1. Length \in Nat /\ text \in [1 .. Length -> Symbol]
  BY DEF Length
<1>2. p \in 1 .. Length /\ p - 1 \in 0 .. Length /\ p \in 0 .. Length
  BY <1>1 DEF Places
<1>3. text[p] \in Symbol /\ At(p) = text[p]
  BY <1>1, <1>2 DEF At
<1>4. /\ Mode[p - 1] \in ModeNames /\ Mode[p] \in ModeNames
      /\ Mode[p] = Turn(Mode[p - 1], text[p])
  BY <1>2, ModeIs
<1> HIDE DEF Mode
<1>5. /\ Mode[p - 1] = "plain" =>
            Mode[p] = IF text[p] = "dq" THEN "double"
                      ELSE IF text[p] = "sq" THEN "single"
                      ELSE IF text[p] = "bs" THEN "escape" ELSE "plain"
      /\ Mode[p - 1] = "double" =>
            Mode[p] = IF text[p] = "bs" THEN "double escape"
                      ELSE IF text[p] = "dq" THEN "plain" ELSE "double"
      /\ Mode[p - 1] = "single" =>
            Mode[p] = IF text[p] = "sq" THEN "plain" ELSE "single"
      /\ Mode[p - 1] = "escape" => Mode[p] = "plain"
      /\ Mode[p - 1] = "double escape" => Mode[p] = "double"
  BY <1>4 DEF Turn
<1> QED BY <1>2, <1>3, <1>4, <1>5

(* Which characters belong to words, by the mode in front of them. *)
WordChar == {"amp", "digit", "bang", "dollar"} \cup Letter

LEMMA WhoBelongs ==
    ASSUME text \in Seq(Symbol), NEW p \in Places
    PROVE  /\ Mode[p - 1] = "plain" => (Belongs(p) <=> text[p] \in WordChar /\ ~Spanned(p))
           /\ Mode[p - 1] = "double" =>
                 (Belongs(p) <=> IF text[p] = "bs" THEN p < Length /\ text[p + 1] = "blank"
                                 ELSE text[p] # "dq")
           /\ Mode[p - 1] = "single" => (Belongs(p) <=> text[p] # "sq")
           /\ Mode[p - 1] \in {"escape", "double escape"} => (Belongs(p) <=> text[p] # "nl")
           /\ Inside(p) <=> \/ Mode[p - 1] = "double" /\ text[p] \notin {"bs", "dq"}
                            \/ Mode[p - 1] = "single" /\ text[p] # "sq"
           /\ Closes(p) <=> \/ Mode[p - 1] = "double" /\ text[p] = "dq"
                            \/ Mode[p - 1] = "single" /\ text[p] = "sq"
<1>1. \A c \in WordChar : c \notin {"dq", "sq", "bs"}
  BY LetterAssumption DEF WordChar, Named
<1>2. /\ Inside(p) <=> \/ Mode[p - 1] = "double" /\ text[p] \notin {"bs", "dq"}
                       \/ Mode[p - 1] = "single" /\ text[p] # "sq"
      /\ Closes(p) <=> \/ Mode[p - 1] = "double" /\ text[p] = "dq"
                       \/ Mode[p - 1] = "single" /\ text[p] = "sq"
  BY Turns DEF Inside, Closes
<1>3. KeptBackslash(p) <=>
          /\ Mode[p - 1] = "double" /\ text[p] = "bs"
          /\ p < Length /\ text[p + 1] = "blank"
  BY Turns DEF KeptBackslash, ModeNames
<1>4. Belongs(p) <=>
          \/ Inside(p)
          \/ Mode[p - 1] \in {"escape", "double escape"} /\ text[p] # "nl"
          \/ KeptBackslash(p)
          \/ Mode[p - 1] = "plain" /\ text[p] \in WordChar /\ ~Spanned(p)
  BY DEF Belongs, IsEscaped, IsPlain, WordChar
<1> QED BY <1>1, <1>2, <1>3, <1>4

LEMMA SameText ==
    ASSUME text' = text
    PROVE  /\ Length' = Length /\ Places' = Places /\ Positions' = Positions
           /\ Mode' = Mode /\ NoHash' = NoHash
           /\ \A p : /\ At(p)' = At(p) /\ IsPlain(p)' = IsPlain(p)
                     /\ Inside(p)' = Inside(p) /\ Closes(p)' = Closes(p)
                     /\ IsEscaped(p)' = IsEscaped(p)
                     /\ KeptBackslash(p)' = KeptBackslash(p)
<1>1. Length' = Length
  BY DEF Length
<1>2. Mode' = Mode
  BY <1>1 DEF Mode
<1> HIDE DEF Mode
<1> QED BY <1>1, <1>2 DEF Places, Positions, NoHash, At, IsPlain, Inside, Closes, IsEscaped,
                          KeptBackslash
-----------------------------------------------------------------------------
(* A step that deals with the characters behind Read, and keeps ks of them *)
(* in the value.                                                           *)
New(p, ks) ==
    /\ p \in ToSet(ks) <=> Belongs(p)'
    /\ IsPlain(p) /\ text[p] \in Operator => Spanned(p)' \/ (p > 1 /\ Closes(p - 1))
    /\ Inside(p) => /\ p = Read + 1 /\ p \in ToSet(ks)
                    /\ pc \in {"double", "single"} /\ toks' = toks

Made(t) ==
    /\ t \in Token
    /\ IF t.type = Eof THEN t.at > Length /\ pos' = Length + 2
       ELSE /\ t.at <= Length
            /\ IF IsWord(t) THEN t.at <= Read'
               ELSE Read < t.at /\ t.at + Width(t) - 1 <= Read'

Takes(ks) ==
    /\ text' = text
    /\ ks \in Seq(Positions)
    /\ \A i, j \in DOMAIN ks : i < j => ks[i] < ks[j]
    /\ Read' \in Int /\ Read <= Read'
    /\ pos = Length + 2 => pos' = Length + 2 /\ ks = <<>>
    /\ \A i \in DOMAIN ks : Read < ks[i] /\ (ks[i] <= Read' \/ pos' = Length + 2)
    /\ \A p \in Places : Read < p /\ p <= Read' => New(p, ks)
    /\ \/ /\ toks' = toks /\ val' = val \o ks
          /\ pc' # "build" => start' = IF pc = "build" THEN pos ELSE start
       \/ /\ pc' = "build" /\ val' = <<>>
          /\ \E t : toks' = Append(toks, t) /\ t.val = val \o ks /\ Made(t)

LEMMA ValuesGrow ==
    ASSUME Lexed, NEW ks, Takes(ks)
    PROVE  /\ Len(toks) \in Nat /\ DOMAIN toks = 1 .. Len(toks)
           /\ \A n \in DOMAIN toks : toks[n] \in Token
           /\ DOMAIN Values = 1 .. Len(toks) + 1
           /\ \A n \in 1 .. Len(toks) : Values[n] = toks[n].val
           /\ Values[Len(toks) + 1] = val
           /\ 1 .. Len(toks) + 1 \subseteq DOMAIN Values'
           /\ \A n \in 1 .. Len(toks) : Values'[n] = Values[n]
           /\ Values'[Len(toks) + 1] = val \o ks
           /\ \A n \in DOMAIN Values' : n \in 1 .. Len(toks) + 1 \/ Values'[n] = <<>>
<1> DEFINE N == Len(toks)
<1>1. /\ toks \in Seq(Token) /\ N \in Nat /\ DOMAIN toks = 1 .. N
      /\ \A n \in DOMAIN toks : toks[n] \in Token
  BY DEF Lexed
<1>2. /\ DOMAIN Values = 1 .. N + 1 /\ Values[N + 1] = val
      /\ \A n \in 1 .. N : Values[n] = toks[n].val
  BY <1>1 DEF Values
<1>3. /\ DOMAIN Values' = 1 .. Len(toks') + 1
      /\ \A n \in 1 .. Len(toks') + 1 :
            Values'[n] = IF n <= Len(toks') THEN toks'[n].val ELSE val'
  BY DEF Values
<1>4. ASSUME toks' = toks, val' = val \o ks
      PROVE  /\ 1 .. N + 1 \subseteq DOMAIN Values'
             /\ \A n \in 1 .. N : Values'[n] = Values[n]
             /\ Values'[N + 1] = val \o ks
             /\ \A n \in DOMAIN Values' : n \in 1 .. N + 1 \/ Values'[n] = <<>>
  <2>1. DOMAIN Values' = 1 .. N + 1
    BY <1>3, <1>4
  <2>2. \A n \in 1 .. N : n \in 1 .. N + 1 /\ n <= N
    BY <1>1
  <2>3. N + 1 \in 1 .. N + 1 /\ ~(N + 1 <= N)
    BY <1>1
  <2> HIDE DEF N
  <2>4. \A n \in 1 .. N : Values'[n] = Values[n]
    BY <1>2, <1>3, <1>4, <2>1, <2>2 DEF N
  <2>5. Values'[N + 1] = val \o ks
    BY <1>3, <1>4, <2>3 DEF N
  <2> QED BY <2>1, <2>4, <2>5
<1>5. ASSUME NEW t, toks' = Append(toks, t), t.val = val \o ks, val' = <<>>, t \in Token
      PROVE  /\ 1 .. N + 1 \subseteq DOMAIN Values'
             /\ \A n \in 1 .. N : Values'[n] = Values[n]
             /\ Values'[N + 1] = val \o ks
             /\ \A n \in DOMAIN Values' : n \in 1 .. N + 1 \/ Values'[n] = <<>>
  <2>1. /\ Len(toks') = N + 1 /\ toks'[N + 1] = t
        /\ \A n \in 1 .. N : toks'[n] = toks[n]
    BY <1>1, <1>5
  <2>2. DOMAIN Values' = 1 .. N + 2
    BY <1>1, <1>3, <2>1
  <2>3. ASSUME NEW n \in 1 .. N PROVE Values'[n] = Values[n]
    BY <1>1, <1>2, <1>3, <2>1
  <2>4. Values'[N + 1] = val \o ks
    <3>1. /\ N + 1 \in 1 .. Len(toks') + 1 /\ N + 1 <= Len(toks')
      BY <1>1, <2>1
    <3>2. Values'[N + 1] = toks'[N + 1].val
      BY <1>3, <3>1
    <3> QED BY <1>5, <2>1, <3>2
  <2>5. \A n \in 1 .. N + 2 : n \in 1 .. N + 1 \/ (n = N + 2 /\ ~(n <= N + 1))
    BY <1>1
  <2>6. \A n \in 1 .. N + 2 : n \in 1 .. N + 1 \/ Values'[n] = <<>>
    BY <1>3, <1>5, <2>1, <2>2, <2>5
  <2>7. 1 .. N + 1 \subseteq 1 .. N + 2
    BY <1>1
  <2> QED BY <2>2, <2>3, <2>4, <2>6, <2>7
<1>6. \/ toks' = toks /\ val' = val \o ks
      \/ \E t : toks' = Append(toks, t) /\ t.val = val \o ks /\ val' = <<>> /\ t \in Token
  BY DEF Takes, Made
<1> QED BY <1>1, <1>2, <1>4, <1>5, <1>6

LEMMA HasGrows ==
    ASSUME Lexed, NEW ks, Takes(ks), NEW p
    PROVE  Has(p)' <=> Has(p) \/ p \in ToSet(ks)
<1> DEFINE N == Len(toks)
<1>1. val \in Seq(Positions) /\ ks \in Seq(Positions)
  BY DEF Lexed, Takes
<1>2. ToSet(val \o ks) = ToSet(val) \cup ToSet(ks)
  <2>1. /\ Len(val \o ks) = Len(val) + Len(ks) /\ Len(val) \in Nat /\ Len(ks) \in Nat
        /\ \A i \in 1 .. Len(val) : (val \o ks)[i] = val[i]
        /\ \A i \in 1 .. Len(ks) : (val \o ks)[Len(val) + i] = ks[i]
        /\ DOMAIN (val \o ks) = 1 .. Len(val) + Len(ks)
        /\ DOMAIN val = 1 .. Len(val) /\ DOMAIN ks = 1 .. Len(ks)
    BY <1>1
  <2>2. ASSUME NEW x \in ToSet(val \o ks) PROVE x \in ToSet(val) \cup ToSet(ks)
    <3>1. PICK i \in 1 .. Len(val) + Len(ks) : x = (val \o ks)[i]
      BY <2>1 DEF ToSet
    <3>2. CASE i <= Len(val)
      BY <2>1, <3>1, <3>2 DEF ToSet
    <3>3. CASE ~(i <= Len(val))
      <4>1. i - Len(val) \in 1 .. Len(ks) /\ Len(val) + (i - Len(val)) = i
        BY <2>1, <3>3
      <4>2. x = ks[i - Len(val)]
        BY <2>1, <3>1, <4>1
      <4> QED BY <2>1, <4>1, <4>2 DEF ToSet
    <3> QED BY <3>2, <3>3
  <2>3. ASSUME NEW x \in ToSet(val) PROVE x \in ToSet(val \o ks)
    <3>1. PICK i \in 1 .. Len(val) : x = val[i]
      BY <2>1 DEF ToSet
    <3>2. i \in 1 .. Len(val) + Len(ks)
      BY <2>1
    <3> QED BY <2>1, <3>1, <3>2 DEF ToSet
  <2>4. ASSUME NEW x \in ToSet(ks) PROVE x \in ToSet(val \o ks)
    <3>1. PICK i \in 1 .. Len(ks) : x = ks[i]
      BY <2>1 DEF ToSet
    <3>2. Len(val) + i \in 1 .. Len(val) + Len(ks)
      BY <2>1
    <3> QED BY <2>1, <3>1, <3>2 DEF ToSet
  <2> QED BY <2>2, <2>3, <2>4
<1>3. ToSet(<<>>) = {}
  BY DEF ToSet
<1>4. /\ N \in Nat /\ DOMAIN Values = 1 .. N + 1 /\ 1 .. N + 1 \subseteq DOMAIN Values'
      /\ \A n \in 1 .. N : Values'[n] = Values[n]
      /\ Values[N + 1] = val /\ Values'[N + 1] = val \o ks
      /\ \A n \in DOMAIN Values' : n \in 1 .. N + 1 \/ Values'[n] = <<>>
  BY ValuesGrow
<1>5. \A n \in 1 .. N + 1 : n \in 1 .. N \/ n = N + 1
  BY <1>4
<1>6. N + 1 \in 1 .. N + 1 /\ 1 .. N \subseteq 1 .. N + 1
  BY <1>4
<1> HIDE DEF N
<1>7. ASSUME NEW n \in DOMAIN Values', p \in ToSet(Values'[n])
      PROVE  Has(p) \/ p \in ToSet(ks)
  <2>1. n \in 1 .. N \/ n = N + 1
    BY <1>3, <1>4, <1>5, <1>7
  <2>2. CASE n \in 1 .. N
    BY <1>4, <1>6, <1>7, <2>2 DEF Has
  <2>3. CASE n = N + 1
    BY <1>2, <1>4, <1>6, <1>7, <2>3 DEF Has
  <2> QED BY <2>1, <2>2, <2>3
<1>8. ASSUME NEW n \in DOMAIN Values, p \in ToSet(Values[n])
      PROVE  \E m \in DOMAIN Values' : p \in ToSet(Values'[m])
  <2>1. CASE n \in 1 .. N
    BY <1>4, <1>6, <1>8, <2>1
  <2>2. CASE n = N + 1
    BY <1>2, <1>4, <1>6, <1>8, <2>2
  <2> QED BY <1>4, <1>5, <2>1, <2>2
<1>9. ASSUME p \in ToSet(ks) PROVE \E m \in DOMAIN Values' : p \in ToSet(Values'[m])
  BY <1>2, <1>4, <1>6, <1>9
<1> QED BY <1>7, <1>8, <1>9 DEF Has

LEMMA SpannedStays ==
    ASSUME Lexed, NEW ks, Takes(ks), NEW p \in Places
    PROVE  /\ Spanned(p) => Spanned(p)'
           /\ p <= Read => (Spanned(p)' <=> Spanned(p))
<1>1. toks \in Seq(Token) /\ Length \in Nat /\ p \in Nat /\ p <= Length
  BY DEF Lexed, Length, Places
<1>2. CASE toks' = toks
  BY <1>2 DEF Spanned
<1>3. ASSUME NEW t, toks' = Append(toks, t), Made(t)
      PROVE  /\ Spanned(p) => Spanned(p)'
             /\ p <= Read => (Spanned(p)' <=> Spanned(p))
  <2>1. /\ DOMAIN toks = 1 .. Len(toks) /\ DOMAIN toks' = 1 .. Len(toks) + 1
        /\ toks'[Len(toks) + 1] = t /\ \A n \in 1 .. Len(toks) : toks'[n] = toks[n]
        /\ Len(toks) \in Nat
    BY <1>1, <1>3
  <2>2. \A n \in 1 .. Len(toks) + 1 : n \in 1 .. Len(toks) \/ n = Len(toks) + 1
    BY <2>1
  <2>3. 1 .. Len(toks) \subseteq 1 .. Len(toks) + 1
    BY <2>1
  <2>4. Spanned(p) => Spanned(p)'
    BY <2>1, <2>3 DEF Spanned
  <2>5. ASSUME p <= Read, ~IsWord(t), p \in Span(t) PROVE FALSE
    <3>1. p \in t.at .. t.at + Width(t) - 1
      BY <2>5 DEF Span
    <3>2. t.at \in Nat /\ Width(t) \in {1, 2}
      BY <1>1, <1>3 DEF Made, Token, Width
    <3>3. t.at <= p
      BY <3>1, <3>2
    <3>4. Read \in Int
      BY DEF Lexed, Read
    <3>5. t.at > Length \/ Read < t.at
      BY <1>3, <2>5 DEF Made
    <3> QED BY <1>1, <2>5, <3>2, <3>3, <3>4, <3>5
  <2>6. p <= Read /\ Spanned(p)' => Spanned(p)
    BY <2>1, <2>2, <2>5 DEF Spanned
  <2> QED BY <2>4, <2>6
<1> QED BY <1>2, <1>3 DEF Takes

LEMMA BelongsStays ==
    ASSUME Lexed, NEW ks, Takes(ks), NEW p \in Places, p <= Read
    PROVE  Belongs(p)' <=> Belongs(p)
<1>1. Spanned(p)' <=> Spanned(p)
  BY SpannedStays
<1>2. text' = text
  BY DEF Takes
<1>3. /\ Inside(p)' = Inside(p) /\ IsEscaped(p)' = IsEscaped(p)
      /\ KeptBackslash(p)' = KeptBackslash(p) /\ IsPlain(p)' = IsPlain(p)
  BY <1>2, SameText
<1> QED BY <1>1, <1>2, <1>3, Zenon DEF Belongs

LEMMA BehindNext == ASSUME Lexed, Behind, NEW ks, Takes(ks) PROVE Behind'
<1> DEFINE Ok(t) ==
        IF t.type = Eof THEN t.at > Length /\ pos' = Length + 2
        ELSE /\ t.at <= Length
             /\ IF IsWord(t) THEN t.at <= Read'
                ELSE t.at + Width(t) - 1 <= Read'
<1>1. /\ toks \in Seq(Token) /\ Length \in Nat /\ Length' = Length
      /\ Read \in Int /\ Read' \in Int /\ Read <= Read'
      /\ pos = Length + 2 => pos' = Length + 2
  BY SameText DEF Lexed, Length, Read, Takes
<1>2. /\ DOMAIN toks = 1 .. Len(toks) /\ Len(toks) \in Nat
      /\ \A n \in DOMAIN toks : toks[n] \in Token
  BY <1>1
<1>3. ASSUME NEW n \in DOMAIN toks PROVE Ok(toks[n])
  <2>1. toks[n].at \in Nat /\ Width(toks[n]) \in {1, 2}
    BY <1>1, <1>2 DEF Token, Width
  <2>2. IF toks[n].type = Eof THEN toks[n].at > Length /\ pos = Length + 2
        ELSE /\ toks[n].at <= Length
             /\ IF IsWord(toks[n]) THEN toks[n].at <= Read
                ELSE toks[n].at + Width(toks[n]) - 1 <= Read
    BY DEF Behind
  <2> QED BY <1>1, <2>1, <2>2
<1>4. ASSUME NEW n \in DOMAIN toks' PROVE Ok(toks'[n])
  <2>1. CASE toks' = toks
    BY <1>3, <2>1
  <2>2. ASSUME NEW t, toks' = Append(toks, t), Made(t) PROVE Ok(toks'[n])
    <3>1. CASE n \in 1 .. Len(toks)
      <4>1. toks'[n] = toks[n]
        BY <1>1, <2>2, <3>1
      <4> HIDE DEF Ok
      <4> QED BY <1>2, <1>3, <3>1, <4>1
    <3>2. CASE n \notin 1 .. Len(toks)
      <4>1. toks'[n] = t
        BY <1>1, <1>2, <2>2, <3>2
      <4> QED BY <2>2, <4>1 DEF Made
    <3> QED BY <3>1, <3>2
  <2> HIDE DEF Ok
  <2> QED BY <2>1, <2>2 DEF Takes
<1> QED BY <1>1, <1>4 DEF Behind

LEMMA FoundNext == ASSUME Lexed, Found, NEW ks, Takes(ks) PROVE Found'
<1>1. text' = text /\ Read \in Int /\ Read' \in Int
  BY DEF Takes, Lexed, Read
<1> SUFFICES ASSUME NEW p \in Places, p <= Read', IsPlain(p), text[p] \in Operator
             PROVE  Spanned(p)' \/ (p > 1 /\ Closes(p - 1))
  BY <1>1, SameText DEF Found
<1>2. CASE p <= Read
  BY <1>2, SpannedStays DEF Found
<1>3. CASE ~(p <= Read)
  <2>1. p \in Int
    BY DEF Places, Lexed, Length
  <2> QED BY <1>1, <1>3, <2>1 DEF Takes, New
<1> QED BY <1>2, <1>3

LEMMA HeldNext ==
    ASSUME Lexed, Placed, Collected, HeldTogether, NEW ks, Takes(ks)
    PROVE  HeldTogether'
<1> DEFINE N == Len(toks)
<1>1. /\ text' = text /\ Read \in Int /\ Read' \in Int /\ Length \in Nat
      /\ val \in Seq(Positions) /\ ks \in Seq(Positions)
  BY DEF Takes, Lexed, Read, Length
<1> SUFFICES ASSUME NEW p \in Places, p + 1 <= Length, p + 1 <= Read',
                    Inside(p), Inside(p + 1)
             PROVE  \E n \in DOMAIN Values' : {p, p + 1} \subseteq ToSet(Values'[n])
  BY <1>1, SameText DEF HeldTogether
<1>2. p \in Nat /\ p + 1 \in Places
  BY <1>1 DEF Places
<1>3. /\ N \in Nat /\ DOMAIN toks = 1 .. N
      /\ DOMAIN Values = 1 .. N + 1 /\ 1 .. N + 1 \subseteq DOMAIN Values'
      /\ \A n \in 1 .. N : Values'[n] = Values[n] /\ Values[n] = toks[n].val
      /\ Values[N + 1] = val /\ Values'[N + 1] = val \o ks
  BY ValuesGrow
<1>4. ToSet(val) \subseteq ToSet(val \o ks) /\ ToSet(ks) \subseteq ToSet(val \o ks)
  <2>1. /\ Len(val \o ks) = Len(val) + Len(ks) /\ Len(val) \in Nat /\ Len(ks) \in Nat
        /\ \A i \in 1 .. Len(val) : (val \o ks)[i] = val[i]
        /\ \A i \in 1 .. Len(ks) : (val \o ks)[Len(val) + i] = ks[i]
        /\ DOMAIN (val \o ks) = 1 .. Len(val) + Len(ks)
        /\ DOMAIN val = 1 .. Len(val) /\ DOMAIN ks = 1 .. Len(ks)
    BY <1>1
  <2>2. ASSUME NEW x \in ToSet(val) PROVE x \in ToSet(val \o ks)
    <3>1. PICK i \in 1 .. Len(val) : x = val[i]
      BY <2>1 DEF ToSet
    <3>2. i \in 1 .. Len(val) + Len(ks)
      BY <2>1
    <3> QED BY <2>1, <3>1, <3>2 DEF ToSet
  <2>3. ASSUME NEW x \in ToSet(ks) PROVE x \in ToSet(val \o ks)
    <3>1. PICK i \in 1 .. Len(ks) : x = ks[i]
      BY <2>1 DEF ToSet
    <3>2. Len(val) + i \in 1 .. Len(val) + Len(ks)
      BY <2>1
    <3> QED BY <2>1, <3>1, <3>2 DEF ToSet
  <2> QED BY <2>2, <2>3
<1>5. \A n \in 1 .. N + 1 : n \in 1 .. N \/ n = N + 1
  BY <1>3
<1>6. N + 1 \in 1 .. N + 1 /\ 1 .. N \subseteq 1 .. N + 1
  BY <1>3
<1> HIDE DEF N
<1>7. CASE p + 1 <= Read
  <2>1. PICK n \in 1 .. N + 1 : {p, p + 1} \subseteq ToSet(Values[n])
    BY <1>3, <1>7 DEF HeldTogether
  <2>2. CASE n \in 1 .. N
    BY <1>3, <1>6, <2>1, <2>2
  <2>3. CASE n = N + 1
    BY <1>3, <1>4, <1>6, <2>1, <2>3
  <2> QED BY <1>5, <2>1, <2>2, <2>3
<1>8. CASE ~(p + 1 <= Read)
  <2>1. /\ p + 1 = Read + 1 /\ p + 1 \in ToSet(ks) /\ pc \in {"double", "single"}
    BY <1>1, <1>2, <1>8 DEF Takes, New
  <2>2. p = Read /\ Belongs(p) /\ start <= p
    <3>1. p = Read
      BY <1>1, <1>2, <2>1
    <3>2. Belongs(p)
      BY DEF Belongs
    <3>3. start < pos - 1 /\ Read = pos - 2 /\ start \in Int /\ pos \in Int
      BY <2>1 DEF Placed, Read, Lexed, Positions
    <3> QED BY <3>1, <3>2, <3>3
  <2>3. PICK n \in 1 .. N + 1 : p \in ToSet(Values[n])
    BY <1>1, <1>3, <2>2 DEF Collected, Has
  <2>4. n \notin 1 .. N
    <3>1. n \in 1 .. N => p < start
      BY <1>3, <2>1, <2>3 DEF Collected
    <3>2. start \in Int
      BY DEF Lexed, Positions
    <3> QED BY <1>2, <2>2, <3>1, <3>2
  <2>5. p \in ToSet(val)
    BY <1>3, <1>5, <2>3, <2>4
  <2> QED BY <1>3, <1>4, <1>6, <2>1, <2>5
<1> QED BY <1>7, <1>8

LEMMA CollectedNext ==
    ASSUME Lexed, Lexed', Placed', Collected, NEW ks, Takes(ks)
    PROVE  Collected'
<1> DEFINE N == Len(toks)
<1>1. /\ text' = text /\ Read \in Int /\ Read' \in Int /\ Length \in Nat
      /\ val \in Seq(Positions) /\ ks \in Seq(Positions) /\ Read <= Read'
      /\ pos \in Int /\ pos' \in Int /\ Length' = Length /\ Places' = Places
      /\ Positions' = Positions
      /\ pos = Length + 2 => pos' = Length + 2 /\ ks = <<>>
  <2>1. /\ text' = text /\ Read' \in Int /\ ks \in Seq(Positions) /\ Read <= Read'
        /\ pos = Length + 2 => pos' = Length + 2 /\ ks = <<>>
    BY DEF Takes
  <2>2. Length \in Nat /\ val \in Seq(Positions)
    BY DEF Lexed, Length
  <2>3. Length' = Length /\ Places' = Places /\ Positions' = Positions
    BY <2>1, SameText
  <2>4. pos \in Int /\ pos' \in Int
    BY <2>2, <2>3 DEF Lexed
  <2>5. Read \in Int
    BY <2>4 DEF Read
  <2> QED BY <2>1, <2>2, <2>3, <2>4, <2>5
<1>2. /\ N \in Nat /\ DOMAIN toks = 1 .. N
      /\ DOMAIN Values = 1 .. N + 1 /\ 1 .. N + 1 \subseteq DOMAIN Values'
      /\ \A n \in 1 .. N : Values'[n] = Values[n] /\ Values[n] = toks[n].val
      /\ Values[N + 1] = val /\ Values'[N + 1] = val \o ks
      /\ \A n \in DOMAIN Values' : n \in 1 .. N + 1 \/ Values'[n] = <<>>
      /\ \A n \in DOMAIN toks : toks[n] \in Token
  BY ValuesGrow
<1> HIDE DEF N
<1>3. \A n \in 1 .. N + 1 : n \in 1 .. N \/ n = N + 1
  BY <1>2
<1>4. \A n \in 1 .. N + 1 : Values[n] \in Seq(Positions)
  BY <1>1, <1>2, <1>3 DEF Token
<1>5. ASSUME NEW i \in DOMAIN ks PROVE Read < ks[i] /\ (ks[i] <= Read' \/ pos' = Length + 2)
  BY DEF Takes
<1>6. ASSUME NEW p \in Places, p <= Read' PROVE Belongs(p)' <=> Has(p)'
  <2>1. Has(p)' <=> Has(p) \/ p \in ToSet(ks)
    BY HasGrows
  <2>2. CASE p <= Read
    <3>1. p \notin ToSet(ks)
      <4>1. p \in Int
        BY <1>1 DEF Places
      <4> QED BY <1>1, <1>5, <2>2, <4>1 DEF ToSet
    <3>2. Belongs(p)' <=> Belongs(p)
      BY <2>2, BelongsStays
    <3>3. Belongs(p) <=> Has(p)
      BY <2>2 DEF Collected
    <3> QED BY <2>1, <3>1, <3>2, <3>3
  <2>3. CASE ~(p <= Read)
    <3>1. p \in Int /\ p \in Positions /\ p <= Length
      BY <1>1 DEF Places, Positions
    <3>2. ~Has(p) \/ pos = Length + 2
      BY <2>3, <3>1 DEF Collected
    <3>3. pos # Length + 2
      BY <1>1, <2>3, <3>1 DEF Read
    <3>4. p \in ToSet(ks) <=> Belongs(p)'
      BY <1>1, <1>6, <2>3, <3>1 DEF Takes, New
    <3> QED BY <2>1, <3>2, <3>3, <3>4
  <2> QED BY <2>2, <2>3
<1>7. ASSUME NEW p \in Positions, Has(p)' PROVE p <= Read' \/ pos' = Length + 2
  <2>1. Has(p) \/ p \in ToSet(ks)
    BY <1>7, HasGrows
  <2>2. p \in Int
    BY <1>1 DEF Positions
  <2>3. CASE Has(p)
    BY <1>1, <2>2, <2>3 DEF Collected
  <2>4. CASE p \in ToSet(ks)
    BY <1>5, <2>4 DEF ToSet
  <2> QED BY <2>1, <2>3, <2>4
(* What is new is behind what was there. *)
<1>8. ASSUME NEW n \in 1 .. N + 1, NEW i \in DOMAIN Values[n], NEW j \in DOMAIN ks
      PROVE  Values[n][i] < ks[j]
  <2>1. Values[n][i] \in Positions /\ ks[j] \in Positions
    BY <1>1, <1>4
  <2>2. Has(Values[n][i])
    BY <1>2 DEF Has, ToSet
  <2>3. ks # <<>>
    OBVIOUS
  <2>4. Values[n][i] <= Read
    BY <1>1, <2>1, <2>2, <2>3 DEF Collected
  <2>5. Values[n][i] \in Int /\ ks[j] \in Int
    BY <1>1, <2>1 DEF Positions
  <2> QED BY <1>1, <1>5, <2>4, <2>5
<1>9. ASSUME NEW n \in DOMAIN Values', NEW m \in DOMAIN Values',
             NEW i \in DOMAIN Values'[n], NEW j \in DOMAIN Values'[m],
             n < m \/ (n = m /\ i < j)
      PROVE  Values'[n][i] < Values'[m][j]
  <2>1. n \in 1 .. N + 1 /\ m \in 1 .. N + 1
    <3>1. DOMAIN <<>> = {}
      OBVIOUS
    <3> QED BY <1>2, <1>9, <3>1
  <2>2. \A a \in 1 .. N + 1, b \in 1 .. N + 1 :
            \A u \in DOMAIN Values[a], l \in DOMAIN Values[b] :
                a < b \/ (a = b /\ u < l) => Values[a][u] < Values[b][l]
    BY <1>2 DEF Collected
  <2>3. /\ Len(val \o ks) = Len(val) + Len(ks) /\ Len(val) \in Nat /\ Len(ks) \in Nat
        /\ \A u \in 1 .. Len(val) : (val \o ks)[u] = val[u]
        /\ \A u \in 1 .. Len(ks) : (val \o ks)[Len(val) + u] = ks[u]
        /\ DOMAIN (val \o ks) = 1 .. Len(val) + Len(ks)
        /\ DOMAIN val = 1 .. Len(val) /\ DOMAIN ks = 1 .. Len(ks)
    BY <1>1
  <2>4. \A u \in DOMAIN (val \o ks) :
            \/ u \in DOMAIN val /\ (val \o ks)[u] = val[u]
            \/ /\ u - Len(val) \in DOMAIN ks /\ u \in Nat /\ u > Len(val)
               /\ (val \o ks)[u] = ks[u - Len(val)]
    <3>1. ASSUME NEW u \in 1 .. Len(val) + Len(ks)
          PROVE  \/ u \in 1 .. Len(val)
                 \/ u - Len(val) \in 1 .. Len(ks) /\ Len(val) + (u - Len(val)) = u
                    /\ u \in Nat /\ u > Len(val)
      BY <2>3
    <3>2. ASSUME NEW u \in 1 .. Len(val) + Len(ks)
          PROVE  \/ u \in DOMAIN val /\ (val \o ks)[u] = val[u]
                 \/ /\ u - Len(val) \in DOMAIN ks /\ u \in Nat /\ u > Len(val)
                    /\ (val \o ks)[u] = ks[u - Len(val)]
      <4>1. CASE u \in 1 .. Len(val)
        BY <2>3, <4>1
      <4>2. CASE u - Len(val) \in 1 .. Len(ks) /\ Len(val) + (u - Len(val)) = u
                    /\ u \in Nat /\ u > Len(val)
        <5>1. (val \o ks)[Len(val) + (u - Len(val))] = ks[u - Len(val)]
          BY <2>3, <4>2
        <5> QED BY <2>3, <4>2, <5>1
      <4> QED BY <3>1, <4>1, <4>2
    <3> QED BY <2>3, <3>2
  <2>5. CASE n \in 1 .. N /\ m \in 1 .. N
    BY <1>2, <1>9, <2>1, <2>2, <2>5
  <2>6. CASE n \in 1 .. N /\ m = N + 1
    <3>1. Values'[n] = Values[n] /\ Values'[m] = val \o ks /\ n < m /\ Values[m] = val
      BY <1>2, <2>6
    <3>2. CASE j \in DOMAIN val /\ (val \o ks)[j] = val[j]
      BY <2>1, <2>2, <3>1, <3>2
    <3>3. CASE j - Len(val) \in DOMAIN ks /\ (val \o ks)[j] = ks[j - Len(val)]
      BY <1>8, <2>1, <3>1, <3>3
    <3> QED BY <2>4, <3>1, <3>2, <3>3
  <2>7. CASE n = N + 1 /\ m = N + 1
    <3>1. /\ Values'[n] = val \o ks /\ Values'[m] = val \o ks /\ i < j
          /\ Values[n] = val /\ Values[m] = val
      BY <1>2, <1>9, <2>7
    <3>2. CASE i \in DOMAIN val /\ (val \o ks)[i] = val[i]
      <4>1. CASE j \in DOMAIN val /\ (val \o ks)[j] = val[j]
        BY <2>1, <2>2, <2>7, <3>1, <3>2, <4>1
      <4>2. CASE j - Len(val) \in DOMAIN ks /\ (val \o ks)[j] = ks[j - Len(val)]
        BY <1>8, <2>1, <3>1, <3>2, <4>2
      <4> QED BY <2>4, <3>1, <4>1, <4>2
    <3>3. CASE /\ i - Len(val) \in DOMAIN ks /\ i \in Nat /\ i > Len(val)
               /\ (val \o ks)[i] = ks[i - Len(val)]
      <4>1. j \in Nat /\ j > Len(val)
        BY <2>3, <3>1, <3>3
      <4>2. /\ j - Len(val) \in DOMAIN ks /\ (val \o ks)[j] = ks[j - Len(val)]
        BY <2>3, <2>4, <3>1, <4>1
      <4>3. i - Len(val) < j - Len(val)
        BY <2>3, <3>1, <3>3, <4>1
      <4>4. ks[i - Len(val)] < ks[j - Len(val)]
        BY <3>3, <4>2, <4>3 DEF Takes
      <4> QED BY <3>1, <3>3, <4>2, <4>4
    <3> QED BY <2>4, <3>1, <3>2, <3>3
  <2>8. ~(n = N + 1 /\ m \in 1 .. N)
    BY <1>2, <1>9
  <2> QED BY <1>3, <2>1, <2>5, <2>6, <2>7, <2>8
<1>10. ASSUME pc' # "build", NEW n \in DOMAIN toks', NEW p \in ToSet(toks'[n].val)
       PROVE  p < start'
  <2>1. toks' = toks /\ start' = IF pc = "build" THEN pos ELSE start
    BY <1>10 DEF Takes
  <2>2. CASE pc # "build"
    BY <1>10, <2>1, <2>2 DEF Collected
  <2>3. CASE pc = "build"
    <3>1. toks[n].val \in Seq(Positions)
      BY <1>2, <2>1 DEF Token
    <3>2. p \in Positions
      BY <2>1, <3>1 DEF ToSet
    <3>3. n \in 1 .. N + 1 /\ p \in ToSet(Values[n])
      BY <1>2, <2>1
    <3>4. Has(p)
      BY <1>2, <3>3 DEF Has
    <3>5. start' <= Length
      BY <1>1, <1>10 DEF Placed
    <3>6. p <= pos - 1
      BY <1>1, <2>1, <2>3, <3>2, <3>4, <3>5 DEF Collected, Read
    <3>7. p \in Int
      BY <1>1, <3>2 DEF Positions
    <3> QED BY <1>1, <2>1, <2>3, <3>6, <3>7
  <2> QED BY <2>2, <2>3
<1> QED BY <1>1, <1>6, <1>7, <1>9, <1>10 DEF Collected

-----------------------------------------------------------------------------
(* Every step of the lexer is such a step. *)

LEMMA NotYet ==
    ASSUME Lexed, Behind, NEW p \in Places, p > Read
    PROVE  ~Spanned(p)
<1>1. toks \in Seq(Token) /\ Length \in Nat /\ Read \in Int
  BY DEF Lexed, Length, Read
<1>2. p \in Nat /\ p <= Length
  BY <1>1 DEF Places
<1>3. ASSUME NEW n \in DOMAIN toks, ~IsWord(toks[n]), p \in Span(toks[n]) PROVE FALSE
  <2>1. toks[n] \in Token
    BY <1>1
  <2>2. /\ toks[n].at \in Nat /\ Width(toks[n]) \in {1, 2}
        /\ toks[n].type = Eof => Width(toks[n]) = 1
    BY <1>1, <2>1 DEF Token, Width, Eof
  <2>3. toks[n].at <= p /\ p <= toks[n].at + Width(toks[n]) - 1
    BY <1>2, <1>3, <2>2 DEF Span
  <2>4. IF toks[n].type = Eof THEN toks[n].at > Length
        ELSE toks[n].at + Width(toks[n]) - 1 <= Read
    BY <1>3 DEF Behind
  <2> QED BY <1>1, <1>2, <2>2, <2>3, <2>4
<1> QED BY <1>3 DEF Spanned

(* What a step may say of a character, when it makes no operator of it. *)
Fits(p, ks) ==
    /\ p \in ToSet(ks) <=> Belongs(p)
    /\ IsPlain(p) /\ text[p] \in Operator => p > 1 /\ Closes(p - 1)
    /\ Inside(p) => p = Read + 1 /\ p \in ToSet(ks) /\ pc \in {"double", "single"}

Orderly(ks, to, next) ==
    /\ ks \in Seq(Positions)
    /\ \A i, j \in DOMAIN ks : i < j => ks[i] < ks[j]
    /\ to \in Int /\ Read <= to
    /\ pos = Length + 2 => next = Length + 2 /\ ks = <<>>
    /\ \A i \in DOMAIN ks : Read < ks[i] /\ (ks[i] <= to \/ next = Length + 2)

LEMMA Going ==
    ASSUME Lexed, NEW ks, text' = text, toks' = toks, val' = val \o ks,
           pc' # "build" => start' = IF pc = "build" THEN pos ELSE start,
           Orderly(ks, Read', pos'),
           \A p \in Places : Read < p /\ p <= Read' => Fits(p, ks)
    PROVE  Takes(ks)
<1>1. ASSUME NEW p \in Places PROVE Belongs(p)' <=> Belongs(p)
  <2>1. Spanned(p)' = Spanned(p)
    BY DEF Spanned
  <2>2. /\ Inside(p)' = Inside(p) /\ IsEscaped(p)' = IsEscaped(p)
        /\ KeptBackslash(p)' = KeptBackslash(p) /\ IsPlain(p)' = IsPlain(p)
    BY SameText
  <2> QED BY <2>1, <2>2, Zenon DEF Belongs
<1>2. \A p \in Places : Read < p /\ p <= Read' => New(p, ks)
  BY <1>1 DEF Fits, New
<1> QED BY <1>2 DEF Takes, Orderly

LEMMA Popping ==
    ASSUME Lexed, NEW ks, NEW t,
           text' = text, toks' = Append(toks, t), val' = <<>>, pc' = "build",
           t \in Token, t.val = val \o ks,
           IF t.type = Eof THEN t.at > Length /\ pos' = Length + 2
           ELSE IsWord(t) /\ t.at <= Length /\ t.at <= Read',
           Orderly(ks, Read', pos'),
           \A p \in Places : Read < p /\ p <= Read' => Fits(p, ks) /\ ~Inside(p)
    PROVE  Takes(ks)
<1>1. toks \in Seq(Token) /\ Length \in Nat
  BY DEF Lexed, Length
<1>2. ASSUME NEW p \in Places PROVE Belongs(p)' <=> Belongs(p)
  <2>1. IsWord(t) \/ p \notin Span(t)
    <3>1. p \in Nat /\ p <= Length /\ t.at \in Nat
      BY <1>1 DEF Places, Token
    <3>2. t.type = Eof => Width(t) = 1
      BY DEF Width, Eof
    <3> QED BY <1>1, <3>1, <3>2 DEF Span
  <2>2. /\ DOMAIN toks = 1 .. Len(toks) /\ DOMAIN toks' = 1 .. Len(toks) + 1
        /\ toks'[Len(toks) + 1] = t /\ \A n \in 1 .. Len(toks) : toks'[n] = toks[n]
        /\ Len(toks) \in Nat
    BY <1>1
  <2>3. \A n \in 1 .. Len(toks) + 1 : n \in 1 .. Len(toks) \/ n = Len(toks) + 1
    BY <2>2
  <2>4. 1 .. Len(toks) \subseteq 1 .. Len(toks) + 1
    BY <2>2
  <2>5. Spanned(p)' <=> Spanned(p)
    BY <2>1, <2>2, <2>3, <2>4 DEF Spanned
  <2>6. /\ Inside(p)' = Inside(p) /\ IsEscaped(p)' = IsEscaped(p)
        /\ KeptBackslash(p)' = KeptBackslash(p) /\ IsPlain(p)' = IsPlain(p)
    BY SameText
  <2> QED BY <2>5, <2>6, Zenon DEF Belongs
<1>3. \A p \in Places : Read < p /\ p <= Read' => New(p, ks)
  BY <1>2 DEF Fits, New
<1>4. Made(t)
  BY DEF Made
<1> QED BY <1>3, <1>4 DEF Takes, Orderly

LEMMA PoppingOperator ==
    ASSUME Lexed, Placed, pc = "build", NEW t \in Token, t.at = pos, t.val = <<>>,
           t.type # Eof, ~IsWord(t), pos + Width(t) - 1 <= Length,
           text' = text, toks' = Append(toks, t), val' = <<>>, pc' = "build",
           pos' = pos + Width(t),
           \A p \in pos .. pos + Width(t) - 1 : IsPlain(p) /\ text[p] \notin {"dq", "sq", "bs"}
    PROVE  Takes(<<>>)
<1>1. Read = pos - 1 /\ Read' = pos + Width(t) - 1
  <2>1. Read = pos - 1 /\ Read' = pos' - 1
    BY DEF Read
  <2>2. pos \in Int /\ Width(t) \in Int
    BY DEF Lexed, Width
  <2> QED BY <2>1, <2>2
<1>2. /\ toks \in Seq(Token) /\ Length \in Nat /\ pos \in Nat /\ pos >= 1
      /\ Width(t) \in {1, 2} /\ text \in Seq(Symbol) /\ val = <<>>
  BY DEF Lexed, Length, Width, Placed
<1>3. ASSUME NEW p \in Places, Read < p, p <= Read' PROVE New(p, <<>>)
  <2>1. p \in Nat /\ p \in pos .. pos + Width(t) - 1
    BY <1>1, <1>2, <1>3 DEF Places
  <2>2. /\ Len(toks) + 1 \in DOMAIN toks' /\ toks'[Len(toks) + 1] = t
    BY <1>2
  <2>3. Spanned(p)'
    <3>1. p \in Span(t)
      BY <2>1 DEF Span
    <3> QED BY <2>2, <3>1 DEF Spanned
  <2>4. IsPlain(p) /\ text[p] \notin {"dq", "sq", "bs"}
    BY <2>1
  <2>5. Mode[p - 1] = "plain" /\ Mode[p] = "plain"
    BY <1>2, <2>4, Turns DEF IsPlain
  <2>6. ~Inside(p) /\ ~IsEscaped(p) /\ ~KeptBackslash(p)
    BY <2>5 DEF Inside, IsEscaped, KeptBackslash
  <2>7. ~Belongs(p)'
    <3>1. /\ Inside(p)' = Inside(p) /\ IsEscaped(p)' = IsEscaped(p)
          /\ KeptBackslash(p)' = KeptBackslash(p) /\ IsPlain(p)' = IsPlain(p)
      BY SameText
    <3> QED BY <2>3, <2>6, <3>1, Zenon DEF Belongs
  <2>8. ToSet(<<>>) = {}
    BY DEF ToSet
  <2> QED BY <2>3, <2>6, <2>7, <2>8 DEF New
<1>4. Made(t)
  BY <1>1, <1>2 DEF Made
<1>5. t.val = val \o <<>>
  BY <1>2
<1>6. <<>> \in Seq(Positions) /\ DOMAIN <<>> = {}
  OBVIOUS
<1>7. Read \in Int /\ Read' \in Int /\ Read <= Read'
  BY <1>1, <1>2
<1>8. pos # Length + 2
  BY <1>2
<1> QED BY <1>3, <1>4, <1>5, <1>6, <1>7, <1>8 DEF Takes

LEMMA PartedGrows ==
    ASSUME NEW t, t.at \in Int, NEW a \in Int, NEW b \in Int, a <= b, Parted(t, a)
    PROVE  Parted(t, b)
<1>1. \A p \in t.at .. a : p \in t.at .. b
  OBVIOUS
<1> QED BY <1>1 DEF Parted

LEMMA PartedSame ==
    ASSUME text' = text, NEW t, NEW to
    PROVE  Parted(t, to)' <=> Parted(t, to)
<1>1. Length' = Length /\ \A p : IsPlain(p)' = IsPlain(p)
  BY SameText
<1> QED BY <1>1 DEF Parted

LEMMA CutContinues ==
    ASSUME Lexed, Behind, Cut, text' = text, toks' = toks,
           \/ pc # "build" /\ pc' # "build" /\ start' = start
           \/ /\ pc = "build" /\ pc' = "build" /\ pos' = pos + 1
              /\ IsPlain(pos) /\ text[pos] \in {"blank", "tab"} /\ pos <= Length
           \/ /\ pc = "build" /\ pc' # "build" /\ start' = pos
              /\ IsPlain(pos) /\ pos <= Length
              /\ text[pos] \notin StopsBefore \ {"space", "bang"}
    PROVE  Cut'
<1>1. /\ toks \in Seq(Token) /\ Len(toks) \in Nat /\ Newest' = Newest
      /\ pos \in Nat /\ pos >= 1 /\ Length \in Nat
  BY DEF Lexed, Newest, Length
<1>2. \A n \in 1 .. Len(toks) - 1 :
          IsWord(toks[n]) /\ IsWord(toks[n + 1]) =>
              Parted(toks[n], toks[n + 1].at) \/ text[toks[n + 1].at] = "bang"
  BY DEF Cut
<1>3. ASSUME toks # <<>>, IsWord(Newest)
      PROVE  IF pc' = "build" THEN Parted(Newest, pos' - 1) \/ At(pos') \in StopsBefore
             ELSE Parted(Newest, start') \/ text[start'] = "bang"
  <2>1. /\ Len(toks) \in DOMAIN toks /\ Newest \in Token
    BY <1>1, <1>3 DEF Newest
  <2>2. Newest.at \in Nat /\ Newest.at >= 1
    BY <1>1, <2>1 DEF Token
  <2>3. Newest.at <= pos
    <3>1. Newest.type # Eof
      BY <1>3 DEF IsWord, Eof
    <3>2. Newest.at <= Read
      BY <1>3, <2>1, <3>1 DEF Behind, Newest
    <3> QED BY <1>1, <2>2, <3>2 DEF Read
  <2>4. IF pc = "build" THEN Parted(Newest, pos - 1) \/ At(pos) \in StopsBefore
        ELSE Parted(Newest, start) \/ text[start] = "bang"
    BY <1>3 DEF Cut
  <2>5. CASE pc # "build" /\ pc' # "build" /\ start' = start
    BY <2>4, <2>5
  <2>6. CASE /\ pc = "build" /\ pc' = "build" /\ pos' = pos + 1
             /\ IsPlain(pos) /\ text[pos] \in {"blank", "tab"} /\ pos <= Length
    <3>1. pos' - 1 = pos /\ pos \in Newest.at .. pos
      BY <1>1, <2>2, <2>3, <2>6
    <3>2. Parted(Newest, pos)
      BY <2>6, <3>1 DEF Parted, White
    <3> QED BY <2>6, <3>1, <3>2
  <2>7. CASE /\ pc = "build" /\ pc' # "build" /\ start' = pos
             /\ IsPlain(pos) /\ pos <= Length
             /\ text[pos] \notin StopsBefore \ {"space", "bang"}
    <3>1. At(pos) = text[pos]
      BY <2>7 DEF At
    <3>2. CASE text[pos] = "bang"
      BY <2>7, <3>2
    <3>3. CASE text[pos] = "space"
      <4>1. pos \in Newest.at .. pos
        BY <1>1, <2>2, <2>3
      <4>2. Parted(Newest, pos)
        BY <2>7, <3>3, <4>1 DEF Parted, White
      <4> QED BY <2>7, <4>2
    <3>4. CASE text[pos] \notin StopsBefore
      <4>1. Parted(Newest, pos - 1)
        BY <2>4, <2>7, <3>1, <3>4
      <4>2. Parted(Newest, pos)
        BY <1>1, <2>2, <4>1, PartedGrows
      <4> QED BY <2>7, <4>2
    <3> QED BY <2>7, <3>2, <3>3, <3>4
  <2> QED BY <2>5, <2>6, <2>7
<1>4. At(pos)' = At(pos')
  BY SameText DEF At
<1>5. \A p : IsPlain(p)' = IsPlain(p)
  BY SameText
<1>6. Length' = Length
  BY SameText
<1> QED BY <1>1, <1>2, <1>3, <1>4, <1>5, <1>6 DEF Cut, Parted

LEMMA CutPops ==
    ASSUME Lexed, Cut, text' = text, NEW t \in Token, toks' = Append(toks, t),
           pc' = "build",
           toks # <<>> /\ IsWord(Newest) /\ IsWord(t) =>
               Parted(Newest, t.at) \/ text[t.at] = "bang",
           IsWord(t) => Parted(t, pos' - 1) \/ At(pos') \in StopsBefore
    PROVE  Cut'
<1>1. toks \in Seq(Token) /\ Len(toks) \in Nat
  BY DEF Lexed
<1>2. /\ Len(toks') = Len(toks) + 1 /\ toks'[Len(toks) + 1] = t
      /\ \A n \in 1 .. Len(toks) : toks'[n] = toks[n]
  BY <1>1
<1>3. \A x, to : Parted(x, to)' <=> Parted(x, to)
  BY PartedSame
<1>4. ASSUME NEW n \in 1 .. Len(toks), IsWord(toks'[n]), IsWord(toks'[n + 1])
      PROVE  Parted(toks'[n], toks'[n + 1].at) \/ text[toks'[n + 1].at] = "bang"
  <2>1. CASE n = Len(toks)
    <3>1. toks # <<>> /\ Newest = toks'[n] /\ toks'[n + 1] = t
      BY <1>1, <1>2, <2>1 DEF Newest
    <3> QED BY <1>4, <3>1
  <2>2. CASE n # Len(toks)
    <3>1. n \in 1 .. Len(toks) - 1 /\ n + 1 \in 1 .. Len(toks)
      BY <1>1, <2>2
    <3>2. toks'[n] = toks[n] /\ toks'[n + 1] = toks[n + 1]
      BY <1>2, <3>1
    <3> QED BY <1>4, <3>1, <3>2 DEF Cut
  <2> QED BY <2>1, <2>2
<1>5. 1 .. Len(toks') - 1 = 1 .. Len(toks)
  BY <1>1, <1>2
<1>6. Newest' = t
  BY <1>1, <1>2 DEF Newest
<1>7. At(pos)' = At(pos')
  BY SameText DEF At
<1> QED BY <1>2, <1>3, <1>4, <1>5, <1>6, <1>7 DEF Cut

(* Where the loops stand. *)
LEMMA AtBuild ==
    ASSUME Lexed, NoHash, Placed, pc \in {"build", "number"}, At(pos) # Eof
    PROVE  /\ pos \in Nat /\ pos >= 1 /\ Length \in Nat /\ pos \in Places
           /\ pos <= Length /\ pos \in Positions /\ Read = pos - 1
           /\ At(pos) = text[pos] /\ text[pos] # "hash"
           /\ IsPlain(pos) /\ ~Inside(pos) /\ text \in Seq(Symbol)
           /\ Mode[pos] = IF text[pos] = "dq" THEN "double"
                          ELSE IF text[pos] = "sq" THEN "single"
                          ELSE IF text[pos] = "bs" THEN "escape" ELSE "plain"
<1>1. pos \in Nat /\ pos >= 1 /\ Length \in Nat /\ text \in Seq(Symbol)
  BY DEF Lexed, Length
<1>2. pos <= Length
  BY <1>1, Reading
<1>3. pos \in Places /\ pos \in Positions /\ Read = pos - 1
  BY <1>1, <1>2 DEF Places, Positions, Read
<1>4. At(pos) = text[pos] /\ IsPlain(pos)
  BY <1>1, <1>2 DEF At, Placed, IsPlain
<1>5. text[pos] # "hash"
  BY <1>3, <1>4 DEF NoHash, Places
<1>6. Mode[pos - 1] = "plain"
  BY <1>4 DEF IsPlain
<1> QED BY <1>1, <1>2, <1>3, <1>4, <1>5, <1>6, Turns, WhoBelongs

LEMMA InLoop ==
    ASSUME Lexed, NoHash, Placed, pc \in {"word", "double", "single"}, Cur # Eof
    PROVE  /\ pos \in Nat /\ pos >= 2 /\ Length \in Nat /\ pos - 1 \in Places
           /\ pos - 1 <= Length /\ pos \in Positions /\ pos - 1 \in Positions
           /\ Read = pos - 2 /\ After(pos) = pos + 1 /\ pos \in 2 .. Length + 1
           /\ Cur = text[pos - 1] /\ (pos - 1) - 1 = pos - 2
           /\ Mode[pos - 2] = IF pc = "word" THEN "plain" ELSE pc
           /\ text \in Seq(Symbol)
<1>1. pos \in Nat /\ pos >= 2 /\ Length \in Nat /\ text \in Seq(Symbol)
  BY DEF Lexed, Length
<1>2. pos - 1 <= Length /\ pos - 1 \in Nat \ {0}
  <2>1. pos - 1 \in Nat \ {0}
    BY <1>1
  <2> QED BY <1>1, <2>1, Reading DEF Cur
<1>3. /\ pos - 1 \in Places /\ pos - 1 \in Positions /\ pos \in Positions
      /\ Read = pos - 2 /\ pos \in 2 .. Length + 1 /\ (pos - 1) - 1 = pos - 2
  BY <1>1, <1>2 DEF Places, Positions, Read
<1>4. After(pos) = pos + 1
  BY <1>1, <1>2, Reading
<1>5. Cur = text[pos - 1]
  BY <1>2 DEF Cur, At
<1>6. Mode[pos - 2] = IF pc = "word" THEN "plain" ELSE pc
  BY <1>1, <1>2 DEF Placed
<1> QED BY <1>1, <1>2, <1>3, <1>4, <1>5, <1>6

LEMMA OrderlyNone ==
    ASSUME Lexed, NEW to \in Int, Read <= to, NEW next, pos = Length + 2 => next = Length + 2
    PROVE  Orderly(<<>>, to, next)
<1>1. <<>> \in Seq(Positions) /\ DOMAIN <<>> = {}
  OBVIOUS
<1> QED BY <1>1 DEF Orderly

LEMMA OrderlyOne ==
    ASSUME Lexed, NEW a \in Positions, NEW to \in Int, Read <= to, Read < a, NEW next,
           a <= to \/ next = Length + 2, pos # Length + 2
    PROVE  Orderly(<<a>>, to, next)
<1>1. <<a>> \in Seq(Positions) /\ DOMAIN <<a>> = {1} /\ <<a>>[1] = a
  OBVIOUS
<1>2. \A i, j \in {1} : ~(i < j)
  OBVIOUS
<1> QED BY <1>1, <1>2 DEF Orderly

LEMMA Ones ==
    ASSUME NEW v \in Seq(Positions), NEW a \in Positions
    PROVE  ToSet(<<a>>) = {a} /\ ToSet(<<>>) = {} /\ v \o <<a>> = Append(v, a) /\ v \o <<>> = v
<1>1. ToSet(<<a>>) = {a} /\ ToSet(<<>>) = {}
  BY DEF ToSet
<1>2. v \o <<a>> = Append(v, a) /\ v \o <<>> = v
  OBVIOUS
<1> QED BY <1>1, <1>2

(* What is shown of every step. *)
Ready == Lexed /\ NoHash /\ Placed /\ Behind /\ Cut
Good == (\E ks : Takes(ks)) /\ Placed' /\ Cut'

LEMMA PlacedAtBuild ==
    ASSUME text' = text, pc' = "build", val' = <<>>, pos' <= Length + 1 => Mode[pos' - 1] = "plain"
    PROVE  Placed'
<1>1. Mode' = Mode /\ Length' = Length
  BY SameText
<1> QED BY <1>1 DEF Placed

LEMMA GoodSkip == ASSUME Ready, Skip PROVE Good
<1>1. /\ pc = "build" /\ At(pos) \in {"blank", "tab"} /\ At(pos) # Eof
      /\ text' = text /\ toks' = toks /\ val' = val /\ pc' = "build" /\ start' = start
      /\ pos' = pos + 1 /\ val = <<>> /\ val \in Seq(Positions)
  BY DEF Skip, Building, Goto, Eof, Ready, Placed, Lexed
<1>2. /\ pos \in Nat /\ pos >= 1 /\ Length \in Nat /\ pos \in Places /\ pos <= Length
      /\ Read = pos - 1 /\ text[pos] \in {"blank", "tab"} /\ IsPlain(pos) /\ ~Inside(pos)
      /\ Mode[pos] = "plain" /\ text \in Seq(Symbol)
  BY <1>1, AtBuild DEF Ready
<1>3. Fits(pos, <<>>)
  <2>1. ~Belongs(pos)
    <3>1. text[pos] \notin WordChar
      BY <1>2, LetterAssumption DEF WordChar, Named
    <3> QED BY <1>2, <3>1, WhoBelongs DEF IsPlain
  <2>2. ToSet(<<>>) = {}
    BY DEF ToSet
  <2> QED BY <1>2, <2>1, <2>2 DEF Fits, Operator
<1>4. \E ks : Takes(ks)
  <2>1. Orderly(<<>>, pos, pos + 1)
    BY <1>2, OrderlyNone DEF Ready
  <2>2. \A p \in Places : Read < p /\ p <= pos => p = pos
    BY <1>2 DEF Places
  <2>3. val' = val \o <<>> /\ Read' = pos
    BY <1>1, <1>2 DEF Read
  <2> QED BY <1>1, <1>3, <2>1, <2>2, <2>3, Going DEF Ready
<1>5. Placed'
  <2>1. pos' - 1 = pos
    BY <1>1, <1>2
  <2> QED BY <1>1, <1>2, <2>1, PlacedAtBuild
<1>6. Cut'
  BY <1>1, <1>2, CutContinues DEF Ready
<1> QED BY <1>4, <1>5, <1>6 DEF Good

(* An operator is popped. *)
LEMMA GoodOperator ==
    ASSUME Ready, pc = "build", At(pos) # Eof,
           NEW type \in {"nl", "semi", "pipe", "or", "and", "in", "out", "app"},
           NEW w \in {1, 2}, w = 2 <=> type \in {"or", "and", "app"},
           Emit(type, <<>>, pos, pos + w),
           At(pos) \notin {"dq", "sq", "bs"}, w = 2 => At(pos + 1) = At(pos)
    PROVE  Good
<1> DEFINE t == [type |-> type, val |-> <<>>, at |-> pos]
<1>1. /\ toks' = Append(toks, t) /\ text' = text /\ pos' = pos + w /\ val' = <<>>
      /\ pc' = "build"
  BY DEF Emit
<1>2. /\ pos \in Nat /\ pos >= 1 /\ Length \in Nat /\ pos \in Places /\ pos <= Length
      /\ At(pos) = text[pos] /\ Read = pos - 1 /\ IsPlain(pos) /\ Mode[pos] = "plain"
      /\ text \in Seq(Symbol)
  BY AtBuild DEF Ready
<1>3. t \in Token
  <2>1. <<>> \in Seq(Positions) /\ pos \in 1 .. Length + 2
    BY <1>2
  <2> QED BY <2>1 DEF Token, Types
<1>4. /\ t.at = pos /\ t.val = <<>> /\ t.type = type /\ type # Eof /\ ~IsWord(t)
      /\ Width(t) = w
  BY DEF IsWord, Width, Eof
<1> HIDE DEF t
<1>5. ASSUME w = 2
      PROVE  /\ pos + 1 <= Length /\ pos + 1 \in Places /\ text[pos + 1] = text[pos]
             /\ IsPlain(pos + 1) /\ Mode[pos + 1] = "plain"
  <2>1. At(pos + 1) # Eof /\ pos + 1 \in Nat \ {0}
    BY <1>2, <1>5
  <2>2. pos + 1 <= Length
    BY <1>2, <2>1, Reading
  <2>3. pos + 1 \in Places /\ pos + 1 - 1 = pos
    BY <1>2, <2>2 DEF Places
  <2>4. text[pos + 1] = text[pos] /\ IsPlain(pos + 1)
    BY <1>2, <1>5, <2>2, <2>3 DEF At, IsPlain
  <2>5. Mode[pos + 1] = "plain"
    BY <1>2, <2>3, <2>4, Turns DEF IsPlain
  <2> QED BY <2>2, <2>3, <2>4, <2>5
<1>6. ASSUME NEW p \in pos .. pos + Width(t) - 1
      PROVE  IsPlain(p) /\ text[p] \notin {"dq", "sq", "bs"}
  <2>1. p = pos \/ (w = 2 /\ p = pos + 1)
    BY <1>2, <1>4
  <2> QED BY <1>2, <1>5, <2>1
<1>7. pos + Width(t) - 1 <= Length
  BY <1>2, <1>4, <1>5
<1>8. Takes(<<>>)
  BY <1>1, <1>3, <1>4, <1>6, <1>7, PoppingOperator DEF Ready
<1>9. Placed'
  <2>1. Mode[pos' - 1] = "plain"
    <3>1. pos' - 1 = pos \/ (w = 2 /\ pos' - 1 = pos + 1)
      BY <1>1, <1>2
    <3> QED BY <1>2, <1>5, <3>1
  <2> QED BY <1>1, <2>1, PlacedAtBuild
<1>10. Cut'
  BY <1>1, <1>3, <1>4, CutPops DEF Ready
<1> QED BY <1>8, <1>9, <1>10 DEF Good

LEMMA GoodSimple == ASSUME Ready, SimpleTok PROVE Good
<1>1. /\ pc = "build" /\ At(pos) \in {Eof, "nl", "semi"} /\ val = <<>>
      /\ pos \in 1 .. Length + 2 /\ Length \in Nat /\ text \in Seq(Symbol)
      /\ Emit(At(pos), <<>>, pos, After(pos))
  BY DEF SimpleTok, Building, Ready, Placed, Lexed, Length
<1>2. CASE At(pos) \in {"nl", "semi"}
  <2>1. At(pos) # Eof
    BY <1>2 DEF Eof
  <2>2. After(pos) = pos + 1
    BY <1>1, <2>1, Reading
  <2> QED BY <1>1, <1>2, <2>1, <2>2, GoodOperator
<1>3. CASE At(pos) = Eof
  <2> DEFINE t == [type |-> Eof, val |-> <<>>, at |-> pos]
  <2>1. pos > Length /\ After(pos) = Length + 2
    BY <1>1, <1>3, Reading
  <2>2. /\ toks' = Append(toks, t) /\ text' = text /\ pos' = Length + 2 /\ val' = <<>>
        /\ pc' = "build"
    BY <1>1, <1>3, <2>1 DEF Emit
  <2>3. t \in Token
    <3>1. <<>> \in Seq(Positions)
      OBVIOUS
    <3> QED BY <1>1, <3>1 DEF Token, Types
  <2>4. t.at = pos /\ t.val = val \o <<>> /\ t.type = Eof /\ ~IsWord(t)
    BY <1>1 DEF IsWord, Eof
  <2> HIDE DEF t
  <2>5. Takes(<<>>)
    <3>1. Read = pos - 1 /\ Read' = Length + 1
      BY <1>1, <2>2 DEF Read
    <3>2. Orderly(<<>>, Length + 1, Length + 2)
      BY <1>1, <3>1, OrderlyNone DEF Ready
    <3>3. \A p \in Places : ~(Read < p)
      BY <1>1, <2>1, <3>1 DEF Places
    <3> QED BY <2>1, <2>2, <2>3, <2>4, <3>1, <3>2, <3>3, Popping DEF Ready
  <2>6. Placed'
    <3>1. ~(pos' <= Length + 1)
      BY <1>1, <2>2
    <3> QED BY <2>2, <3>1, PlacedAtBuild
  <2>7. Cut'
    BY <2>2, <2>3, <2>4, CutPops DEF Ready
  <2> QED BY <2>5, <2>6, <2>7 DEF Good
<1> QED BY <1>1, <1>2, <1>3

(* What a word leaves open is settled where the next one begins. *)
LEMMA PartedHere ==
    ASSUME Ready, pc = "build", pos <= Length, IsPlain(pos),
           text[pos] \notin StopsBefore \ {"space", "bang"}, toks # <<>>, IsWord(Newest)
    PROVE  Parted(Newest, pos) \/ text[pos] = "bang"
<1>1. /\ toks \in Seq(Token) /\ Len(toks) \in Nat /\ pos \in Nat /\ pos >= 1
      /\ Length \in Nat
  BY DEF Ready, Lexed, Length
<1>2. Len(toks) \in DOMAIN toks /\ Newest \in Token
  BY <1>1 DEF Newest
<1>3. Newest.at \in Nat /\ Newest.at >= 1 /\ Newest.type # Eof
  BY <1>1, <1>2 DEF Token, IsWord, Eof
<1>4. Newest.at <= pos
  <2>1. Newest.at <= Read
    BY <1>2, <1>3 DEF Ready, Behind, Newest
  <2> QED BY <1>1, <1>3, <2>1 DEF Read
<1>5. Parted(Newest, pos - 1) \/ At(pos) \in StopsBefore
  BY DEF Ready, Cut
<1>6. At(pos) = text[pos]
  BY DEF At
<1>7. CASE text[pos] = "space"
  <2>1. pos \in Newest.at .. pos
    BY <1>1, <1>3, <1>4
  <2> QED BY <1>7, <2>1 DEF Parted, White
<1>8. CASE text[pos] \notin StopsBefore
  <2>1. Parted(Newest, pos - 1)
    BY <1>5, <1>6, <1>8
  <2> QED BY <1>1, <1>3, <2>1, PartedGrows
<1> QED BY <1>7, <1>8

LEMMA GoodOneOrTwo ==
    ASSUME Ready, PipeTok \/ RedirOutTok \/ RedirInTok \/ Ampersand
    PROVE  Good
<1>1. pc = "build" /\ pos \in Nat /\ Length \in Nat /\ text \in Seq(Symbol) /\ pos >= 1
  BY DEF PipeTok, RedirOutTok, RedirInTok, Ampersand, OneOrTwo, Building, Ready, Lexed, Length
<1>2. CASE PipeTok
  <2>1. At(pos) = "bar" /\ At(pos) # Eof /\ At(pos) \notin {"dq", "sq", "bs"}
    BY <1>2 DEF PipeTok, OneOrTwo, Eof
  <2>2. IF At(pos + 1) = "bar" THEN Emit("or", <<>>, pos, pos + 2)
                               ELSE Emit("pipe", <<>>, pos, pos + 1)
    BY <1>2 DEF PipeTok, OneOrTwo
  <2>3. CASE At(pos + 1) = "bar"
    BY <1>1, <2>1, <2>2, <2>3, GoodOperator
  <2>4. CASE At(pos + 1) # "bar"
    BY <1>1, <2>1, <2>2, <2>4, GoodOperator
  <2> QED BY <2>3, <2>4
<1>3. CASE RedirOutTok
  <2>1. At(pos) = "gt" /\ At(pos) # Eof /\ At(pos) \notin {"dq", "sq", "bs"}
    BY <1>3 DEF RedirOutTok, OneOrTwo, Eof
  <2>2. IF At(pos + 1) = "gt" THEN Emit("app", <<>>, pos, pos + 2)
                              ELSE Emit("out", <<>>, pos, pos + 1)
    BY <1>3 DEF RedirOutTok, OneOrTwo
  <2>3. CASE At(pos + 1) = "gt"
    BY <1>1, <2>1, <2>2, <2>3, GoodOperator
  <2>4. CASE At(pos + 1) # "gt"
    BY <1>1, <2>1, <2>2, <2>4, GoodOperator
  <2> QED BY <2>3, <2>4
<1>4. CASE RedirInTok
  <2>1. At(pos) = "lt" /\ At(pos) # Eof /\ Emit("in", <<>>, pos, pos + 1)
    BY <1>4 DEF RedirInTok, Eof
  <2> QED BY <1>1, <2>1, GoodOperator
<1>5. CASE Ampersand
  <2>1. At(pos) = "amp" /\ At(pos) # Eof /\ At(pos) \notin {"dq", "sq", "bs"}
    BY <1>5 DEF Ampersand, OneOrTwo, Eof
  <2>2. IF At(pos + 1) = "amp" THEN Emit("and", <<>>, pos, pos + 2)
                               ELSE Emit("word", <<pos>>, pos, pos + 1)
    BY <1>5 DEF Ampersand, OneOrTwo
  <2>3. CASE At(pos + 1) = "amp"
    BY <1>1, <2>1, <2>2, <2>3, GoodOperator
  <2>4. CASE At(pos + 1) # "amp"
    <3> DEFINE t == [type |-> "word", val |-> <<pos>>, at |-> pos]
    <3>1. /\ pos <= Length /\ pos \in Places /\ pos \in Positions /\ Read = pos - 1
          /\ text[pos] = "amp" /\ IsPlain(pos) /\ ~Inside(pos) /\ Mode[pos] = "plain"
      BY <1>1, <2>1, AtBuild DEF Ready
    <3>2. /\ toks' = Append(toks, t) /\ text' = text /\ pos' = pos + 1 /\ val' = <<>>
          /\ pc' = "build"
      BY <2>2, <2>4 DEF Emit
    <3>3. val = <<>> /\ val \in Seq(Positions)
      BY <1>1 DEF Ready, Placed, Lexed
    <3>4. t \in Token
      <4>1. <<pos>> \in Seq(Positions) /\ pos \in 1 .. Length + 2
        BY <1>1, <3>1
      <4> QED BY <4>1 DEF Token, Types
    <3>5. t.at = pos /\ t.val = val \o <<pos>> /\ t.type # Eof /\ IsWord(t)
      BY <3>1, <3>3 DEF IsWord, Eof
    <3> HIDE DEF t
    <3>6. Fits(pos, <<pos>>) /\ ~Inside(pos)
      <4>1. Belongs(pos)
        <5>1. ~Spanned(pos)
          BY <1>1, <3>1, NotYet DEF Ready
        <5> QED BY <1>1, <3>1, <5>1, WhoBelongs DEF IsPlain, WordChar
      <4>2. ToSet(<<pos>>) = {pos}
        BY DEF ToSet
      <4> QED BY <3>1, <4>1, <4>2 DEF Fits, Operator
    <3>7. Takes(<<pos>>)
      <4>1. Orderly(<<pos>>, pos, pos + 1)
        BY <1>1, <3>1, OrderlyOne DEF Ready
      <4>2. \A p \in Places : Read < p /\ p <= pos => p = pos
        BY <1>1, <3>1 DEF Places
      <4>3. Read' = pos /\ t.at <= Length /\ t.at <= pos
        BY <1>1, <3>1, <3>2, <3>5 DEF Read
      <4> QED BY <3>2, <3>4, <3>5, <3>6, <4>1, <4>2, <4>3, Popping DEF Ready
    <3>8. Placed'
      <4>1. pos' - 1 = pos
        BY <1>1, <3>2
      <4> QED BY <3>1, <3>2, <4>1, PlacedAtBuild
    <3>9. Cut'
      <4>1. toks # <<>> /\ IsWord(Newest) => Parted(Newest, t.at) \/ text[t.at] = "bang"
        BY <1>1, <3>1, <3>5, PartedHere DEF StopsBefore, White, Eof
      <4>2. Parted(t, pos' - 1)
        BY <3>1, <3>5 DEF Parted
      <4> QED BY <3>2, <3>4, <4>1, <4>2, CutPops DEF Ready
    <3> QED BY <3>7, <3>8, <3>9 DEF Good
  <2> QED BY <2>3, <2>4
<1> QED BY <1>2, <1>3, <1>4, <1>5

LEMMA NoComment == ASSUME Ready PROVE ~Comment /\ ~CommentChar /\ ~CommentEnd
<1>1. ~CommentChar /\ ~CommentEnd
  BY DEF Ready, Placed, CommentChar, CommentEnd
<1>2. ASSUME Comment PROVE FALSE
  <2>1. pc = "build" /\ At(pos) = "hash" /\ At(pos) # Eof
    BY <1>2 DEF Comment, Building, Eof
  <2> QED BY <2>1, AtBuild DEF Ready
<1> QED BY <1>1, <1>2

(* A digit that a number begins or goes on with. *)
LEMMA GoodDigit == ASSUME Ready, Number \/ Digit PROVE Good
<1> DEFINE from == IF pc = "build" THEN pos ELSE start
<1>1. /\ pc \in {"build", "number"} /\ At(pos) = "digit" /\ At(pos) # Eof
      /\ text' = text /\ toks' = toks /\ pc' = "number" /\ pos' = pos + 1
      /\ start' = from /\ val' = Append(val, pos) /\ val \in Seq(Positions)
  <2>1. val \in Seq(Positions) /\ (pc = "build" => val = <<>>)
    BY DEF Ready, Lexed, Placed
  <2>2. CASE Number
    <3>1. Append(<<>>, pos) = <<pos>>
      OBVIOUS
    <3> QED BY <2>1, <2>2, <3>1 DEF Number, Building, Goto, Eof
  <2>3. CASE Digit
    BY <2>1, <2>3 DEF Digit, Goto, Eof
  <2> QED BY <2>2, <2>3
<1> HIDE DEF from
<1>2. /\ pos \in Nat /\ pos >= 1 /\ Length \in Nat /\ pos \in Places /\ pos <= Length
      /\ pos \in Positions /\ Read = pos - 1 /\ text[pos] = "digit" /\ IsPlain(pos)
      /\ ~Inside(pos) /\ Mode[pos] = "plain" /\ text \in Seq(Symbol)
  BY <1>1, AtBuild DEF Ready
<1>3. Fits(pos, <<pos>>)
  <2>1. ~Spanned(pos)
    BY <1>2, NotYet DEF Ready
  <2>2. Belongs(pos)
    BY <1>2, <2>1, WhoBelongs DEF IsPlain, WordChar
  <2>3. ToSet(<<pos>>) = {pos}
    BY DEF ToSet
  <2> QED BY <1>2, <2>2, <2>3 DEF Fits, Operator
<1>4. Takes(<<pos>>)
  <2>1. Orderly(<<pos>>, pos, pos + 1)
    BY <1>2, OrderlyOne DEF Ready
  <2>2. \A p \in Places : Read < p /\ p <= pos => p = pos
    BY <1>2 DEF Places
  <2>3. val' = val \o <<pos>>
    BY <1>1, <1>2, Ones
  <2>4. Read' = pos /\ start' = IF pc = "build" THEN pos ELSE start
    BY <1>1, <1>2 DEF Read, from
  <2> QED BY <1>1, <1>3, <2>1, <2>2, <2>3, <2>4, Going DEF Ready
<1>5. from <= Length /\ from <= pos /\ IsPlain(from) /\ text[from] = "digit" /\ from \in Int
  <2>1. CASE pc = "build"
    BY <1>2, <2>1 DEF from
  <2>2. CASE pc = "number"
    BY <1>2, <2>2 DEF from, Ready, Placed, Lexed, Positions
  <2> QED BY <1>1, <2>1, <2>2
<1>6. Placed'
  <2>1. Mode' = Mode /\ Length' = Length
    BY <1>1, SameText
  <2>2. pos' - 1 = pos /\ from < pos' /\ IsPlain(start')
    BY <1>1, <1>2, <1>5
  <2>3. Mode[start' - 1] = "plain"
    BY <2>2 DEF IsPlain
  <2> QED BY <1>1, <1>2, <1>5, <2>1, <2>2, <2>3 DEF Placed, IsPlain
<1>7. Cut'
  <2>1. text[pos] \notin StopsBefore \ {"space", "bang"}
    BY <1>2 DEF StopsBefore, White, Eof
  <2> QED BY <1>1, <1>2, <2>1, CutContinues DEF Ready, from
<1> QED BY <1>4, <1>6, <1>7 DEF Good

(* A word or a number is popped. *)
LEMMA GoodWord ==
    ASSUME Ready, pc \in {"number", "word"}, NEW type \in {"word", "nb"}, NEW ks, NEW next \in Int,
           Emit(type, val \o ks, start, next), Orderly(ks, next - 1, next),
           val \o ks \in Seq(Positions), start <= next - 1,
           \A p \in Places : Read < p /\ p <= next - 1 => Fits(p, ks) /\ ~Inside(p),
           next <= Length + 1 => Mode[next - 1] = "plain",
           \/ At(next) \in StopsBefore
           \/ \E p \in start .. next - 1 :
                  p <= Length /\ IsPlain(p) /\ text[p] \in White \cup Operator \cup {"digit"}
                  /\ (text[p] = "digit" => p = start)
    PROVE  Good
<1> DEFINE t == [type |-> type, val |-> val \o ks, at |-> start]
<1>1. /\ toks' = Append(toks, t) /\ text' = text /\ pos' = next /\ val' = <<>>
      /\ pc' = "build"
  BY DEF Emit
<1>2. /\ start \in Positions /\ start <= Length /\ Length \in Nat /\ start \in Nat
  BY DEF Ready, Lexed, Placed, Length, Positions
<1>3. t \in Token
  <2>1. start \in 1 .. Length + 2
    BY <1>2 DEF Positions
  <2> QED BY <2>1 DEF Token, Types
<1>4. t.at = start /\ t.val = val \o ks /\ t.type # Eof /\ IsWord(t)
  BY DEF IsWord, Eof
<1> HIDE DEF t
<1>5. Takes(ks)
  <2>1. Read' = next - 1
    BY <1>1 DEF Read
  <2> QED BY <1>1, <1>2, <1>3, <1>4, <2>1, Popping DEF Ready
<1>6. Placed'
  BY <1>1, PlacedAtBuild
<1>7. Cut'
  <2>1. toks # <<>> /\ IsWord(Newest) => Parted(Newest, t.at) \/ text[t.at] = "bang"
    BY <1>4 DEF Ready, Cut
  <2>2. Parted(t, pos' - 1) \/ At(pos') \in StopsBefore
    BY <1>1, <1>4 DEF Parted
  <2> QED BY <1>1, <1>3, <2>1, <2>2, CutPops DEF Ready
<1> QED BY <1>5, <1>6, <1>7 DEF Good

LEMMA GoodNumberEnd == ASSUME Ready, NumberEnd PROVE Good
<1> DEFINE type == IF At(pos) \in {"lt", "gt"} THEN "nb" ELSE "word"
<1>1. pc = "number" /\ Emit(type, val, start, pos) /\ type \in {"word", "nb"}
  BY DEF NumberEnd
<1> HIDE DEF type
<1>2. /\ val \in Seq(Positions) /\ pos \in Int /\ Length \in Nat /\ start \in Nat
      /\ start <= Length /\ start < pos /\ IsPlain(start) /\ text[start] = "digit"
      /\ pos <= Length + 1 => Mode[pos - 1] = "plain"
      /\ Read = pos - 1
  BY <1>1 DEF Ready, Lexed, Placed, Length, Positions, Read
<1>3. val \o <<>> = val
  BY <1>2
<1>4. Orderly(<<>>, pos - 1, pos)
  BY <1>2, OrderlyNone DEF Ready
<1>5. \A p \in Places : ~(Read < p /\ p <= pos - 1)
  BY <1>2 DEF Places
<1>6. start \in start .. pos - 1 /\ start <= pos - 1
  BY <1>2
<1> QED BY <1>1, <1>2, <1>3, <1>4, <1>5, <1>6, GoodWord

LEMMA GoodReadTok == ASSUME Ready, ReadTok PROVE Good
<1>1. /\ pc = "build" /\ val = <<>> /\ text \in Seq(Symbol)
      /\ At(pos) \in {"space", "dq", "sq", "bs", "bang", "dollar"} \cup Letter
      /\ text' = text /\ toks' = toks /\ pc' = "word" /\ start' = pos /\ val' = <<>>
      /\ pos' = pos + 1
  BY DEF ReadTok, Building, Goto, Ready, Placed, Lexed
<1>2. /\ At(pos) # Eof /\ At(pos) \notin Operator
      /\ At(pos) \notin StopsBefore \ {"space", "bang"}
  BY <1>1, LetterAssumption DEF Named, Eof, Operator, StopsBefore, White
<1>3. /\ pos \in Nat /\ pos >= 1 /\ Length \in Nat /\ pos \in Places /\ pos <= Length
      /\ Read = pos - 1 /\ At(pos) = text[pos] /\ IsPlain(pos)
  BY <1>1, <1>2, AtBuild DEF Ready
<1>4. Takes(<<>>)
  <2>1. Orderly(<<>>, pos - 1, pos + 1)
    BY <1>3, OrderlyNone DEF Ready
  <2>2. \A p \in Places : ~(Read < p /\ p <= pos - 1)
    BY <1>3 DEF Places
  <2>3. val' = val \o <<>> /\ Read' = pos - 1
    BY <1>1, <1>3 DEF Read
  <2> QED BY <1>1, <2>1, <2>2, <2>3, Going DEF Ready
<1>5. Placed'
  <2>1. Mode' = Mode /\ Length' = Length /\ Mode[pos - 1] = "plain"
    BY <1>1, <1>3, SameText DEF IsPlain
  <2>2. pos' - 2 = pos - 1 /\ pos' - 1 = pos /\ pos < pos'
    BY <1>1, <1>3
  <2> QED BY <1>1, <1>2, <1>3, <2>1, <2>2 DEF Placed, IsPlain
<1>6. Cut'
  BY <1>1, <1>2, <1>3, CutContinues DEF Ready
<1> QED BY <1>4, <1>5, <1>6 DEF Good

LEMMA GoodWordEnd == ASSUME Ready, WordEnd PROVE Good
<1> DEFINE type == "word"
<1>0. type \in {"word", "nb"}
  OBVIOUS
<1>1. /\ pc = "word" /\ Cur \in Stops /\ Emit(type, val, start, pos)
      /\ val \in Seq(Positions) /\ pos \in Nat /\ pos >= 2 /\ pos <= Length + 2
      /\ Length \in Nat /\ start \in Nat /\ start < pos /\ text \in Seq(Symbol)
      /\ Read = pos - 2
  BY DEF WordEnd, Ready, Lexed, Placed, Length, Positions, Read
<1> HIDE DEF type
<1>2. val \o <<>> = val
  BY <1>1
<1>3. Orderly(<<>>, pos - 1, pos)
  BY <1>1, OrderlyNone DEF Ready
<1>4. start <= pos - 1 /\ \A p \in Places : Read < p /\ p <= pos - 1 => p = pos - 1
  BY <1>1 DEF Places
<1>a. pc \in {"number", "word"} /\ pos \in Int /\ start <= pos - 1
  BY <1>1, <1>4
<1>5. CASE Cur = Eof
  <2>1. ~(pos - 1 <= Length)
    <3>1. pos - 1 \in Nat \ {0}
      BY <1>1
    <3> QED BY <1>1, <1>5, <3>1, Reading DEF Cur
  <2>2. pos = Length + 2 /\ pos - 1 \notin Places /\ ~(pos <= Length + 1)
    BY <1>1, <2>1 DEF Places
  <2>3. At(pos) \in StopsBefore
    BY <1>1, <2>2 DEF At, StopsBefore
  <2>4. \A p \in Places : ~(Read < p /\ p <= pos - 1)
    BY <1>4, <2>2
  <2>5. Emit(type, val \o <<>>, start, pos) /\ val \o <<>> \in Seq(Positions)
    BY <1>1, <1>2
  <2> QED BY <1>0, <1>3, <1>a, <2>2, <2>3, <2>4, <2>5, GoodWord
<1>6. CASE Cur # Eof
  <2>1. /\ pos - 1 \in Places /\ pos - 1 <= Length /\ Cur = text[pos - 1]
        /\ (pos - 1) - 1 = pos - 2 /\ Mode[pos - 2] = "plain"
    BY <1>1, <1>6, InLoop DEF Ready
  <2>2. IsPlain(pos - 1) /\ text[pos - 1] # "hash" /\ ~Inside(pos - 1)
    <3>1. IsPlain(pos - 1)
      BY <2>1 DEF IsPlain
    <3>2. text[pos - 1] # "hash"
      BY <2>1, <3>1 DEF Ready, NoHash, Places
    <3> QED BY <2>1, <3>1, <3>2 DEF IsPlain, Inside
  <2>3. text[pos - 1] \in White \cup {"semi", "bar", "lt", "gt"}
    BY <1>1, <1>6, <2>1, <2>2 DEF Stops
  <2>4. text[pos - 1] \notin WordChar \cup {"dq", "sq", "bs"}
    BY <2>3, LetterAssumption DEF WordChar, White, Named
  <2>5. Mode[pos - 1] = "plain"
    BY <1>1, <2>1, <2>4, Turns
  <2>6. Fits(pos - 1, <<>>)
    <3>1. ~Belongs(pos - 1)
      BY <1>1, <2>1, <2>4, WhoBelongs
    <3>2. ToSet(<<>>) = {}
      BY DEF ToSet
    <3>3. text[pos - 1] \in Operator => pos - 1 > 1 /\ Closes(pos - 1 - 1)
      <4>1. text[pos - 1] \in Operator => pos > 2 /\ Closes(pos - 2)
        BY <1>1, <2>1 DEF Ready, Placed
      <4> QED BY <1>1, <2>1, <4>1
    <3> QED BY <2>2, <3>1, <3>2, <3>3 DEF Fits
  <2>7. /\ pos - 1 \in start .. pos - 1 /\ text[pos - 1] \in White \cup Operator
        /\ text[pos - 1] # "digit"
    BY <1>1, <2>3 DEF Operator, White
  <2>8. \A p \in Places : Read < p /\ p <= pos - 1 => Fits(p, <<>>) /\ ~Inside(p)
    BY <1>4, <2>2, <2>6
  <2>9. Emit(type, val \o <<>>, start, pos) /\ val \o <<>> \in Seq(Positions)
    BY <1>1, <1>2
  <2>10. \E p \in start .. pos - 1 :
            p <= Length /\ IsPlain(p) /\ text[p] \in White \cup Operator \cup {"digit"}
            /\ (text[p] = "digit" => p = start)
    BY <2>1, <2>2, <2>7
  <2> QED BY <1>0, <1>3, <1>a, <2>5, <2>8, <2>9, <2>10, GoodWord
<1> QED BY <1>5, <1>6

(* The end of the body of read_tok's loop. *)
LEMMA GoodFurther ==
    ASSUME Ready, pc = "word", Cur # Eof, NEW ks, NEW p \in 2 .. Length + 2, pos <= p,
           Further(val \o ks, p), Orderly(ks, p - 1, p), val \o ks \in Seq(Positions),
           \A q \in Places : Read < q /\ q <= p - 1 => Fits(q, ks) /\ ~Inside(q),
           p <= Length + 1 => Mode[p - 1] = "plain"
    PROVE  Good
<1>1. /\ pos \in Nat /\ Length \in Nat /\ start \in Nat /\ start < pos /\ p \in Nat
      /\ text \in Seq(Symbol) /\ Read = pos - 2 /\ start <= Length /\ IsPlain(start)
      /\ pos <= Length + 1
  BY InLoop DEF Ready, Lexed, Placed, Length, Positions, Read
<1>2. CASE At(p) \in StopsBefore
  <2>1. Emit("word", val \o ks, start, p)
    BY <1>2 DEF Further
  <2>2. p \in Int /\ start <= p - 1
    BY <1>1
  <2> QED BY <1>1, <1>2, <2>1, <2>2, GoodWord
<1>3. CASE At(p) \notin StopsBefore
  <2>1. /\ text' = text /\ toks' = toks /\ val' = val \o ks /\ pc' = "word"
        /\ start' = start /\ pos' = p + 1
    BY <1>3 DEF Further, Goto
  <2>2. p <= Length /\ At(p) = text[p] /\ text[p] \notin Operator /\ text[p] # "bar"
    <3>1. p <= Length
      BY <1>1, <1>3, Reading DEF StopsBefore
    <3>2. At(p) = text[p]
      BY <3>1 DEF At
    <3> QED BY <1>3, <3>1, <3>2 DEF StopsBefore, White, Operator
  <2>3. Takes(ks)
    <3>1. Orderly(ks, p - 1, p + 1)
      <4>1. pos # Length + 2 /\ p # Length + 2
        BY <1>1, <2>2
      <4> QED BY <4>1 DEF Orderly
    <3>2. Read' = p - 1
      BY <1>1, <2>1 DEF Read
    <3> QED BY <2>1, <3>1, <3>2, Going DEF Ready
  <2>4. Placed'
    <3>1. Mode' = Mode /\ Length' = Length /\ Mode[start - 1] = "plain" /\ Mode[p - 1] = "plain"
      BY <1>1, <2>1, <2>2, SameText DEF IsPlain
    <3>2. pos' - 2 = p - 1 /\ pos' - 1 = p /\ start < pos'
      BY <1>1, <2>1
    <3> QED BY <1>1, <2>1, <2>2, <3>1, <3>2 DEF Placed, IsPlain
  <2>5. Cut'
    BY <2>1, CutContinues DEF Ready
  <2> QED BY <2>3, <2>4, <2>5 DEF Good
<1> QED BY <1>2, <1>3

LEMMA GoodPlain == ASSUME Ready, Plain PROVE Good
<1>1. /\ pc = "word" /\ Cur \notin Stops \cup {"dq", "sq", "bs"} /\ Cur # Eof
      /\ Further(Append(val, pos - 1), pos) /\ val \in Seq(Positions)
  BY DEF Plain, Stops, Ready, Lexed
<1>2. /\ pos \in Nat /\ pos >= 2 /\ Length \in Nat /\ pos - 1 \in Places
      /\ pos - 1 \in Positions /\ Read = pos - 2 /\ pos \in 2 .. Length + 1
      /\ Cur = text[pos - 1] /\ (pos - 1) - 1 = pos - 2
      /\ Mode[pos - 2] = "plain" /\ text \in Seq(Symbol)
  BY <1>1, InLoop DEF Ready
<1>3. text[pos - 1] \in WordChar /\ text[pos - 1] \notin Operator \cup {"dq", "sq", "bs"}
  <2>1. text[pos - 1] \in Symbol
    BY <1>2, Turns
  <2> QED BY <1>1, <1>2, <2>1 DEF WordChar, Symbol, Named, Stops, White, Operator
<1>4. Fits(pos - 1, <<pos - 1>>) /\ ~Inside(pos - 1)
  <2>1. ~Spanned(pos - 1)
    <3>1. pos - 1 > Read
      BY <1>2
    <3> QED BY <1>2, <3>1, NotYet DEF Ready
  <2>2. Belongs(pos - 1)
    BY <1>2, <1>3, <2>1, WhoBelongs
  <2>3. ToSet(<<pos - 1>>) = {pos - 1}
    BY DEF ToSet
  <2>4. ~Inside(pos - 1)
    BY <1>2, WhoBelongs
  <2> QED BY <1>3, <2>2, <2>3, <2>4 DEF Fits
<1>5. Mode[pos - 1] = "plain"
  BY <1>2, <1>3, Turns
<1>6. Orderly(<<pos - 1>>, pos - 1, pos)
  BY <1>2, OrderlyOne DEF Ready
<1>7. /\ val \o <<pos - 1>> = Append(val, pos - 1) /\ Append(val, pos - 1) \in Seq(Positions)
  BY <1>1, <1>2, Ones
<1>8. \A q \in Places : Read < q /\ q <= pos - 1 => q = pos - 1
  BY <1>2 DEF Places
<1>9. pos \in 2 .. Length + 2 /\ pos <= pos
  BY <1>2
<1> QED BY <1>1, <1>4, <1>5, <1>6, <1>7, <1>8, <1>9, GoodFurther

LEMMA GoodBackslash == ASSUME Ready, Backslash PROVE Good
<1> DEFINE ks == IF At(pos) = "nl" THEN <<>> ELSE <<pos>>
           p == After(pos)
<1>1. /\ pc = "word" /\ Cur = "bs" /\ Cur # Eof /\ val \in Seq(Positions)
      /\ Further(IF At(pos) = "nl" THEN val ELSE Append(val, pos), p)
  BY DEF Backslash, Ready, Lexed, Eof
<1>2. /\ pos \in Nat /\ pos >= 2 /\ Length \in Nat /\ pos - 1 \in Places
      /\ pos - 1 \in Positions /\ pos \in Positions /\ Read = pos - 2
      /\ pos \in 2 .. Length + 1 /\ text[pos - 1] = "bs" /\ (pos - 1) - 1 = pos - 2
      /\ Mode[pos - 2] = "plain" /\ text \in Seq(Symbol) /\ p = pos + 1
  BY <1>1, InLoop DEF Ready
<1>3. /\ val \o ks = (IF At(pos) = "nl" THEN val ELSE Append(val, pos))
      /\ val \o ks \in Seq(Positions)
  BY <1>1, <1>2, Ones
<1>4. Orderly(ks, pos, pos + 1)
  BY <1>2, OrderlyOne, OrderlyNone DEF Ready
<1>5. ToSet(ks) = IF At(pos) = "nl" THEN {} ELSE {pos}
  BY DEF ToSet
<1> HIDE DEF ks
<1>6. Mode[pos - 1] = "escape" /\ ~Inside(pos - 1) /\ ~Belongs(pos - 1)
  <2>1. Mode[pos - 1] = "escape"
    BY <1>2, Turns
  <2>2. "bs" \notin WordChar
    BY LetterAssumption DEF WordChar, Named
  <2> QED BY <1>2, <2>1, <2>2, WhoBelongs
<1>7. Fits(pos - 1, ks)
  <2>1. pos - 1 \notin ToSet(ks)
    BY <1>2, <1>5
  <2> QED BY <1>2, <1>6, <2>1 DEF Fits, Operator
<1>8. ASSUME pos \in Places PROVE Fits(pos, ks) /\ ~Inside(pos) /\ Mode[pos] = "plain"
  <2>1. At(pos) = text[pos]
    BY <1>2, <1>8, Turns
  <2>2. Mode[pos] = "plain" /\ ~Inside(pos) /\ (Belongs(pos) <=> text[pos] # "nl")
    BY <1>2, <1>6, <1>8, Turns, WhoBelongs
  <2>3. ~IsPlain(pos)
    BY <1>6 DEF IsPlain
  <2> QED BY <1>5, <2>1, <2>2, <2>3 DEF Fits
<1>9. \A q \in Places : Read < q /\ q <= pos => q = pos - 1 \/ q = pos
  BY <1>2 DEF Places
<1>10. p \in 2 .. Length + 2 /\ pos <= p /\ p - 1 = pos /\ (p <= Length + 1 => pos \in Places)
  BY <1>2 DEF Places
<1> HIDE DEF p
<1> QED BY <1>1, <1>2, <1>3, <1>4, <1>6, <1>7, <1>8, <1>9, <1>10, GoodFurther

(* Quotes. *)
LEMMA Before == ASSUME NEW a \in Int, NEW b \in Int, a < b - 1 PROVE a < b
OBVIOUS

LEMMA PlacedInQuotes ==
    ASSUME text' = text, pc' \in {"double", "single"}, start' <= Length, start' < pos' - 1,
           start' \in Int, pos' \in Int, IsPlain(start'),
           pos' <= Length + 1 => Mode[pos' - 2] = pc'
    PROVE  Placed'
<1>1. Mode' = Mode /\ Length' = Length /\ Mode[start' - 1] = "plain"
  BY SameText DEF IsPlain
<1>2. start' < pos'
  BY Before
<1> QED BY <1>1, <1>2 DEF Placed, IsPlain

LEMMA GoodOpenQuote == ASSUME Ready, OpenQuote PROVE Good
<1>1. /\ pc = "word" /\ Cur \in {"dq", "sq"} /\ Cur # Eof /\ val \in Seq(Positions)
      /\ text' = text /\ toks' = toks /\ val' = val /\ start' = start /\ pos' = After(pos)
      /\ pc' = (IF Cur = "dq" THEN "double" ELSE "single")
  BY DEF OpenQuote, Goto, Ready, Lexed, Eof
<1>2. /\ pos \in Nat /\ pos >= 2 /\ Length \in Nat /\ pos - 1 \in Places
      /\ Read = pos - 2 /\ After(pos) = pos + 1 /\ pos <= Length + 1
      /\ Cur = text[pos - 1] /\ (pos - 1) - 1 = pos - 2
      /\ Mode[pos - 2] = "plain" /\ text \in Seq(Symbol)
  BY <1>1, InLoop DEF Ready
<1>3. Fits(pos - 1, <<>>)
  <2>1. text[pos - 1] \notin WordChar
    BY <1>1, <1>2, LetterAssumption DEF WordChar, Named
  <2>2. ~Belongs(pos - 1) /\ ~Inside(pos - 1)
    BY <1>2, <2>1, WhoBelongs
  <2>3. ToSet(<<>>) = {}
    BY DEF ToSet
  <2> QED BY <1>1, <1>2, <2>2, <2>3 DEF Fits, Operator
<1>4. Takes(<<>>)
  <2>1. Orderly(<<>>, pos - 1, pos + 1)
    BY <1>2, OrderlyNone DEF Ready
  <2>2. \A p \in Places : Read < p /\ p <= pos - 1 => p = pos - 1
    BY <1>2 DEF Places
  <2>3. val' = val \o <<>> /\ Read' = pos - 1
    BY <1>1, <1>2 DEF Read
  <2> QED BY <1>1, <1>2, <1>3, <2>1, <2>2, <2>3, Going DEF Ready
<1>5. Placed'
  <2>1. Mode[pos - 1] = pc'
    BY <1>1, <1>2, Turns
  <2>2. start \in Nat /\ start <= Length /\ start < pos /\ IsPlain(start)
    BY <1>1 DEF Ready, Placed, Lexed, Positions
  <2>3. pos' - 2 = pos - 1 /\ start' < pos' - 1 /\ start' \in Int /\ pos' \in Int
    BY <1>1, <1>2, <2>2
  <2> QED BY <1>1, <2>1, <2>2, <2>3, PlacedInQuotes
<1>6. Cut'
  BY <1>1, CutContinues DEF Ready
<1> QED BY <1>4, <1>5, <1>6 DEF Good

LEMMA GoodInQuotes == ASSUME Ready, DoubleChar \/ SingleChar PROVE Good
<1>1. /\ pc \in {"double", "single"} /\ Cur # Eof /\ val \in Seq(Positions)
      /\ pc = "double" => Cur \notin {"bs", "dq"}
      /\ pc = "single" => Cur # "sq"
      /\ text' = text /\ toks' = toks /\ val' = Append(val, pos - 1) /\ start' = start
      /\ pos' = After(pos) /\ pc' = pc
  BY DEF DoubleChar, SingleChar, Goto, Ready, Lexed
<1>2. /\ pos \in Nat /\ pos >= 2 /\ Length \in Nat /\ pos - 1 \in Places
      /\ pos - 1 \in Positions
      /\ Read = pos - 2 /\ After(pos) = pos + 1 /\ pos <= Length + 1
      /\ Cur = text[pos - 1] /\ (pos - 1) - 1 = pos - 2
      /\ Mode[pos - 2] = pc /\ text \in Seq(Symbol)
  BY <1>1, InLoop DEF Ready
<1>3. Inside(pos - 1) /\ Mode[pos - 1] = pc
  <2>1. Inside(pos - 1)
    BY <1>1, <1>2, WhoBelongs
  <2> QED BY <1>2, <2>1 DEF Inside
<1>4. Fits(pos - 1, <<pos - 1>>)
  <2>1. Belongs(pos - 1)
    BY <1>3 DEF Belongs
  <2>2. ~IsPlain(pos - 1)
    BY <1>1, <1>2 DEF IsPlain
  <2>3. ToSet(<<pos - 1>>) = {pos - 1}
    BY DEF ToSet
  <2>4. pos - 1 = Read + 1
    BY <1>2
  <2> QED BY <1>1, <2>1, <2>2, <2>3, <2>4 DEF Fits
<1>5. Takes(<<pos - 1>>)
  <2>1. Orderly(<<pos - 1>>, pos - 1, pos + 1)
    BY <1>2, OrderlyOne DEF Ready
  <2>2. \A p \in Places : Read < p /\ p <= pos - 1 => p = pos - 1
    BY <1>2 DEF Places
  <2>3. val' = val \o <<pos - 1>>
    BY <1>1, <1>2, Ones
  <2>4. Read' = pos - 1
    BY <1>1, <1>2 DEF Read
  <2> QED BY <1>1, <1>2, <1>4, <2>1, <2>2, <2>3, <2>4, Going DEF Ready
<1>6. Placed'
  <2>1. start \in Nat /\ start <= Length /\ start < pos - 1 /\ IsPlain(start)
    BY <1>1 DEF Ready, Placed, Lexed, Positions
  <2>2. pos' - 2 = pos - 1 /\ start' < pos' - 1 /\ start' \in Int /\ pos' \in Int
    BY <1>1, <1>2, <2>1
  <2> QED BY <1>1, <1>3, <2>1, <2>2, PlacedInQuotes
<1>7. Cut'
  BY <1>1, CutContinues DEF Ready
<1> QED BY <1>5, <1>6, <1>7 DEF Good

LEMMA GoodCloseQuote == ASSUME Ready, DoubleEnd \/ SingleEnd PROVE Good
<1>1. /\ pc \in {"double", "single"} /\ val \in Seq(Positions)
      /\ Cur = Eof \/ (pc = "double" /\ Cur = "dq") \/ (pc = "single" /\ Cur = "sq")
      /\ text' = text /\ toks' = toks /\ val' = val /\ start' = start
      /\ pos' = After(pos) /\ pc' = "word"
  BY DEF DoubleEnd, SingleEnd, Goto, Ready, Lexed
<1>2. /\ pos \in Nat /\ pos >= 2 /\ pos <= Length + 2 /\ Length \in Nat /\ start \in Nat
      /\ start <= Length /\ start < pos - 1 /\ IsPlain(start) /\ text \in Seq(Symbol)
      /\ Read = pos - 2
  BY <1>1 DEF Ready, Placed, Lexed, Positions, Length, Read
<1>3. Cut'
  BY <1>1, CutContinues DEF Ready
<1>4. Mode' = Mode /\ Length' = Length /\ Mode[start - 1] = "plain"
      /\ \A p : Closes(p)' = Closes(p)
  BY <1>1, <1>2, SameText DEF IsPlain
<1>5. val' = val \o <<>>
  BY <1>1
<1>6. CASE Cur = Eof
  <2>1. pos = Length + 2
    <3>1. pos - 1 \in Nat \ {0}
      BY <1>2
    <3>2. ~(pos - 1 <= Length)
      BY <1>2, <1>6, <3>1, Reading DEF Cur
    <3> QED BY <1>2, <3>2
  <2>2. After(pos) = Length + 2
    BY <1>2, <2>1, Reading
  <2>3. Takes(<<>>)
    <3>1. Orderly(<<>>, Length, Length + 2)
      BY <1>2, <2>1, OrderlyNone DEF Ready
    <3>2. \A p \in Places : ~(Read < p)
      BY <1>2, <2>1 DEF Places
    <3>3. Read' = Length
      BY <1>1, <1>2, <2>2 DEF Read
    <3> QED BY <1>1, <1>5, <2>2, <3>1, <3>2, <3>3, Going DEF Ready
  <2>4. Placed'
    <3>1. ~(pos' <= Length + 1) /\ start' < pos'
      BY <1>1, <1>2, <2>1, <2>2
    <3> QED BY <1>1, <1>2, <1>4, <3>1 DEF Placed, IsPlain
  <2> QED BY <1>3, <2>3, <2>4 DEF Good
<1>7. CASE Cur # Eof
  <2>1. /\ pos - 1 \in Places /\ After(pos) = pos + 1 /\ pos <= Length + 1
        /\ Cur = text[pos - 1] /\ (pos - 1) - 1 = pos - 2 /\ Mode[pos - 2] = pc
    BY <1>1, <1>7, InLoop DEF Ready
  <2>2. Closes(pos - 1) /\ ~Inside(pos - 1) /\ ~Belongs(pos - 1)
    BY <1>1, <1>2, <1>7, <2>1, WhoBelongs
  <2>3. Mode[pos - 1] = "plain"
    BY <2>2 DEF Closes
  <2>4. Fits(pos - 1, <<>>)
    <3>1. ToSet(<<>>) = {}
      BY DEF ToSet
    <3>2. ~IsPlain(pos - 1)
      BY <1>1, <2>1 DEF IsPlain
    <3> QED BY <2>2, <3>1, <3>2 DEF Fits
  <2>5. Takes(<<>>)
    <3>1. Orderly(<<>>, pos - 1, pos + 1)
      BY <1>2, <2>1, OrderlyNone DEF Ready
    <3>2. \A p \in Places : Read < p /\ p <= pos - 1 => p = pos - 1
      BY <1>2 DEF Places
    <3>3. Read' = pos - 1
      BY <1>1, <1>2, <2>1 DEF Read
    <3> QED BY <1>1, <1>5, <2>1, <2>4, <3>1, <3>2, <3>3, Going DEF Ready
  <2>6. Placed'
    <3>1. pos' - 2 = pos - 1 /\ pos' > 2 /\ start' < pos'
      BY <1>1, <1>2, <2>1
    <3> QED BY <1>1, <1>2, <1>4, <2>2, <2>3, <3>1 DEF Placed, IsPlain
  <2> QED BY <1>3, <2>5, <2>6 DEF Good
<1> QED BY <1>6, <1>7

LEMMA GoodDoubleEscape == ASSUME Ready, DoubleEscape PROVE Good
<1> DEFINE ks == Escaped(pos)
<1>1. /\ pc = "double" /\ Cur = "bs" /\ Cur # Eof /\ val \in Seq(Positions)
      /\ text' = text /\ toks' = toks /\ val' = val \o ks /\ start' = start
      /\ pos' = After(After(pos)) /\ pc' = "double"
  BY DEF DoubleEscape, Ready, Lexed, Eof
<1>2. /\ pos \in Nat /\ pos >= 2 /\ Length \in Nat /\ pos - 1 \in Places
      /\ pos - 1 \in Positions /\ pos \in Positions
      /\ Read = pos - 2 /\ After(pos) = pos + 1 /\ pos <= Length + 1
      /\ text[pos - 1] = "bs" /\ (pos - 1) - 1 = pos - 2
      /\ Mode[pos - 2] = "double" /\ text \in Seq(Symbol)
  BY <1>1, InLoop DEF Ready
<1>3. ks = IF At(pos) = "nl" THEN <<>> ELSE IF At(pos) = "blank" THEN <<pos - 1, pos>>
           ELSE <<pos>>
  BY DEF Escaped
<1> HIDE DEF ks
<1>4. /\ ks \in Seq(Positions) /\ \A i, j \in DOMAIN ks : i < j => ks[i] < ks[j]
      /\ \A i \in DOMAIN ks : Read < ks[i] /\ ks[i] <= pos
  <2>1. CASE ks = <<>>
    BY <2>1
  <2>2. CASE ks = <<pos>>
    BY <1>2, <2>2
  <2>3. CASE ks = <<pos - 1, pos>>
    <3>1. /\ DOMAIN ks = {1, 2} /\ ks[1] = pos - 1 /\ ks[2] = pos
          /\ ks \in Seq(Positions)
      BY <1>2, <2>3
    <3>2. \A i, j \in {1, 2} : i < j => i = 1 /\ j = 2
      OBVIOUS
    <3>3. pos - 1 < pos /\ Read < pos - 1 /\ Read < pos /\ pos - 1 <= pos /\ pos <= pos
      BY <1>2
    <3> QED BY <3>1, <3>2, <3>3
  <2> QED BY <1>3, <2>1, <2>2, <2>3
<1>5. ToSet(ks) = IF At(pos) = "nl" THEN {} ELSE IF At(pos) = "blank" THEN {pos - 1, pos}
                  ELSE {pos}
  <2>1. ToSet(<<>>) = {} /\ ToSet(<<pos>>) = {pos} /\ ToSet(<<pos - 1, pos>>) = {pos - 1, pos}
    BY DEF ToSet
  <2> QED BY <1>3, <2>1
<1>6. /\ Mode[pos - 1] = "double escape" /\ ~Inside(pos - 1) /\ ~IsPlain(pos - 1)
      /\ Belongs(pos - 1) <=> pos - 1 < Length /\ text[pos - 1 + 1] = "blank"
  <2>1. /\ Mode[pos - 1] = "double escape" /\ ~Inside(pos - 1)
        /\ Belongs(pos - 1) <=> pos - 1 < Length /\ text[pos - 1 + 1] = "blank"
    BY <1>2, Turns, WhoBelongs
  <2> QED BY <1>2, <2>1 DEF IsPlain
<1>7. start \in Nat /\ start <= Length /\ start < pos - 1 /\ IsPlain(start)
  BY <1>1 DEF Ready, Placed, Lexed, Positions
<1>8. Cut'
  BY <1>1, CutContinues DEF Ready
<1>9. CASE pos <= Length
  <2>1. pos' = pos + 2
    <3>1. After(pos + 1) = pos + 2
      <4>1. pos + 1 \in Nat \ {0}
        BY <1>2
      <4> QED BY <1>2, <1>9, <4>1, Reading
    <3> QED BY <1>1, <1>2, <3>1
  <2>2. pos \in Places /\ At(pos) = text[pos] /\ pos - 1 + 1 = pos /\ pos - 1 < Length
    BY <1>2, <1>9 DEF Places, At
  <2>3. /\ Mode[pos] = "double" /\ ~Inside(pos) /\ ~IsPlain(pos)
        /\ Belongs(pos) <=> text[pos] # "nl"
    BY <1>2, <1>6, <2>2, Turns, WhoBelongs DEF IsPlain
  <2>4. Fits(pos - 1, ks) /\ Fits(pos, ks)
    <3>1. pos - 1 \in ToSet(ks) <=> Belongs(pos - 1)
      BY <1>2, <1>5, <1>6, <2>2
    <3>2. pos \in ToSet(ks) <=> Belongs(pos)
      BY <1>5, <2>2, <2>3
    <3> QED BY <1>6, <2>3, <3>1, <3>2 DEF Fits
  <2>5. Takes(ks)
    <3>1. Orderly(ks, pos, pos + 2)
      <4>1. pos \in Int /\ Read <= pos /\ pos # Length + 2
        BY <1>2, <1>9
      <4> QED BY <1>4, <4>1 DEF Orderly
    <3>2. \A p \in Places : Read < p /\ p <= pos => p = pos - 1 \/ p = pos
      BY <1>2 DEF Places
    <3>3. Read' = pos
      BY <1>1, <1>2, <2>1 DEF Read
    <3> QED BY <1>1, <2>1, <2>4, <3>1, <3>2, <3>3, Going DEF Ready
  <2>6. Placed'
    <3>1. pos' - 2 = pos /\ start' < pos' - 1 /\ start' \in Int /\ pos' \in Int
      <4>1. /\ pos' = pos + 2 /\ start' = start /\ pos \in Nat /\ start \in Nat
            /\ start < pos - 1
        BY <1>1, <1>2, <1>7, <2>1
      <4> QED BY <4>1
    <3> QED BY <1>1, <1>7, <2>3, <3>1, PlacedInQuotes
  <2> QED BY <1>8, <2>5, <2>6 DEF Good
<1>10. CASE ~(pos <= Length)
  <2>1. pos = Length + 1 /\ pos' = Length + 2 /\ At(pos) = Eof
    <3>1. pos = Length + 1 /\ pos + 1 \in Nat \ {0}
      BY <1>2, <1>10
    <3>2. After(pos + 1) = Length + 2 /\ At(pos) = Eof
      BY <1>2, <1>10, <3>1, Reading
    <3> QED BY <1>1, <1>2, <3>1, <3>2
  <2>2. ToSet(ks) = {pos} /\ ks = <<pos>>
    BY <1>3, <1>5, <2>1 DEF Eof
  <2>3. Fits(pos - 1, ks)
    <3>1. pos - 1 \notin ToSet(ks) /\ ~Belongs(pos - 1)
      <4>1. pos - 1 # pos /\ ~(pos - 1 < Length)
        BY <1>2, <2>1
      <4> QED BY <1>6, <2>2, <4>1
    <3> QED BY <1>6, <3>1 DEF Fits
  <2>4. Takes(ks)
    <3>1. Orderly(ks, pos - 1, Length + 2)
      BY <1>2, <2>1, <2>2, OrderlyOne DEF Ready
    <3>2. \A p \in Places : Read < p /\ p <= pos - 1 => p = pos - 1
      BY <1>2 DEF Places
    <3>3. Read' = pos - 1
      <4>1. pos = Length + 1 /\ pos' = Length + 2 /\ Length \in Nat /\ pc' = "double"
        BY <1>1, <1>2, <2>1
      <4> QED BY <4>1 DEF Read
    <3> QED BY <1>1, <2>1, <2>3, <3>1, <3>2, <3>3, Going DEF Ready
  <2>5. Placed'
    <3>1. ~(pos' <= Length + 1) /\ start' < pos' - 1 /\ start' \in Int /\ pos' \in Int
      BY <1>1, <1>2, <1>7, <2>1
    <3> QED BY <1>1, <1>7, <3>1, PlacedInQuotes
  <2> QED BY <1>8, <2>4, <2>5 DEF Good
<1> QED BY <1>9, <1>10

LEMMA GoodNext == ASSUME Ready, Next PROVE Good
BY NoComment, GoodSkip, GoodSimple, GoodOneOrTwo, GoodDigit, GoodNumberEnd, GoodReadTok,
   GoodWordEnd, GoodPlain, GoodBackslash, GoodOpenQuote, GoodInQuotes, GoodCloseQuote,
   GoodDoubleEscape DEF Next
-----------------------------------------------------------------------------
(* So Understood is kept. *)

LEMMA UnderstoodInit == Init => Understood
<1> SUFFICES ASSUME Init PROVE Placed /\ Behind /\ Collected /\ HeldTogether /\ Cut /\ Found
  BY DEF Understood
<1>1. /\ text \in Seq(Symbol) /\ pos = 1 /\ pc = "build" /\ start = 1 /\ val = <<>>
      /\ toks = <<>> /\ Length \in Nat
  BY LexedInit DEF Init, Lexed, Length
<1>2. Read = 0 /\ 1 - 1 = 0 /\ pos - 1 = 0 /\ DOMAIN toks = {} /\ Len(toks) = 0
  BY <1>1 DEF Read
<1>3. Mode[0] = "plain"
  BY <1>1, ModeIs
<1>4. \A p \in Places : p \in Nat /\ ~(p <= Read) /\ ~(p + 1 <= Read)
  BY <1>1, <1>2 DEF Places
<1>5. Placed
  BY <1>1, <1>2, <1>3 DEF Placed
<1>6. Behind /\ HeldTogether /\ Found /\ Cut
  <2>1. 1 .. Len(toks) - 1 = {}
    BY <1>2
  <2> QED BY <1>1, <1>2, <1>4, <2>1 DEF Behind, HeldTogether, Found, Cut
<1>7. Collected
  <2>1. \A n \in DOMAIN Values : DOMAIN Values[n] = {} /\ ToSet(Values[n]) = {}
    <3>1. DOMAIN Values = 1 .. 1 /\ \A n \in 1 .. 1 : Values[n] = <<>>
      BY <1>1, <1>2 DEF Values
    <3>2. DOMAIN <<>> = {} /\ ToSet(<<>>) = {}
      BY DEF ToSet
    <3> QED BY <3>1, <3>2
  <2>2. \A p : ~Has(p)
    BY <2>1 DEF Has
  <2> QED BY <1>1, <1>4, <2>1, <2>2 DEF Collected
<1> QED BY <1>5, <1>6, <1>7

LEMMA TextStays == [Next]_vars => text' = text
<1>1. Next => text' = text
  <2>1. \A type, v, from, next : Emit(type, v, from, next) => text' = text
    BY DEF Emit
  <2>2. \A place, v, from, next : Goto(place, from, v, next) => text' = text
    BY DEF Goto
  <2>3. \A v, p : Further(v, p) => text' = text
    BY <2>1, <2>2 DEF Further
  <2>4. \A c, one, two, v : OneOrTwo(c, one, two, v) => text' = text
    BY <2>1 DEF OneOrTwo
  <2>5. Skip \/ SimpleTok \/ PipeTok \/ RedirOutTok \/ RedirInTok \/ Ampersand => text' = text
    BY <2>1, <2>2, <2>4 DEF Skip, SimpleTok, PipeTok, RedirOutTok, RedirInTok, Ampersand
  <2>6. Comment \/ CommentChar \/ CommentEnd \/ Number \/ Digit \/ NumberEnd => text' = text
    BY <2>1, <2>2 DEF Comment, CommentChar, CommentEnd, Number, Digit, NumberEnd
  <2>7. ReadTok \/ WordEnd \/ Plain \/ Backslash \/ OpenQuote => text' = text
    BY <2>1, <2>2, <2>3 DEF ReadTok, WordEnd, Plain, Backslash, OpenQuote
  <2>8. DoubleEscape \/ DoubleChar \/ DoubleEnd \/ SingleChar \/ SingleEnd => text' = text
    BY <2>2 DEF DoubleEscape, DoubleChar, DoubleEnd, SingleChar, SingleEnd
  <2> QED BY <2>5, <2>6, <2>7, <2>8 DEF Next
<1> QED BY <1>1 DEF vars

LEMMA UnderstoodNext == ASSUME Lexed, Understood, [Next]_vars PROVE Understood'
<1>1. text' = text /\ NoHash' = NoHash /\ Lexed'
  BY TextStays, SameText, LexedNext
<1> SUFFICES ASSUME NoHash
             PROVE  (Placed /\ Behind /\ Collected /\ HeldTogether /\ Cut /\ Found)'
  BY <1>1 DEF Understood
<1>2. Placed /\ Behind /\ Collected /\ HeldTogether /\ Cut /\ Found
  BY DEF Understood
<1>3. CASE Next
  <2>1. Good
    BY <1>2, <1>3, GoodNext DEF Ready
  <2>2. PICK ks : Takes(ks)
    BY <2>1 DEF Good
  <2>3. Placed' /\ Cut'
    BY <2>1 DEF Good
  <2>4. Behind' /\ Found' /\ HeldTogether'
    BY <1>2, <2>2, BehindNext, FoundNext, HeldNext
  <2>5. Collected'
    BY <1>1, <1>2, <2>2, <2>3, CollectedNext
  <2> QED BY <2>3, <2>4, <2>5
<1>4. CASE UNCHANGED vars
  <2>1. /\ Mode' = Mode /\ Length' = Length /\ Places' = Places /\ Positions' = Positions
        /\ \A p : /\ At(p)' = At(p) /\ IsPlain(p)' = IsPlain(p)
                  /\ Inside(p)' = Inside(p) /\ Closes(p)' = Closes(p)
                  /\ IsEscaped(p)' = IsEscaped(p) /\ KeptBackslash(p)' = KeptBackslash(p)
    BY <1>1, SameText
  <2>2. /\ pos' = pos /\ pc' = pc /\ start' = start /\ val' = val /\ toks' = toks
        /\ Read' = Read /\ Newest' = Newest /\ Values' = Values
        /\ \A p : Spanned(p)' = Spanned(p) /\ Has(p)' = Has(p)
    BY <1>4 DEF vars, Read, Newest, Values, Spanned, Has
  <2>3. Placed'
    BY <1>1, <1>2, <2>1, <2>2 DEF Placed
  <2>4. Behind' /\ Found' /\ HeldTogether'
    BY <1>1, <1>2, <2>1, <2>2 DEF Behind, Found, HeldTogether
  <2>5. Collected'
    BY <1>1, <1>2, <2>1, <2>2 DEF Collected, Belongs
  <2>6. Cut'
    BY <1>1, <1>2, <2>1, <2>2 DEF Cut, Parted
  <2> QED BY <2>3, <2>4, <2>5, <2>6
<1> QED BY <1>3, <1>4

LEMMA Understanding == Spec => []Understood
BY AlwaysLexed, UnderstoodInit, UnderstoodNext, PTL DEF Spec

(* When all has been read, everything lies behind Read, and in a token. *)
LEMMA AtTheEnd ==
    ASSUME Lexed, Understood, ReadAll
    PROVE  /\ Placed /\ Behind /\ Collected /\ HeldTogether /\ Cut /\ Found
           /\ \A p \in Places : p <= Read
           /\ \A p : Has(p) <=> \E n \in DOMAIN toks : p \in ToSet(toks[n].val)
           /\ DOMAIN Values = 1 .. Len(toks) + 1 /\ DOMAIN toks = 1 .. Len(toks)
           /\ Len(toks) \in Nat /\ Length \in Nat
           /\ \A n \in DOMAIN toks : n \in DOMAIN Values /\ Values[n] = toks[n].val
<1>1. /\ Placed /\ Behind /\ Collected /\ HeldTogether /\ Cut /\ Found
      /\ pc = "build" /\ EndsSeen = 1
  BY DEF ReadAll, Understood
<1>2. Length \in Nat /\ toks \in Seq(Token) /\ val = <<>>
  BY <1>1 DEF Lexed, Length, Placed
<1>3. Read = Length + 1
  <2>1. {n \in DOMAIN toks : toks[n].type = Eof} # {}
    BY <1>1, FS_EmptySet DEF EndsSeen
  <2>2. pos = Length + 2
    BY <1>1, <2>1 DEF Behind
  <2> QED BY <1>1, <1>2, <2>2 DEF Read
<1>4. /\ Len(toks) \in Nat /\ DOMAIN toks = 1 .. Len(toks)
      /\ DOMAIN Values = 1 .. Len(toks) + 1
  BY <1>2 DEF Values
<1>5. \A n \in 1 .. Len(toks) + 1 : n \in 1 .. Len(toks) \/ n = Len(toks) + 1
  BY <1>4
<1>6. \A n \in 1 .. Len(toks) : n \in 1 .. Len(toks) + 1 /\ n <= Len(toks)
  BY <1>4
<1>7. Values[Len(toks) + 1] = <<>> /\ \A n \in 1 .. Len(toks) : Values[n] = toks[n].val
  BY <1>2, <1>4 DEF Values
<1>8. ToSet(<<>>) = {}
  BY DEF ToSet
<1>9. \A p : Has(p) <=> \E n \in DOMAIN toks : p \in ToSet(toks[n].val)
  BY <1>4, <1>5, <1>6, <1>7, <1>8 DEF Has
<1>10. \A p \in Places : p <= Read
  BY <1>2, <1>3 DEF Places
<1> QED BY <1>1, <1>2, <1>4, <1>6, <1>7, <1>9, <1>10

(* The words hold what they should, for every input, whatever its length,  *)
(* its quotes and its backslashes (lexer.c:144-236).                       *)
THEOREM TextIsKept == Spec => []TextKept
<1>1. ASSUME Lexed, Understood PROVE TextKept
  <2> SUFFICES ASSUME ReadAll
               PROVE  /\ \A p \in Places :
                            Belongs(p) <=> \E n \in DOMAIN toks : p \in ToSet(toks[n].val)
                      /\ \A n, m \in DOMAIN toks :
                            \A i \in DOMAIN toks[n].val, j \in DOMAIN toks[m].val :
                                n < m \/ (n = m /\ i < j) =>
                                    toks[n].val[i] < toks[m].val[j]
    BY DEF TextKept
  <2>1. \A p \in Places : Belongs(p) <=> Has(p)
    BY <1>1, AtTheEnd DEF Collected
  <2>2. \A n \in DOMAIN toks : n \in DOMAIN Values /\ Values[n] = toks[n].val
    BY <1>1, AtTheEnd
  <2>3. \A n, m \in DOMAIN Values :
            \A i \in DOMAIN Values[n], j \in DOMAIN Values[m] :
                n < m \/ (n = m /\ i < j) => Values[n][i] < Values[m][j]
    BY <1>1, AtTheEnd DEF Collected
  <2>4. \A p : Has(p) <=> \E n \in DOMAIN toks : p \in ToSet(toks[n].val)
    BY <1>1, AtTheEnd
  <2> QED BY <2>1, <2>2, <2>3, <2>4
<1> QED BY AlwaysLexed, Understanding, <1>1, PTL

(* Quotes hold a word together and separators part it, for every input     *)
(* (lexer.c:202).                                                          *)
THEOREM WordsAreCut == Spec => []WordsCut
<1>1. ASSUME Lexed, Understood PROVE WordsCut
  <2> SUFFICES ASSUME ReadAll
               PROVE  /\ \A p \in Places : p + 1 \in Places /\ Inside(p) /\ Inside(p + 1) =>
                            \E n \in DOMAIN toks : {p, p + 1} \subseteq ToSet(toks[n].val)
                      /\ \A n \in 1 .. Len(toks) - 1 :
                            IsWord(toks[n]) /\ IsWord(toks[n + 1]) =>
                                \/ \E p \in toks[n].at .. toks[n + 1].at :
                                       IsPlain(p) /\ text[p] \in White \cup Operator
                                \/ text[toks[n].at] \in {"digit", "amp"}
                                \/ text[toks[n + 1].at] = "bang"
    BY DEF WordsCut
  <2>1. ASSUME NEW p \in Places, p + 1 \in Places, Inside(p), Inside(p + 1)
        PROVE  \E n \in DOMAIN toks : {p, p + 1} \subseteq ToSet(toks[n].val)
    <3>1. Length \in Nat /\ \A q \in Places : q <= Read
      BY <1>1, AtTheEnd
    <3>2. p + 1 <= Length /\ p + 1 <= Read
      BY <2>1, <3>1 DEF Places
    <3>3. PICK n \in DOMAIN Values : {p, p + 1} \subseteq ToSet(Values[n])
      BY <1>1, <2>1, <3>2, AtTheEnd DEF HeldTogether
    <3>4. n \in 1 .. Len(toks) \/ n = Len(toks) + 1
      BY <1>1, <3>3, AtTheEnd
    <3>5. n # Len(toks) + 1
      <4>1. val = <<>> /\ Len(toks) \in Nat
        BY <1>1, AtTheEnd DEF Placed, ReadAll
      <4>2. Values[Len(toks) + 1] = <<>>
        BY <4>1 DEF Values
      <4>3. ToSet(<<>>) = {}
        BY DEF ToSet
      <4> QED BY <3>3, <4>2, <4>3
    <3> QED BY <1>1, <3>3, <3>4, <3>5, AtTheEnd
  <2>2. \A n \in 1 .. Len(toks) - 1 :
            IsWord(toks[n]) /\ IsWord(toks[n + 1]) =>
                Parted(toks[n], toks[n + 1].at) \/ text[toks[n + 1].at] = "bang"
    BY <1>1, AtTheEnd DEF Cut
  <2>3. \A n \in 1 .. Len(toks) - 1 :
            Parted(toks[n], toks[n + 1].at) =>
                \/ \E p \in toks[n].at .. toks[n + 1].at :
                       IsPlain(p) /\ text[p] \in White \cup Operator
                \/ text[toks[n].at] \in {"digit", "amp"}
    BY DEF Parted
  <2> QED BY <2>1, <2>2, <2>3
<1> QED BY AlwaysLexed, Understanding, <1>1, PTL

(* Operators are of the kind of their characters.  A word keeps nothing    *)
(* from in front of where it began, and one that began with an & is this & *)
(* alone (lexer.c:99, 204).                                                *)
OfKind(t) ==
    /\ IsOperator(t) =>
          /\ \A p \in Span(t) : p \in Places /\ IsPlain(p) /\ text[p] = Sign[t.type]
          /\ t.type \in {"pipe", "out"} => At(t.at + 1) # Sign[t.type]
    /\ IsWord(t) =>
          /\ \A p \in ToSet(t.val) : t.at <= p
          /\ text[t.at] = "amp" => At(t.at + 1) # "amp"

InWord == {"number", "word", "double", "single"}
Kinds ==
    /\ \A n \in DOMAIN toks : OfKind(toks[n])
    /\ pc \in InWord => text[start] # "amp" /\ \A p \in ToSet(val) : start <= p

LEMMA KindsPop ==
    ASSUME Lexed, Kinds, text' = text, pc' = "build",
           NEW t, OfKind(t), toks' = Append(toks, t)
    PROVE  Kinds'
<1>1. /\ toks \in Seq(Token) /\ DOMAIN toks = 1 .. Len(toks) /\ Len(toks) \in Nat
  BY DEF Lexed
<1>2. \A u : OfKind(u)' <=> OfKind(u)
  BY SameText DEF OfKind, IsOperator, IsWord, Span, Width
<1>3. ASSUME NEW n \in DOMAIN toks' PROVE OfKind(toks'[n])
  <2>1. (n \in DOMAIN toks /\ toks'[n] = toks[n]) \/ toks'[n] = t
    BY <1>1, <1>3
  <2> QED BY <2>1 DEF Kinds
<1>4. pc' \notin InWord
  BY DEF InWord
<1>5. (\A n \in DOMAIN toks : OfKind(toks[n]))'
  BY <1>2, <1>3
<1> QED BY <1>4, <1>5 DEF Kinds, InWord

LEMMA KindsGoto ==
    ASSUME Kinds, text' = text, toks' = toks,
           pc' \in InWord => text[start'] # "amp" /\ \A p \in ToSet(val') : start' <= p
    PROVE  Kinds'
<1>1. \A u : OfKind(u)' <=> OfKind(u)
  BY SameText DEF OfKind, IsOperator, IsWord, Span, Width
<1>2. (\A n \in DOMAIN toks : OfKind(toks[n]))'
  BY <1>1 DEF Kinds
<1>3. (\A p \in ToSet(val) : start <= p)' <=> \A p \in ToSet(val') : start' <= p
  BY DEF ToSet
<1> QED BY <1>2, <1>3 DEF Kinds, InWord

(* What a word under construction may keep. *)
LEMMA KeptFrom ==
    ASSUME Lexed, Kinds, pc \in InWord, NEW p \in Nat, start <= p, NEW q \in Nat, start <= q,
           NEW v \in {val, Append(val, p), val \o <<p, q>>}
    PROVE  \A r \in ToSet(v) : start <= r
<1>1. val \in Seq(Positions) /\ Len(val) \in Nat /\ DOMAIN val = 1 .. Len(val)
  BY DEF Lexed
<1>2. \A i \in DOMAIN val : start <= val[i]
  BY DEF Kinds, ToSet
<1>3. CASE v = val
  BY <1>3 DEF Kinds
<1>4. CASE v = Append(val, p)
  <2>1. \A i \in DOMAIN v : (i \in DOMAIN val /\ v[i] = val[i]) \/ v[i] = p
    BY <1>1, <1>4
  <2> QED BY <1>2, <2>1 DEF ToSet
<1>5. CASE v = val \o <<p, q>>
  <2>1. Len(<<p, q>>) = 2 /\ <<p, q>>[1] = p /\ <<p, q>>[2] = q
    OBVIOUS
  <2>2. \A i \in DOMAIN v : (i \in DOMAIN val /\ v[i] = val[i]) \/ v[i] = p \/ v[i] = q
    BY <1>1, <1>5, <2>1
  <2> QED BY <1>2, <2>2 DEF ToSet
<1> QED BY <1>3, <1>4, <1>5

LEMMA WordOfKind ==
    ASSUME Kinds, pc \in InWord, NEW v, \A p \in ToSet(v) : start <= p,
           NEW type \in {"word", "nb"}
    PROVE  OfKind([type |-> type, val |-> v, at |-> start])
<1> DEFINE t == [type |-> type, val |-> v, at |-> start]
<1>1. t.type = type /\ t.val = v /\ t.at = start
  OBVIOUS
<1>2. ~IsOperator(t)
  BY <1>1 DEF IsOperator, Sign
<1> HIDE DEF t
<1> QED BY <1>1, <1>2 DEF OfKind, Kinds, t

LEMMA OperatorOfKind ==
    ASSUME Ready, pc = "build", At(pos) # Eof,
           NEW type \in DOMAIN Sign, At(pos) = Sign[type],
           type \in {"or", "and", "app"} => At(pos + 1) = At(pos),
           type \in {"pipe", "out"} => At(pos + 1) # At(pos)
    PROVE  OfKind([type |-> type, val |-> <<>>, at |-> pos])
<1> DEFINE t == [type |-> type, val |-> <<>>, at |-> pos]
<1>1. t.type = type /\ t.at = pos
  OBVIOUS
<1>2. type # "word" /\ type # "nb"
  BY DEF Sign
<1>3. /\ pos \in Nat /\ pos \in Places /\ pos <= Length /\ Length \in Nat /\ pos >= 1
      /\ At(pos) = text[pos] /\ IsPlain(pos) /\ text \in Seq(Symbol)
      /\ text[pos] \notin {"dq", "sq", "bs"} => Mode[pos] = "plain"
  BY AtBuild DEF Ready
<1>4. text[pos] \notin {"dq", "sq", "bs"}
  BY <1>3 DEF Sign
<1>5. ASSUME type \in {"or", "and", "app"}
      PROVE  pos + 1 \in Places /\ IsPlain(pos + 1) /\ text[pos + 1] = text[pos]
  <2>1. pos + 1 \in Nat \ {0} /\ At(pos + 1) # Eof
    BY <1>3, <1>5
  <2>2. pos + 1 <= Length
    BY <1>3, <2>1, Reading
  <2>3. (pos + 1) - 1 = pos
    BY <1>3
  <2> QED BY <1>3, <1>4, <1>5, <2>2, <2>3 DEF Places, At, IsPlain
<1>6. ASSUME NEW p \in Span(t) PROVE p \in Places /\ IsPlain(p) /\ text[p] = Sign[type]
  <2>1. p = pos \/ (p = pos + 1 /\ type \in {"or", "and", "app"})
    <3>1. p \in pos .. pos + Width(t) - 1
      BY <1>1, <1>6 DEF Span
    <3>2. Width(t) = IF type \in {"or", "and", "app"} THEN 2 ELSE 1
      BY <1>1 DEF Width
    <3> QED BY <1>3, <3>1, <3>2
  <2> QED BY <1>3, <1>5, <2>1
<1> HIDE DEF t
<1> QED BY <1>1, <1>2, <1>3, <1>6 DEF OfKind, IsWord, t

LEMMA KindsBuild ==
    ASSUME Ready, Kinds,
           Skip \/ SimpleTok \/ PipeTok \/ RedirOutTok \/ RedirInTok \/ Ampersand
    PROVE  Kinds'
<1>0. Lexed
  BY DEF Ready
<1>1. CASE Skip
  BY <1>1, KindsGoto DEF Skip, Building, Goto, InWord
<1>2. CASE SimpleTok
  <2> DEFINE t == [type |-> At(pos), val |-> <<>>, at |-> pos]
  <2>1. /\ pc = "build" /\ At(pos) \in {Eof, "nl", "semi"} /\ text' = text /\ pc' = "build"
        /\ toks' = Append(toks, t)
    BY <1>2 DEF SimpleTok, Building, Emit
  <2>2. OfKind(t)
    <3>1. CASE At(pos) = Eof
      BY <3>1 DEF OfKind, IsOperator, IsWord, Sign, Eof
    <3>2. CASE At(pos) \in {"nl", "semi"}
      <4>1. At(pos) \in DOMAIN Sign /\ Sign[At(pos)] = At(pos) /\ At(pos) # Eof
            /\ At(pos) \notin {"or", "and", "app", "pipe", "out"}
        BY <3>2 DEF Sign, Eof
      <4> QED BY <2>1, <4>1, OperatorOfKind
    <3> QED BY <2>1, <3>1, <3>2
  <2> HIDE DEF t
  <2> QED BY <1>0, <2>1, <2>2, KindsPop
<1>3. ASSUME NEW c \in {"bar", "gt", "amp"}, NEW one \in {"pipe", "out"}, NEW two \in {"or", "app", "and"},
             two \in DOMAIN Sign /\ Sign[two] = c, c # "amp" => Sign[one] = c /\ one \in DOMAIN Sign,
             pc = "build", At(pos) = c
      PROVE  /\ At(pos + 1) = c => OfKind([type |-> two, val |-> <<>>, at |-> pos])
             /\ At(pos + 1) # c /\ c # "amp" => OfKind([type |-> one, val |-> <<>>, at |-> pos])
  <2>1. c # Eof /\ one \notin {"or", "and", "app"} /\ two \notin {"pipe", "out"}
    BY DEF Eof
  <2> QED BY <1>3, <2>1, OperatorOfKind
<1>4. CASE PipeTok
  <2>1. /\ pc = "build" /\ At(pos) = "bar" /\ text' = text /\ pc' = "build"
        /\ toks' = Append(toks, [type |-> IF At(pos + 1) = "bar" THEN "or" ELSE "pipe",
                                 val |-> <<>>, at |-> pos])
    BY <1>4 DEF PipeTok, OneOrTwo, Building, Emit
  <2>2. /\ "or" \in DOMAIN Sign /\ Sign["or"] = "bar" /\ Sign["pipe"] = "bar"
        /\ "pipe" \in DOMAIN Sign
    BY DEF Sign
  <2>3. OfKind([type |-> IF At(pos + 1) = "bar" THEN "or" ELSE "pipe", val |-> <<>>, at |-> pos])
    BY <1>3, <2>1, <2>2
  <2> QED BY <1>0, <2>1, <2>3, KindsPop
<1>5. CASE RedirOutTok
  <2>1. /\ pc = "build" /\ At(pos) = "gt" /\ text' = text /\ pc' = "build"
        /\ toks' = Append(toks, [type |-> IF At(pos + 1) = "gt" THEN "app" ELSE "out",
                                 val |-> <<>>, at |-> pos])
    BY <1>5 DEF RedirOutTok, OneOrTwo, Building, Emit
  <2>2. /\ "app" \in DOMAIN Sign /\ Sign["app"] = "gt" /\ Sign["out"] = "gt"
        /\ "out" \in DOMAIN Sign
    BY DEF Sign
  <2>3. OfKind([type |-> IF At(pos + 1) = "gt" THEN "app" ELSE "out", val |-> <<>>, at |-> pos])
    BY <1>3, <2>1, <2>2
  <2> QED BY <1>0, <2>1, <2>3, KindsPop
<1>6. CASE RedirInTok
  <2> DEFINE t == [type |-> "in", val |-> <<>>, at |-> pos]
  <2>1. /\ pc = "build" /\ At(pos) = "lt" /\ text' = text /\ pc' = "build"
        /\ toks' = Append(toks, t)
    BY <1>6 DEF RedirInTok, Building, Emit
  <2>2. "in" \in DOMAIN Sign /\ Sign["in"] = "lt" /\ "lt" # Eof
    BY DEF Sign, Eof
  <2>3. OfKind(t)
    BY <2>1, <2>2, OperatorOfKind
  <2> HIDE DEF t
  <2> QED BY <1>0, <2>1, <2>3, KindsPop
<1>7. CASE Ampersand
  <2>1. /\ pc = "build" /\ At(pos) = "amp" /\ text' = text /\ pc' = "build"
        /\ toks' = Append(toks, IF At(pos + 1) = "amp"
                                 THEN [type |-> "and", val |-> <<>>, at |-> pos]
                                 ELSE [type |-> "word", val |-> <<pos>>, at |-> pos])
    BY <1>7 DEF Ampersand, OneOrTwo, Building, Emit
  <2>2. "and" \in DOMAIN Sign /\ Sign["and"] = "amp"
    BY DEF Sign
  <2>3. At(pos + 1) = "amp" => OfKind([type |-> "and", val |-> <<>>, at |-> pos])
    BY <1>3, <2>1, <2>2
  <2>4. At(pos + 1) # "amp" => OfKind([type |-> "word", val |-> <<pos>>, at |-> pos])
    <3>1. pos \in Nat /\ \A p \in ToSet(<<pos>>) : pos <= p
      BY <1>0 DEF Lexed, ToSet
    <3> QED BY <3>1 DEF OfKind, IsOperator, Sign
  <2> QED BY <1>0, <2>1, <2>3, <2>4, KindsPop
<1> QED BY <1>1, <1>2, <1>4, <1>5, <1>6, <1>7

(* Where the loops of words may keep characters from. *)
LEMMA FromStart ==
    ASSUME Ready, pc \in InWord
    PROVE  /\ pos \in Nat /\ pos - 1 \in Nat /\ start \in Nat
           /\ start <= pos - 1 /\ start <= pos
<1> QED BY DEF Ready, Placed, Lexed, InWord, Positions, Length

LEMMA KindsNumber == ASSUME Ready, Kinds, Number \/ Digit \/ NumberEnd PROVE Kinds'
<1>0. Lexed
  BY DEF Ready
<1>1. CASE Number
  <2>1. /\ pc = "build" /\ At(pos) = "digit" /\ text' = text /\ toks' = toks
        /\ start' = pos /\ val' = <<pos>>
    BY <1>1 DEF Number, Building, Goto
  <2>2. text[pos] # "amp" /\ pos \in Nat
    BY <2>1, AtBuild DEF Ready, Eof
  <2>3. \A p \in ToSet(<<pos>>) : pos <= p
    BY <2>2 DEF ToSet
  <2> QED BY <2>1, <2>2, <2>3, KindsGoto
<1>2. CASE Digit
  <2>1. /\ pc \in InWord /\ text' = text /\ toks' = toks /\ start' = start
        /\ val' = Append(val, pos)
    BY <1>2 DEF Digit, Goto, InWord
  <2>2. \A p \in ToSet(val') : start <= p
    BY <1>0, <2>1, FromStart, KeptFrom
  <2>3. text[start] # "amp"
    BY <2>1 DEF Kinds
  <2> QED BY <2>1, <2>2, <2>3, KindsGoto
<1>3. CASE NumberEnd
  <2> DEFINE t == [type |-> IF At(pos) \in {"lt", "gt"} THEN "nb" ELSE "word",
                   val |-> val, at |-> start]
  <2>1. /\ pc \in InWord /\ text' = text /\ pc' = "build" /\ toks' = Append(toks, t)
    BY <1>3 DEF NumberEnd, Emit, InWord
  <2>2. \A p \in ToSet(val) : start <= p
    BY <2>1 DEF Kinds
  <2>3. OfKind(t)
    BY <2>1, <2>2, WordOfKind
  <2> HIDE DEF t
  <2> QED BY <1>0, <2>1, <2>3, KindsPop
<1> QED BY <1>1, <1>2, <1>3

LEMMA KindsFurther ==
    ASSUME Ready, Kinds, pc = "word", NEW v, NEW p, Further(v, p),
           \A q \in ToSet(v) : start <= q
    PROVE  Kinds'
<1>0. Lexed /\ pc \in InWord
  BY DEF Ready, InWord
<1>1. CASE At(p) \in StopsBefore
  <2> DEFINE t == [type |-> "word", val |-> v, at |-> start]
  <2>1. text' = text /\ pc' = "build" /\ toks' = Append(toks, t)
    BY <1>1 DEF Further, Emit
  <2>2. OfKind(t)
    BY <1>0, WordOfKind
  <2> HIDE DEF t
  <2> QED BY <1>0, <2>1, <2>2, KindsPop
<1>2. CASE At(p) \notin StopsBefore
  <2>1. text' = text /\ toks' = toks /\ start' = start /\ val' = v
    BY <1>2 DEF Further, Goto
  <2> QED BY <1>0, <2>1, KindsGoto DEF Kinds
<1> QED BY <1>1, <1>2

LEMMA KindsWord ==
    ASSUME Ready, Kinds, ReadTok \/ WordEnd \/ Plain \/ Backslash \/ OpenQuote
    PROVE  Kinds'
<1>0. Lexed
  BY DEF Ready
<1>1. CASE ReadTok
  <2>1. /\ pc = "build" /\ text' = text /\ toks' = toks /\ start' = pos /\ val' = <<>>
        /\ At(pos) \in {"space", "dq", "sq", "bs", "bang", "dollar"} \cup Letter
    BY <1>1 DEF ReadTok, Building, Goto
  <2>2. At(pos) # Eof /\ At(pos) # "amp"
    BY <2>1, LetterAssumption DEF Named, Eof
  <2>3. text[pos] # "amp"
    BY <2>1, <2>2, AtBuild DEF Ready
  <2>4. ToSet(<<>>) = {}
    BY DEF ToSet
  <2> QED BY <2>1, <2>3, <2>4, KindsGoto
<1>2. CASE WordEnd
  <2> DEFINE t == [type |-> "word", val |-> val, at |-> start]
  <2>1. pc \in InWord /\ text' = text /\ pc' = "build" /\ toks' = Append(toks, t)
    BY <1>2 DEF WordEnd, Emit, InWord
  <2>2. \A p \in ToSet(val) : start <= p
    BY <2>1 DEF Kinds
  <2>3. OfKind(t)
    BY <2>1, <2>2, WordOfKind
  <2> HIDE DEF t
  <2> QED BY <1>0, <2>1, <2>3, KindsPop
<1>3. CASE Plain
  <2>1. pc = "word" /\ pc \in InWord /\ Further(Append(val, pos - 1), pos)
    BY <1>3 DEF Plain, InWord
  <2>2. \A p \in ToSet(Append(val, pos - 1)) : start <= p
    BY <1>0, <2>1, FromStart, KeptFrom
  <2> QED BY <2>1, <2>2, KindsFurther
<1>4. CASE Backslash
  <2> DEFINE v == IF At(pos) = "nl" THEN val ELSE Append(val, pos)
  <2>1. pc = "word" /\ pc \in InWord /\ Further(v, After(pos))
    BY <1>4 DEF Backslash, InWord
  <2>2. \A p \in ToSet(v) : start <= p
    BY <1>0, <2>1, FromStart, KeptFrom
  <2> HIDE DEF v
  <2> QED BY <2>1, <2>2, KindsFurther
<1>5. CASE OpenQuote
  <2>1. pc \in InWord /\ text' = text /\ toks' = toks /\ start' = start /\ val' = val
    BY <1>5 DEF OpenQuote, Goto, InWord
  <2> QED BY <2>1, KindsGoto DEF Kinds
<1> QED BY <1>1, <1>2, <1>3, <1>4, <1>5

LEMMA KindsQuoted ==
    ASSUME Ready, Kinds, DoubleEscape \/ DoubleChar \/ DoubleEnd \/ SingleChar \/ SingleEnd
    PROVE  Kinds'
<1>0. Lexed
  BY DEF Ready
<1>1. /\ pc \in InWord /\ text' = text /\ toks' = toks /\ start' = start
      /\ val' \in {val, Append(val, pos - 1), val \o Escaped(pos)}
  BY DEF DoubleEscape, DoubleChar, DoubleEnd, SingleChar, SingleEnd, Goto, InWord
<1>2. val' \in {val, Append(val, pos - 1), Append(val, pos), val \o <<pos - 1, pos>>}
  <2>1. val \o <<>> = val /\ val \o <<pos>> = Append(val, pos)
    BY <1>0 DEF Lexed
  <2> QED BY <1>1, <2>1 DEF Escaped
<1>3. \A p \in ToSet(val') : start <= p
  BY <1>0, <1>1, <1>2, FromStart, KeptFrom
<1> QED BY <1>1, <1>3, KindsGoto DEF Kinds

LEMMA KindsNext == ASSUME Lexed, Understood, NoHash => Kinds, [Next]_vars PROVE (NoHash => Kinds)'
<1>1. text' = text /\ NoHash' = NoHash
  BY TextStays, SameText
<1> SUFFICES ASSUME NoHash PROVE Kinds'
  BY <1>1
<1>2. Ready
  BY DEF Understood, Ready
<1>3. CASE Next
  BY <1>2, <1>3, NoComment, KindsBuild, KindsNumber, KindsWord, KindsQuoted DEF Next
<1>4. CASE UNCHANGED vars
  BY <1>1, <1>4, KindsGoto DEF vars, Kinds
<1> QED BY <1>3, <1>4

LEMMA KindsAlways == Spec => [](NoHash => Kinds)
<1>1. Init => (NoHash => Kinds)
  BY DEF Init, Kinds, InWord
<1> QED BY <1>1, AlwaysLexed, Understanding, KindsNext, PTL DEF Spec

(* No operator of the text is lost or taken for another one, for every     *)
(* input, but behind a closing quote, or && inside of a word               *)
(* (lexer.c:74-130, 194-230).                                              *)
THEOREM OperatorsAreSeen == Spec => []OperatorsSeen
<1>1. ASSUME Lexed, Understood, NoHash => Kinds PROVE OperatorsSeen
  <2> SUFFICES ASSUME ReadAll
               PROVE  /\ \A p \in Places : IsPlain(p) /\ text[p] \in Operator =>
                            Tokenized(p) \/ (p > 1 /\ Closes(p - 1))
                      /\ \A p \in Places : OpensAnd(p) =>
                            \/ Tokenized(p)
                            \/ \E n \in DOMAIN toks :
                                  /\ IsWord(toks[n]) /\ toks[n].at < p
                                  /\ p \in ToSet(toks[n].val)
                      /\ \A n \in DOMAIN toks : IsOperator(toks[n]) =>
                            /\ \A p \in Span(toks[n]) :
                                  p \in Places /\ IsPlain(p) /\ text[p] = Sign[toks[n].type]
                            /\ toks[n].type \in {"pipe", "out"} =>
                                  At(toks[n].at + 1) # Sign[toks[n].type]
    BY Zenon DEF OperatorsSeen
  <2>1. \A n \in DOMAIN toks : OfKind(toks[n])
    BY <1>1 DEF ReadAll, Kinds
  <2>2. /\ toks \in Seq(Token) /\ DOMAIN toks = 1 .. Len(toks) /\ Len(toks) \in Nat
        /\ \A n \in DOMAIN toks : toks[n] \in Token
        /\ Length \in Nat /\ text \in Seq(Symbol)
    BY <1>1 DEF Lexed, Length
  <2>3. ASSUME NEW p \in Places, Spanned(p) PROVE Tokenized(p)
    <3>1. PICK n \in DOMAIN toks : ~IsWord(toks[n]) /\ p \in Span(toks[n])
      BY <2>3 DEF Spanned
    <3>2. toks[n].type # Eof
      <4>1. SUFFICES ASSUME toks[n].type = Eof PROVE FALSE
        OBVIOUS
      <4>2. toks[n].at > Length /\ Width(toks[n]) = 1 /\ toks[n].at \in Nat
        BY <1>1, <2>2, <4>1, AtTheEnd DEF Behind, Width, Token, Eof
      <4> QED BY <2>2, <3>1, <4>2 DEF Span, Places
    <3>3. IsOperator(toks[n])
      <4>1. toks[n].type \in Types
        BY <2>2 DEF Token
      <4> QED BY <3>1, <3>2, <4>1 DEF Types, IsWord, IsOperator, Sign, Eof
    <3>4. text[p] = Sign[toks[n].type]
      BY <2>1, <3>1, <3>3 DEF OfKind
    <3> QED BY <3>1, <3>3, <3>4 DEF Tokenized
  <2>4. ASSUME NEW p \in Places, IsPlain(p), text[p] \in Operator
        PROVE  Tokenized(p) \/ (p > 1 /\ Closes(p - 1))
    BY <1>1, <2>3, <2>4, AtTheEnd DEF Found
  <2>5. ASSUME NEW p \in Places, OpensAnd(p), ~Tokenized(p)
        PROVE  \E n \in DOMAIN toks :
                   IsWord(toks[n]) /\ toks[n].at < p /\ p \in ToSet(toks[n].val)
    <3>1. IsPlain(p) /\ text[p] = "amp" /\ At(p + 1) = "amp" /\ ~Spanned(p)
      BY <2>3, <2>5 DEF OpensAnd
    <3>2. Has(p)
      <4>1. Belongs(p)
        BY <3>1 DEF Belongs
      <4> QED BY <1>1, <4>1, AtTheEnd DEF Collected
    <3>3. PICK n \in DOMAIN toks : p \in ToSet(toks[n].val)
      BY <1>1, <3>2, AtTheEnd
    <3>4. IsWord(toks[n])
      <4>1. ToSet(<<>>) = {}
        BY DEF ToSet
      <4> QED BY <1>1, <3>3, <4>1 DEF Lexed, Formed
    <3>5. toks[n].at <= p /\ (text[toks[n].at] = "amp" => At(toks[n].at + 1) # "amp")
      BY <2>1, <3>3, <3>4 DEF OfKind
    <3>6. toks[n].at # p
      BY <3>1, <3>5
    <3>7. toks[n].at \in Nat /\ p \in Nat
      BY <2>2 DEF Token, Places
    <3> QED BY <3>3, <3>4, <3>5, <3>6, <3>7
  <2> QED BY <2>1, <2>4, <2>5 DEF OfKind
<1> QED BY AlwaysLexed, Understanding, KindsAlways, <1>1, PTL
-----------------------------------------------------------------------------
(* Which $ of the double quotes are marked.  With nothing but words made,  *)
(* no comment was skipped, so that the loops stand where the modes of the  *)
(* text say (Aligned): Marks is inductive, comments in the text or not.    *)
(* A text of which nothing but words has been made so far, and the $ that  *)
(* a backslash in double quotes is in front of.                            *)
Straight == \A n \in DOMAIN toks : toks[n].type \in {"word", Eof}
Doubled(p) == p \in Places /\ text[p] = "dollar" /\ Mode[p - 1] = "double escape"
AllRight(v, m) == \A n \in DOMAIN v : Doubled(v[n]) => v[n] \in m

(* How the text is meant where the loops stand. *)
Aligned(place, p) ==
    /\ place \in {"build", "number"} /\ p <= Length => Mode[p - 1] = "plain"
    /\ place = "word" /\ p - 1 <= Length => Mode[p - 2] = "plain"
    /\ place \in {"double", "single"} /\ p - 1 <= Length => Mode[p - 2] = place

Marks ==
    Straight =>
        /\ Aligned(pc, pos)
        /\ \A p \in marked : Doubled(p)
        /\ AllRight(val, marked)
        /\ \A n \in DOMAIN toks : AllRight(toks[n].val, marked)

LEMMA MarksWhen ==
    ASSUME text' = text,
           Straight' =>
               /\ Aligned(pc', pos')
               /\ \A p \in marked' : Doubled(p)
               /\ AllRight(val', marked')
               /\ \A n \in DOMAIN toks' : AllRight(toks'[n].val, marked')
    PROVE  Marks'
<1>1. Mode' = Mode /\ Length' = Length /\ Places' = Places
  BY SameText
<1> HIDE DEF Mode
<1>2. \A p : Doubled(p)' <=> Doubled(p)
  BY <1>1 DEF Doubled
<1>3. \A v, m : AllRight(v, m)' <=> AllRight(v, m)
  BY <1>2 DEF AllRight
<1>4. Aligned(pc, pos)' <=> Aligned(pc', pos')
  BY <1>1 DEF Aligned
<1>5. AllRight(val, marked)' <=> AllRight(val', marked')
  BY <1>2 DEF AllRight
<1>6. \A n : AllRight(toks[n].val, marked)' <=> AllRight(toks'[n].val, marked')
  BY <1>2 DEF AllRight
<1> QED BY <1>2, <1>4, <1>5, <1>6 DEF Marks

(* A function reads on, and a token is popped. *)
LEMMA GotoMarks ==
    ASSUME Marks, NEW place, NEW from, NEW v, NEW next, Goto(place, from, v, next),
           Straight => Aligned(place, next) /\ AllRight(v, marked)
    PROVE  Marks'
<1>1. /\ pc' = place /\ val' = v /\ pos' = next
      /\ text' = text /\ marked' = marked /\ toks' = toks
  BY DEF Goto
<1>2. Straight' => Straight
  BY <1>1 DEF Straight
<1> QED BY <1>1, <1>2, MarksWhen DEF Marks

LEMMA EmitMarks ==
    ASSUME Lexed, Marks, NEW type, NEW v, NEW from, NEW next, Emit(type, v, from, next),
           Straight /\ type \in {"word", Eof} => Aligned("build", next) /\ AllRight(v, marked)
    PROVE  Marks'
<1> DEFINE t == [type |-> type, val |-> v, at |-> from]
<1>1. /\ toks' = Append(toks, t) /\ pos' = next /\ pc' = "build" /\ val' = <<>>
      /\ text' = text /\ marked' = marked
  BY DEF Emit
<1>2. t.type = type /\ t.val = v
  OBVIOUS
<1> HIDE DEF t
<1>3. toks \in Seq(Token) /\ Len(toks) \in Nat
  BY DEF Lexed
<1>4. /\ DOMAIN toks' = 1 .. Len(toks) + 1 /\ toks'[Len(toks) + 1] = t
      /\ DOMAIN toks = 1 .. Len(toks)
      /\ \A n \in 1 .. Len(toks) : toks'[n] = toks[n]
  BY <1>1, <1>3
<1>5. Straight' => Straight /\ type \in {"word", Eof}
  <2>1. ASSUME Straight' PROVE \A n \in 1 .. Len(toks) + 1 : toks'[n].type \in {"word", Eof}
    BY <1>4, <2>1 DEF Straight
  <2>2. ASSUME Straight', NEW n \in 1 .. Len(toks) PROVE toks[n].type \in {"word", Eof}
    <3>1. n \in 1 .. Len(toks) + 1
      BY <1>3
    <3> QED BY <1>4, <2>1, <2>2, <3>1
  <2>3. Len(toks) + 1 \in 1 .. Len(toks) + 1
    BY <1>3
  <2>4. Straight' => type \in {"word", Eof}
    BY <1>2, <1>4, <2>1, <2>3
  <2> QED BY <1>4, <2>2, <2>4 DEF Straight
<1>6. ASSUME Straight, type \in {"word", Eof}, NEW n \in DOMAIN toks'
      PROVE  AllRight(toks'[n].val, marked')
  <2>1. CASE n = Len(toks) + 1
    BY <1>1, <1>2, <1>4, <1>6, <2>1
  <2>2. CASE n # Len(toks) + 1
    <3>1. n \in 1 .. Len(toks)
      BY <1>3, <1>4, <2>2
    <3>2. toks'[n] = toks[n] /\ AllRight(toks[n].val, marked)
      BY <1>4, <1>6, <3>1 DEF Marks
    <3> QED BY <1>1, <3>2
  <2> QED BY <2>1, <2>2
<1>7. AllRight(val', marked')
  BY <1>1 DEF AllRight
<1> QED BY <1>1, <1>5, <1>6, <1>7, MarksWhen DEF Marks

(* Where the loops stand, comments or not. *)
LEMMA MarksAtBuild ==
    ASSUME Lexed, Aligned(pc, pos), pc \in {"build", "number"}, At(pos) # Eof
    PROVE  /\ pos \in Nat /\ pos >= 1 /\ Length \in Nat /\ pos \in Places
           /\ At(pos) = text[pos] /\ Mode[pos - 1] = "plain"
           /\ Mode[pos] = IF text[pos] = "dq" THEN "double"
                          ELSE IF text[pos] = "sq" THEN "single"
                          ELSE IF text[pos] = "bs" THEN "escape" ELSE "plain"
<1>1. pos \in Nat /\ pos >= 1 /\ Length \in Nat /\ text \in Seq(Symbol)
  BY DEF Lexed, Length
<1>2. pos <= Length
  BY <1>1, Reading
<1>3. pos \in Places
  BY <1>1, <1>2 DEF Places
<1>4. At(pos) = text[pos] /\ Mode[pos - 1] = "plain"
  BY <1>1, <1>2 DEF At, Aligned
<1> QED BY <1>1, <1>3, <1>4, Turns

LEMMA MarksInLoop ==
    ASSUME Lexed, Aligned(pc, pos), pc \in {"word", "double", "single"}, Cur # Eof
    PROVE  /\ pos \in Nat /\ pos >= 2 /\ Length \in Nat /\ pos - 1 \in Places
           /\ pos <= Length + 1 /\ After(pos) = IF pos <= Length THEN pos + 1 ELSE Length + 2
           /\ Cur = text[pos - 1] /\ (pos - 1) - 1 = pos - 2
           /\ Mode[pos - 2] = IF pc = "word" THEN "plain" ELSE pc
           /\ text \in Seq(Symbol)
<1>1. pos \in Nat /\ pos >= 2 /\ Length \in Nat /\ text \in Seq(Symbol)
  BY DEF Lexed, Length
<1>2. pos - 1 <= Length /\ pos - 1 \in Nat \ {0}
  <2>1. pos - 1 \in Nat \ {0}
    BY <1>1
  <2> QED BY <1>1, <2>1, Reading DEF Cur
<1>3. pos - 1 \in Places /\ (pos - 1) - 1 = pos - 2 /\ pos <= Length + 1
  BY <1>1, <1>2 DEF Places
<1>4. After(pos) = IF pos <= Length THEN pos + 1 ELSE Length + 2
  BY <1>1, Reading
<1>5. Cur = text[pos - 1]
  BY <1>2 DEF Cur, At
<1>6. Mode[pos - 2] = IF pc = "word" THEN "plain" ELSE pc
  BY <1>1, <1>2 DEF Aligned
<1> QED BY <1>1, <1>3, <1>4, <1>5, <1>6

(* A character that no backslash in double quotes is in front of. *)
LEMMA AppendRight ==
    ASSUME NEW m, NEW v \in Seq(Positions), AllRight(v, m), NEW p \in Positions,
           Doubled(p) => p \in m
    PROVE  AllRight(Append(v, p), m) /\ Append(v, p) \in Seq(Positions)
<1>1. /\ DOMAIN Append(v, p) = 1 .. Len(v) + 1 /\ Append(v, p)[Len(v) + 1] = p
      /\ DOMAIN v = 1 .. Len(v) /\ Len(v) \in Nat
      /\ \A n \in 1 .. Len(v) : Append(v, p)[n] = v[n]
  OBVIOUS
<1>2. ASSUME NEW n \in 1 .. Len(v) + 1, Doubled(Append(v, p)[n]) PROVE Append(v, p)[n] \in m
  <2>1. n \in 1 .. Len(v) \/ n = Len(v) + 1
    BY <1>1
  <2> QED BY <1>1, <1>2, <2>1 DEF AllRight
<1>3. Append(v, p) \in Seq(Positions)
  OBVIOUS
<1> QED BY <1>1, <1>2, <1>3 DEF AllRight

LEMMA NoneRight == ASSUME NEW m PROVE AllRight(<<>>, m)
BY DEF AllRight

LEMMA OneRight == ASSUME NEW m, NEW p, ~Doubled(p) PROVE AllRight(<<p>>, m)
BY DEF AllRight

LEMMA FurtherMarks ==
    ASSUME Lexed, Marks, NEW v, NEW p \in Nat, Further(v, p),
           Straight => (p <= Length => Mode[p - 1] = "plain") /\ AllRight(v, marked)
    PROVE  Marks'
<1>0. Length \in Nat
  BY DEF Lexed, Length
<1>1. CASE At(p) \in StopsBefore
  <2>1. Emit("word", v, start, p)
    BY <1>1 DEF Further
  <2>2. Straight => Aligned("build", p) /\ AllRight(v, marked)
    BY DEF Aligned
  <2> QED BY <2>1, <2>2, EmitMarks
<1>2. CASE At(p) \notin StopsBefore
  <2>1. Goto("word", start, v, p + 1)
    BY <1>2 DEF Further
  <2>2. (p + 1) - 1 = p /\ (p + 1) - 2 = p - 1
    OBVIOUS
  <2>3. Straight => Aligned("word", p + 1) /\ AllRight(v, marked)
    BY <2>2 DEF Aligned
  <2> QED BY <2>1, <2>3, GotoMarks
<1> QED BY <1>1, <1>2

LEMMA MarksInit == Init => Marks
<1> SUFFICES ASSUME Init PROVE Marks
  OBVIOUS
<1>1. text \in Seq(Symbol) /\ pos = 1 /\ pc = "build" /\ val = <<>> /\ marked = {} /\ toks = <<>>
  BY TextAssumption DEF Init
<1>2. Mode[0] = "plain"
  BY <1>1, ModeIs
<1>3. Aligned(pc, pos)
  BY <1>1, <1>2 DEF Aligned
<1>4. AllRight(val, marked)
  BY <1>1, NoneRight
<1> QED BY <1>1, <1>3, <1>4 DEF Marks

(* Between two tokens. *)
LEMMA MarksBuild ==
    ASSUME Lexed, Marks,
           Skip \/ SimpleTok \/ PipeTok \/ RedirOutTok \/ RedirInTok \/ Ampersand \/ ReadTok
    PROVE  Marks'
<1>0. /\ pc = "build" /\ pos \in Nat /\ Length \in Nat /\ (pos + 1) - 1 = pos
      /\ (pos + 1) - 2 = pos - 1 /\ val \in Seq(Positions)
  BY DEF Lexed, Length, Skip, SimpleTok, PipeTok, RedirOutTok, RedirInTok, Ampersand, ReadTok,
         OneOrTwo, Building
<1>1. ASSUME Straight, At(pos) # Eof
      PROVE  /\ Mode[pos - 1] = "plain" /\ pos \in Positions /\ At(pos) = text[pos]
             /\ At(pos) \notin {"dq", "sq", "bs"} => Mode[pos] = "plain"
  BY <1>0, <1>1, MarksAtBuild DEF Marks, Places, Positions
<1>2. CASE Skip
  <2>1. At(pos) \in {"blank", "tab"} /\ Goto("build", start, val, pos + 1)
    BY <1>2 DEF Skip
  <2>2. Straight => Aligned("build", pos + 1) /\ AllRight(val, marked)
    BY <1>0, <1>1, <2>1 DEF Aligned, Marks, Eof
  <2> QED BY <2>1, <2>2, GotoMarks
<1>3. CASE SimpleTok
  <2>1. At(pos) \in {Eof, "nl", "semi"} /\ Emit(At(pos), <<>>, pos, After(pos))
    BY <1>3 DEF SimpleTok
  <2>2. At(pos) = Eof => After(pos) = Length + 2
    <3>1. pos \in Nat \ {0}
      BY DEF Lexed
    <3> QED BY <1>0, <3>1, Reading DEF Lexed
  <2>3. At(pos) \in {"word", Eof} => Aligned("build", After(pos)) /\ AllRight(<<>>, marked)
    BY <1>0, <2>1, <2>2, NoneRight DEF Aligned, Eof
  <2> QED BY <2>1, <2>3, EmitMarks
<1>4. CASE PipeTok \/ RedirOutTok \/ RedirInTok
  <2>1. PICK type, v, from, next :
            type \in {"pipe", "or", "out", "app", "in"} /\ Emit(type, v, from, next)
    BY <1>4 DEF PipeTok, RedirOutTok, RedirInTok, OneOrTwo
  <2>2. type \notin {"word", Eof}
    BY <2>1 DEF Eof
  <2> QED BY <2>1, <2>2, EmitMarks
<1>5. CASE Ampersand
  <2>1. CASE At(pos + 1) = "amp"
    <3>1. Emit("and", <<>>, pos, pos + 2)
      BY <1>5, <2>1 DEF Ampersand, OneOrTwo
    <3>2. "and" \notin {"word", Eof}
      BY DEF Eof
    <3> QED BY <3>1, <3>2, EmitMarks
  <2>2. CASE At(pos + 1) # "amp"
    <3>1. Emit("word", <<pos>>, pos, pos + 1) /\ At(pos) = "amp"
      BY <1>5, <2>2 DEF Ampersand, OneOrTwo
    <3>2. Straight => Aligned("build", pos + 1) /\ AllRight(<<pos>>, marked)
      <4>1. At(pos) # Eof /\ At(pos) \notin {"dq", "sq", "bs"}
        BY <3>1 DEF Eof
      <4>2. Straight => Aligned("build", pos + 1)
        BY <1>0, <1>1, <4>1 DEF Aligned
      <4>3. Straight => ~Doubled(pos)
        BY <1>1, <4>1 DEF Doubled
      <4> QED BY <4>2, <4>3, OneRight
    <3> QED BY <3>1, <3>2, EmitMarks
  <2> QED BY <2>1, <2>2
<1>6. CASE ReadTok
  <2>1. Goto("word", pos, <<>>, pos + 1) /\ At(pos) # Eof
    BY <1>6, LetterAssumption DEF ReadTok, Eof
  <2>2. Straight => Aligned("word", pos + 1) /\ AllRight(<<>>, marked)
    BY <1>0, <1>1, <2>1, NoneRight DEF Aligned
  <2> QED BY <2>1, <2>2, GotoMarks
<1> QED BY <1>2, <1>3, <1>4, <1>5, <1>6

LEMMA MarksComment == ASSUME Lexed, Marks, Comment \/ CommentChar \/ CommentEnd PROVE Marks'
<1>0. pos \in Nat /\ Length \in Nat
  BY DEF Lexed, Length
<1>1. CASE Comment
  <2>1. Goto("comment", pos, <<>>, pos + 1)
    BY <1>1 DEF Comment
  <2>2. Aligned("comment", pos + 1) /\ AllRight(<<>>, marked)
    BY NoneRight DEF Aligned
  <2> QED BY <2>1, <2>2, GotoMarks
<1>2. CASE CommentChar
  <2>1. Goto("comment", start, val, After(pos))
    BY <1>2 DEF CommentChar
  <2>2. Straight => Aligned("comment", After(pos)) /\ AllRight(val, marked)
    BY DEF Aligned, Marks
  <2> QED BY <2>1, <2>2, GotoMarks
<1>3. CASE CommentEnd
  <2>1. Cur \in {Eof, "nl"} /\ Emit(Cur, <<>>, pos - 1, pos) /\ pc = "comment"
    BY <1>3 DEF CommentEnd
  <2>2. Cur = Eof => pos > Length
    <3>1. pos - 1 \in Nat \ {0}
      BY <2>1 DEF Lexed
    <3>2. Cur = Eof => pos - 1 > Length
      BY <1>0, <3>1, Reading DEF Lexed, Cur
    <3> QED BY <1>0, <3>2
  <2>3. Cur \in {"word", Eof} => Aligned("build", pos) /\ AllRight(<<>>, marked)
    BY <1>0, <2>1, <2>2, NoneRight DEF Aligned, Eof
  <2> QED BY <2>1, <2>3, EmitMarks
<1> QED BY <1>1, <1>2, <1>3

LEMMA MarksNumber == ASSUME Lexed, Marks, Number \/ Digit \/ NumberEnd PROVE Marks'
<1>0. /\ pc \in {"build", "number"} /\ pos \in Nat /\ Length \in Nat /\ (pos + 1) - 1 = pos
      /\ val \in Seq(Positions)
  BY DEF Lexed, Length, Number, Digit, NumberEnd, Building
<1>1. ASSUME Straight, At(pos) = "digit"
      PROVE  /\ Mode[pos - 1] = "plain" /\ pos \in Positions /\ Mode[pos] = "plain"
             /\ ~Doubled(pos) /\ Aligned("number", pos + 1)
  <2>1. At(pos) # Eof
    BY <1>1 DEF Eof
  <2>2. /\ Mode[pos - 1] = "plain" /\ pos \in Positions /\ Mode[pos] = "plain"
    BY <1>0, <1>1, <2>1, MarksAtBuild DEF Marks, Places, Positions
  <2> QED BY <1>0, <2>2 DEF Doubled, Aligned
<1>2. CASE Number
  <2>1. Goto("number", pos, <<pos>>, pos + 1) /\ At(pos) = "digit"
    BY <1>2 DEF Number
  <2> QED BY <1>1, <2>1, OneRight, GotoMarks
<1>3. CASE Digit
  <2>1. Goto("number", start, Append(val, pos), pos + 1) /\ At(pos) = "digit"
    BY <1>3 DEF Digit
  <2>2. Straight => AllRight(Append(val, pos), marked)
    BY <1>0, <1>1, <2>1, AppendRight DEF Marks
  <2> QED BY <1>1, <2>1, <2>2, GotoMarks
<1>4. CASE NumberEnd
  <2>1. PICK type : Emit(type, val, start, pos)
    BY <1>4 DEF NumberEnd
  <2>2. pc = "number"
    BY <1>4 DEF NumberEnd
  <2>3. Straight => Aligned("build", pos) /\ AllRight(val, marked)
    BY <2>2 DEF Marks, Aligned
  <2> QED BY <2>1, <2>3, EmitMarks
<1> QED BY <1>2, <1>3, <1>4

(* In a word, outside of its quotes. *)
LEMMA MarksWord == ASSUME Lexed, Marks, WordEnd \/ Plain \/ Backslash \/ OpenQuote PROVE Marks'
<1>0. /\ pc = "word" /\ pos \in Nat /\ pos >= 2 /\ Length \in Nat /\ val \in Seq(Positions)
      /\ pos <= Length + 2
      /\ After(pos) = IF pos <= Length THEN pos + 1 ELSE Length + 2
  <2>1. /\ pc = "word" /\ pos \in Nat /\ pos >= 2 /\ Length \in Nat /\ val \in Seq(Positions)
        /\ pos <= Length + 2
    BY DEF Lexed, Length, WordEnd, Plain, Backslash, OpenQuote
  <2>2. pos \in Nat \ {0}
    BY <2>1
  <2> QED BY <2>1, <2>2, Reading DEF Lexed
<1>1. ASSUME Straight, Cur # Eof
      PROVE  /\ Mode[pos - 2] = "plain" /\ pos - 1 \in Positions /\ (pos - 1) - 1 = pos - 2
             /\ ~Doubled(pos - 1) /\ pos \in Positions
             /\ Mode[pos - 1] = IF Cur = "dq" THEN "double"
                                ELSE IF Cur = "sq" THEN "single"
                                ELSE IF Cur = "bs" THEN "escape" ELSE "plain"
  <2>1. /\ pos - 1 \in Places /\ Cur = text[pos - 1] /\ (pos - 1) - 1 = pos - 2
        /\ Mode[pos - 2] = "plain" /\ text \in Seq(Symbol) /\ pos <= Length + 1
    BY <1>0, <1>1, MarksInLoop DEF Marks
  <2>2. pos - 1 \in Positions /\ pos \in Positions
    BY <1>0, <2>1 DEF Places, Positions
  <2>3. Mode[pos - 1] = IF Cur = "dq" THEN "double"
                        ELSE IF Cur = "sq" THEN "single"
                        ELSE IF Cur = "bs" THEN "escape" ELSE "plain"
    BY <2>1, Turns
  <2> QED BY <2>1, <2>2, <2>3 DEF Doubled
<1>2. CASE WordEnd
  <2>1. Emit("word", val, start, pos) /\ Cur \in Stops
    BY <1>2 DEF WordEnd
  <2>2. ASSUME Straight PROVE Aligned("build", pos)
    <3>1. CASE Cur = Eof
      <4>1. pos - 1 \in Nat \ {0}
        BY <1>0
      <4>2. pos > Length
        BY <1>0, <3>1, <4>1, Reading DEF Lexed, Cur
      <4> QED BY <1>0, <4>2 DEF Aligned
    <3>2. CASE Cur # Eof
      <4>1. Cur \notin {"dq", "sq", "bs"}
        BY <2>1 DEF Stops, White, Eof
      <4> QED BY <1>1, <2>2, <3>2, <4>1 DEF Aligned
    <3> QED BY <3>1, <3>2
  <2> QED BY <2>1, <2>2, EmitMarks DEF Marks
<1>3. CASE Plain
  <2>1. Further(Append(val, pos - 1), pos) /\ Cur \notin Stops \cup {"dq", "sq", "bs"}
    BY <1>3 DEF Plain
  <2>2. Cur # Eof
    BY <2>1 DEF Stops
  <2>3. Straight => AllRight(Append(val, pos - 1), marked)
    BY <1>0, <1>1, <2>2, AppendRight DEF Marks
  <2>4. Straight => Mode[pos - 1] = "plain"
    BY <1>1, <2>1, <2>2
  <2> QED BY <1>0, <2>1, <2>3, <2>4, FurtherMarks
<1>4. CASE Backslash
  <2> DEFINE v == IF At(pos) = "nl" THEN val ELSE Append(val, pos)
  <2>1. Further(v, After(pos)) /\ Cur = "bs" /\ Cur # Eof
    BY <1>4 DEF Backslash, Eof
  <2>2. ASSUME Straight PROVE AllRight(v, marked) /\ (pos <= Length => Mode[pos] = "plain")
    <3>1. Mode[pos - 1] = "escape" /\ pos \in Positions
      BY <1>1, <2>1, <2>2
    <3>2. ~Doubled(pos)
      BY <3>1 DEF Doubled
    <3>3. AllRight(v, marked)
      BY <1>0, <2>2, <3>1, <3>2, AppendRight DEF Marks
    <3>4. pos <= Length => Mode[pos] = "plain"
      <4>1. pos <= Length => pos \in Places
        BY <1>0 DEF Places
      <4> QED BY <3>1, <4>1, Turns DEF Lexed
    <3> QED BY <3>3, <3>4
  <2> HIDE DEF v
  <2>3. After(pos) \in Nat /\ (After(pos) <= Length => pos <= Length /\ After(pos) - 1 = pos)
    BY <1>0
  <2>4. Straight => (After(pos) <= Length => Mode[After(pos) - 1] = "plain") /\ AllRight(v, marked)
    BY <2>2, <2>3
  <2> QED BY <2>1, <2>3, <2>4, FurtherMarks
<1>5. CASE OpenQuote
  <2> DEFINE place == IF Cur = "dq" THEN "double" ELSE "single"
  <2>1. Goto(place, start, val, After(pos)) /\ Cur \in {"dq", "sq"} /\ Cur # Eof
    BY <1>5 DEF OpenQuote, Eof
  <2>2. Straight => Mode[pos - 1] = place
    BY <1>1, <2>1
  <2>3. place \in {"double", "single"}
    OBVIOUS
  <2> HIDE DEF place
  <2>4. After(pos) - 1 <= Length => After(pos) - 2 = pos - 1
    BY <1>0
  <2>5. Straight => Aligned(place, After(pos)) /\ AllRight(val, marked)
    BY <2>2, <2>3, <2>4 DEF Aligned, Marks
  <2> QED BY <2>1, <2>5, GotoMarks
<1> QED BY <1>2, <1>3, <1>4, <1>5

(* In quotes. *)
LEMMA MarksQuoted ==
    ASSUME Lexed, Marks, DoubleChar \/ DoubleEnd \/ SingleChar \/ SingleEnd
    PROVE  Marks'
<1>0. /\ pc \in {"double", "single"} /\ pos \in Nat /\ pos >= 2 /\ Length \in Nat
      /\ val \in Seq(Positions) /\ pos <= Length + 2
      /\ After(pos) = IF pos <= Length THEN pos + 1 ELSE Length + 2
  <2>1. /\ pc \in {"double", "single"} /\ pos \in Nat /\ pos >= 2 /\ Length \in Nat
        /\ val \in Seq(Positions) /\ pos <= Length + 2
    BY DEF Lexed, Length, DoubleChar, DoubleEnd, SingleChar, SingleEnd
  <2>2. pos \in Nat \ {0}
    BY <2>1
  <2> QED BY <2>1, <2>2, Reading DEF Lexed
<1>1. ASSUME Straight, Cur # Eof
      PROVE  /\ pos - 1 \in Positions /\ ~Doubled(pos - 1) /\ Mode[pos - 2] = pc
             /\ pc = "double" /\ Cur # "bs" =>
                   Mode[pos - 1] = IF Cur = "dq" THEN "plain" ELSE "double"
             /\ pc = "single" => Mode[pos - 1] = IF Cur = "sq" THEN "plain" ELSE "single"
  <2>1. /\ pos - 1 \in Places /\ Cur = text[pos - 1] /\ (pos - 1) - 1 = pos - 2
        /\ Mode[pos - 2] = pc /\ text \in Seq(Symbol)
    BY <1>0, <1>1, MarksInLoop DEF Marks
  <2>2. pos - 1 \in Positions
    BY <1>0, <2>1 DEF Places, Positions
  <2>3. /\ pc = "double" /\ Cur # "bs" =>
              Mode[pos - 1] = IF Cur = "dq" THEN "plain" ELSE "double"
        /\ pc = "single" => Mode[pos - 1] = IF Cur = "sq" THEN "plain" ELSE "single"
    BY <2>1, Turns
  <2>4. ~Doubled(pos - 1)
    BY <1>0, <2>1 DEF Doubled
  <2> QED BY <2>1, <2>2, <2>3, <2>4
<1>2. After(pos) - 1 <= Length => After(pos) - 2 = pos - 1
  BY <1>0
<1>3. CASE DoubleChar \/ SingleChar
  <2>1. /\ Goto(pc, start, Append(val, pos - 1), After(pos)) /\ Cur # Eof
        /\ pc = "double" => Cur \notin {"bs", "dq"}
        /\ pc = "single" => Cur # "sq"
    BY <1>3 DEF DoubleChar, SingleChar
  <2>2. Straight => AllRight(Append(val, pos - 1), marked)
    BY <1>0, <1>1, <2>1, AppendRight DEF Marks
  <2>3. Straight => Mode[pos - 1] = pc
    BY <1>0, <1>1, <2>1
  <2>4. Straight => Aligned(pc, After(pos))
    BY <1>0, <1>2, <2>3 DEF Aligned
  <2> QED BY <2>1, <2>2, <2>4, GotoMarks
<1>4. CASE DoubleEnd \/ SingleEnd
  <2>1. /\ Goto("word", start, val, After(pos))
        /\ pc = "double" => Cur \in {Eof, "dq"}
        /\ pc = "single" => Cur \in {Eof, "sq"}
    BY <1>4 DEF DoubleEnd, SingleEnd
  <2>2. Cur = Eof => After(pos) - 1 > Length
    <3>1. pos - 1 \in Nat \ {0}
      BY <1>0
    <3>2. Cur = Eof => pos - 1 > Length
      BY <3>1, Reading DEF Lexed, Cur
    <3> QED BY <1>0, <3>2
  <2>3. Straight /\ Cur # Eof => Mode[pos - 1] = "plain"
    <3>1. "dq" # "bs"
      OBVIOUS
    <3> QED BY <1>0, <1>1, <2>1, <3>1
  <2>4. Straight => Aligned("word", After(pos)) /\ AllRight(val, marked)
    <3>1. After(pos) \in Nat
      BY <1>0
    <3> QED BY <1>0, <1>2, <2>2, <2>3, <3>1 DEF Aligned, Marks
  <2> QED BY <2>1, <2>4, GotoMarks
<1> QED BY <1>3, <1>4

LEMMA MarksDoubleEscape == ASSUME Lexed, Marks, DoubleEscape PROVE Marks'
<1>0. /\ pc = "double" /\ Cur = "bs" /\ pos \in Nat /\ pos >= 2 /\ Length \in Nat
      /\ val \in Seq(Positions) /\ Cur # Eof /\ text \in Seq(Symbol)
  BY DEF Lexed, Length, DoubleEscape, Eof
<1>1. /\ val' = val \o Escaped(pos) /\ pos' = After(After(pos))
      /\ marked' = IF At(pos) = "dollar" THEN marked \cup {pos} ELSE marked
      /\ text' = text /\ pc' = pc /\ toks' = toks
  BY DEF DoubleEscape
<1>2. Straight' => Straight
  BY <1>1 DEF Straight
<1>3. marked \subseteq marked'
  BY <1>1
<1> SUFFICES ASSUME Straight
             PROVE  /\ Aligned(pc', pos')
                    /\ \A p \in marked' : Doubled(p)
                    /\ AllRight(val', marked')
                    /\ \A n \in DOMAIN toks' : AllRight(toks'[n].val, marked')
  BY <1>1, <1>2, MarksWhen
<1>4. /\ pos - 1 \in Places /\ text[pos - 1] = "bs" /\ Mode[pos - 2] = "double"
      /\ (pos - 1) - 1 = pos - 2 /\ pos <= Length + 1
  BY <1>0, MarksInLoop DEF Marks
<1>5. Mode[pos - 1] = "double escape"
  BY <1>0, <1>4, Turns
<1>6. /\ ~Doubled(pos - 1) /\ pos - 1 \in Positions /\ pos \in Positions
      /\ pos <= Length => pos \in Places
  BY <1>0, <1>4 DEF Doubled, Places, Positions
<1>7. pos <= Length => Mode[pos] = "double"
  BY <1>0, <1>5, <1>6, Turns
<1>8. Doubled(pos) <=> At(pos) = "dollar"
  <2>1. CASE pos <= Length
    BY <1>5, <1>6, <2>1 DEF Doubled, At
  <2>2. CASE ~(pos <= Length)
    <3>1. pos \notin Places /\ At(pos) = Eof
      BY <1>0, <2>2 DEF Places, At
    <3> QED BY <3>1 DEF Doubled, Eof
  <2> QED BY <2>1, <2>2
<1>9. Aligned(pc', pos')
  <2>1. pos \in Nat \ {0} /\ pos + 1 \in Nat \ {0} /\ Length + 2 \in Nat \ {0}
    BY <1>0
  <2>2. CASE pos <= Length
    <3>1. After(pos) = pos + 1 /\ After(pos + 1) = IF pos + 1 <= Length THEN pos + 2 ELSE Length + 2
      BY <1>0, <2>1, <2>2, Reading
    <3>2. pos' - 1 <= Length => pos' - 2 = pos
      BY <1>0, <1>1, <3>1
    <3> QED BY <1>0, <1>1, <1>7, <2>2, <3>2 DEF Aligned
  <2>3. CASE ~(pos <= Length)
    <3>1. After(pos) = Length + 2 /\ After(Length + 2) = Length + 2
      BY <1>0, <2>1, <2>3, Reading
    <3>2. ~(pos' - 1 <= Length)
      BY <1>0, <1>1, <3>1
    <3> QED BY <1>0, <1>1, <3>2 DEF Aligned
  <2> QED BY <2>2, <2>3
<1>10. \A p \in marked' : Doubled(p)
  BY <1>1, <1>8 DEF Marks
<1>11. AllRight(val', marked')
  <2>1. AllRight(val, marked')
    BY <1>3 DEF Marks, AllRight
  <2>2. Doubled(pos) => pos \in marked'
    BY <1>1, <1>8
  <2>3. /\ AllRight(Append(val, pos), marked') /\ Append(val, pos - 1) \in Seq(Positions)
        /\ AllRight(Append(val, pos - 1), marked')
    BY <1>0, <1>6, <2>1, <2>2, AppendRight
  <2>4. AllRight(Append(Append(val, pos - 1), pos), marked')
    BY <1>6, <2>2, <2>3, AppendRight
  <2>5. CASE At(pos) = "nl"
    <3>1. val' = val
      BY <1>0, <1>1, <2>5 DEF Escaped
    <3> QED BY <2>1, <3>1
  <2>6. CASE At(pos) = "blank"
    <3>1. val' = val \o <<pos - 1, pos>>
      BY <1>1, <2>6 DEF Escaped
    <3>2. val \o <<pos - 1, pos>> = Append(Append(val, pos - 1), pos)
      BY <1>0, <1>6
    <3> QED BY <2>4, <3>1, <3>2
  <2>7. CASE At(pos) \notin {"nl", "blank"}
    <3>1. val' = val \o <<pos>>
      BY <1>1, <2>7 DEF Escaped
    <3>2. val \o <<pos>> = Append(val, pos)
      BY <1>0, <1>6
    <3> QED BY <2>3, <3>1, <3>2
  <2> QED BY <2>5, <2>6, <2>7
<1>12. \A n \in DOMAIN toks' : AllRight(toks'[n].val, marked')
  BY <1>1, <1>3 DEF Marks, AllRight
<1> QED BY <1>9, <1>10, <1>11, <1>12

LEMMA MarksNext == ASSUME Lexed, Marks, [Next]_vars PROVE Marks'
<1>1. ASSUME UNCHANGED vars PROVE Marks'
  <2>1. /\ text' = text /\ pos' = pos /\ pc' = pc /\ val' = val /\ marked' = marked
        /\ toks' = toks
    BY <1>1 DEF vars
  <2>2. Straight' => Straight
    BY <2>1 DEF Straight
  <2> QED BY <2>1, <2>2, MarksWhen DEF Marks
<1> QED
  BY <1>1, MarksBuild, MarksComment, MarksNumber, MarksWord, MarksQuoted, MarksDoubleEscape
  DEF Next

(* A $ in double quotes is marked when it is kept and a backslash is in    *)
(* front of it, and no other character is (lexer.c:165), in every text of  *)
(* which nothing but words has been made.                                  *)
THEOREM DollarsMarked == Spec => []Marks
BY AlwaysLexed, MarksInit, MarksNext, PTL DEF Spec
-----------------------------------------------------------------------------
(* The arguments get their meaning from what is shown of Command, which is *)
(* instantiated here with characters as the composition has them.          *)
P == INSTANCE CommandProofs

LEMMA SameChar ==
    /\ P!Char = Char /\ C!Char = Char /\ P!Mark = Mark
    /\ Char = Alpha \cup {"digit"} \cup Others \cup Mark
BY ClassAssumption DEF Char, C!Char, P!Char, Mark, C!Mark, P!Mark

LEMMA CommandAssumptions ==
    /\ P!CharAssumption /\ P!OptionAssumption /\ P!ValueAssumption /\ P!SlackAssumption
BY SameChar, CharAssumption, OptionAssumption, ValueAssumption, SlackAssumption
DEF P!CharAssumption, P!OptionAssumption, P!ValueAssumption, P!SlackAssumption

LEMMA SameReference == \A w, p : C!Asked!Reference(w, p) = P!Asked!Reference(w, p)
<1>1. \A name : C!Asked!Value(name) = P!Asked!Value(name)
  BY DEF C!Asked!Value, P!Asked!Value
<1>2. C!Asked!Char = P!Asked!Char
  BY DEF C!Asked!Char, P!Asked!Char, C!Asked!Mark, P!Asked!Mark
<1>3. \A w, p, S : C!Asked!Has(w, p, S) = P!Asked!Has(w, p, S)
  BY Zenon DEF C!Asked!Has, P!Asked!Has
<1>4. \A w, p : C!Asked!Closing(w, p) = P!Asked!Closing(w, p)
  BY <1>3, Zenon DEF C!Asked!Closing, P!Asked!Closing
<1>5. \A S : C!Asked!Max(S) = P!Asked!Max(S)
  BY Zenon DEF C!Asked!Max, P!Asked!Max
<1>6. \A w, p, S : C!Asked!Run(w, p, S) = P!Asked!Run(w, p, S)
  BY <1>5, Zenon DEF C!Asked!Run, P!Asked!Run
<1> SUFFICES ASSUME NEW w, NEW p PROVE C!Asked!Reference(w, p) = P!Asked!Reference(w, p)
  OBVIOUS
<1> QED BY <1>1, <1>2, <1>3, <1>4, <1>6, Zenon DEF C!Asked!Reference, P!Asked!Reference

LEMMA SameReading == \A w : C!Asked!Reading(w) = P!Asked!Reading(w)
<1>1. \A s : C!Asked!FlattenSeq(s) = P!Asked!FlattenSeq(s)
  BY Zenon DEF C!Asked!FlattenSeq, P!Asked!FlattenSeq
<1>2. ASSUME NEW w PROVE C!Asked!Reading(w) = P!Asked!Reading(w)
  <2> DEFINE fc(h) == [p \in 1 .. Len(w) |-> \E q \in 1 .. p - 1 :
                          w[q] = "dollar" /\ ~h[q] /\ p < q + C!Asked!Reference(w, q).size]
             fp(h) == [p \in 1 .. Len(w) |-> \E q \in 1 .. p - 1 :
                          w[q] = "dollar" /\ ~h[q] /\ p < q + P!Asked!Reference(w, q).size]
             sc(h) == [p \in 1 .. Len(w) |->
                          CASE h[p] -> <<>>
                            [] ~h[p] /\ w[p] = "dollar" -> C!Asked!Reference(w, p).value
                            [] ~h[p] /\ w[p] = "esc" -> <<"dollar">>
                            [] OTHER -> <<w[p]>>]
             sp(h) == [p \in 1 .. Len(w) |->
                          CASE h[p] -> <<>>
                            [] ~h[p] /\ w[p] = "dollar" -> P!Asked!Reference(w, p).value
                            [] ~h[p] /\ w[p] = "esc" -> <<"dollar">>
                            [] OTHER -> <<w[p]>>]
  <2>1. \A h : fc(h) = fp(h) /\ sc(h) = sp(h)
    BY SameReference
  <2>2. C!Asked!Reading(w) = C!Asked!FlattenSeq(sc(CHOOSE h : h = fc(h)))
    BY Zenon DEF C!Asked!Reading
  <2>3. P!Asked!Reading(w) = P!Asked!FlattenSeq(sp(CHOOSE h : h = fp(h)))
    BY Zenon DEF P!Asked!Reading
  <2> HIDE DEF fc, fp, sc, sp
  <2>4. (CHOOSE h : h = fc(h)) = (CHOOSE h : h = fp(h))
    BY <2>1, Zenon
  <2> QED BY <1>1, <2>1, <2>2, <2>3, <2>4, Zenon
<1> QED BY <1>2
LEMMA SameInit == C!Init => P!Init
BY DEF C!Init, P!Init, C!XInit, P!XInit

LEMMA SameExpand == C!XStep => P!XStep
<1> USE SameChar DEF C!Looping, P!Looping, C!CharAt, P!CharAt, C!Behind, P!Behind,
        C!Put, P!Put, C!Keep, P!Keep, C!Refer, P!Refer, C!Past, P!Past
<1>0. /\ \A p, S : C!Beyond(p, S) = P!Beyond(p, S)
      /\ \A name : C!Value(name) = P!Value(name)
      /\ C!InQuotes <=> P!InQuotes
  <2>1. \A p, S : C!Beyond(p, S) = P!Beyond(p, S)
    <3>1. \A S : C!Cardinality(S) = P!Cardinality(S)
      BY Zenon DEF C!Cardinality, P!Cardinality
    <3> QED BY <3>1, Zenon DEF C!Beyond, P!Beyond
  <2>2. \A name : C!Value(name) = P!Value(name)
    BY DEF C!Value, P!Value
  <2>3. C!InQuotes <=> P!InQuotes
    BY DEF C!InQuotes, P!InQuotes
  <2> QED BY <2>1, <2>2, <2>3
<1>1. C!Strip => P!Strip
  BY <1>0 DEF C!Strip, P!Strip
<1>2. C!InitCtx => P!InitCtx
  BY <1>0 DEF C!InitCtx, P!InitCtx
<1>3. C!Escape => P!Escape
  BY DEF C!Escape, P!Escape
<1>4. C!Ordinary => P!Ordinary
  BY DEF C!Ordinary, P!Ordinary
<1>5. C!LoneDollar => P!LoneDollar
  BY DEF C!LoneDollar, P!LoneDollar
<1>6. C!Name => P!Name
  BY <1>0 DEF C!Name, P!Name
<1>7. C!ExitStatus => P!ExitStatus
  BY DEF C!ExitStatus, P!ExitStatus
<1>8. C!BracedStatus => P!BracedStatus
  BY DEF C!BracedStatus, P!BracedStatus
<1>9. C!Braced => P!Braced
  BY <1>0 DEF C!Braced, P!Braced
<1>10. C!Copy => P!Copy
  BY DEF C!Copy, P!Copy
<1>11. C!Finish => P!Finish
  BY DEF C!Finish, P!Finish
<1> QED
  BY <1>1, <1>2, <1>3, <1>4, <1>5, <1>6, <1>7, <1>8, <1>9, <1>10, <1>11, Zenon
  DEF C!XStep, P!XStep

LEMMA SameOptions ==
    /\ \A w : C!IsFlag(w) <=> P!IsFlag(w)
    /\ \A w : C!Bad(w) = P!Bad(w)
    /\ \A w : C!Letters(w) = P!Letters(w)
<1>1. \A w : C!IsFlag(w) <=> P!IsFlag(w)
  BY DEF C!IsFlag, P!IsFlag
<1>2. \A w : C!Bad(w) = P!Bad(w)
  <2>1. \A S : C!Min(S) = P!Min(S)
    BY Zenon DEF C!Min, P!Min
  <2>2. C!Option = P!Option
    BY DEF C!Option, P!Option
  <2> QED BY <2>1, <2>2, Zenon DEF C!Bad, P!Bad, C!SelectInSeq, P!SelectInSeq
<1>3. \A w : C!Letters(w) = P!Letters(w)
  BY <1>2, Zenon DEF C!Letters, P!Letters
<1> QED BY <1>1, <1>2, <1>3

LEMMA SameCommand == C!CommandStep => P!CommandStep
<1> USE DEF C!cvars, P!cvars, C!xvars, P!xvars, C!Call, P!Call, C!Taken, P!Taken
<1>0. /\ \A w : C!IsFlag(w) <=> P!IsFlag(w)
      /\ \A w : C!Bad(w) = P!Bad(w)
      /\ \A w : C!Letters(w) = P!Letters(w)
      /\ \A s : C!LastOfE(s) = P!LastOfE(s)
      /\ \A w, f : C!Printed(w, f) = P!Printed(w, f)
  <2>4. \A s : C!LastOfE(s) = P!LastOfE(s)
    <3>1. \A S : C!Max(S) = P!Max(S)
      BY Zenon DEF C!Max, P!Max
    <3> QED BY <3>1, Zenon DEF C!LastOfE, P!LastOfE, C!SelectLastInSeq, P!SelectLastInSeq
  <2>5. \A w, f : C!Printed(w, f) = P!Printed(w, f)
    BY Zenon DEF C!Printed, P!Printed, C!Sequence, P!Sequence
  <2> QED BY SameOptions, <2>4, <2>5
<1>1. C!ExpandArg => P!ExpandArg
  BY DEF C!ExpandArg, P!ExpandArg
<1>2. C!ArgExpanded => P!ArgExpanded
  BY DEF C!ArgExpanded, P!ArgExpanded
<1>3. C!Dispatch => P!Dispatch
  BY DEF C!Dispatch, P!Dispatch
<1>4. C!Flag => P!Flag
  <2>1. \A s : C!ToSet(s) = P!ToSet(s)
    BY Zenon DEF C!ToSet, P!ToSet
  <2> QED BY <1>0, <2>1, Zenon DEF C!Flag, P!Flag
<1>5. C!FlagsEnd => P!FlagsEnd
  BY <1>0, Zenon DEF C!FlagsEnd, P!FlagsEnd
<1>6. C!EchoExpand => P!EchoExpand
  BY DEF C!EchoExpand, P!EchoExpand
<1>7. C!EchoPrint => P!EchoPrint
  BY <1>0, Zenon DEF C!EchoPrint, P!EchoPrint
<1>8. C!EchoEnd => P!EchoEnd
  BY DEF C!EchoEnd, P!EchoEnd
<1>9. C!XStep /\ UNCHANGED C!cvars => P!XStep /\ UNCHANGED P!cvars
  BY SameExpand
<1> QED
  BY <1>1, <1>2, <1>3, <1>4, <1>5, <1>6, <1>7, <1>8, <1>9, Zenon
  DEF C!CommandStep, P!CommandStep

(* What is left of a text is made of characters of words. *)
LEMMA SymbolsAreChars == Symbol \cup {Eof, "esc"} \subseteq C!Char
BY SameChar DEF Symbol, Others, Named, Mark, Eof

LEMMA KeptType ==
    ASSUME Lexed, NEW ps \in Seq(Positions)
    PROVE  /\ Kept(ps) \in Seq(C!Char) /\ Len(Kept(ps)) = Len(ps)
           /\ \A n \in 1 .. Len(ps) : Kept(ps)[n] = IF ps[n] \in marked THEN "esc" ELSE At(ps[n])
<1>1. Len(ps) \in Nat /\ DOMAIN ps = 1 .. Len(ps)
  OBVIOUS
<1>2. ASSUME NEW n \in 1 .. Len(ps) PROVE At(ps[n]) \in C!Char
  <2>1. ps[n] \in Nat \ {0}
    BY <1>1 DEF Positions, Length, Lexed
  <2>2. At(ps[n]) \in Symbol \cup {Eof}
    BY <2>1, Reading DEF Lexed
  <2> QED BY <2>2, SymbolsAreChars
<1>3. "esc" \in C!Char
  BY SymbolsAreChars
<1> QED BY <1>1, <1>2, <1>3 DEF Kept

LEMMA WordsAre ==
    ASSUME Lexed, toks # <<>>
    PROVE  /\ DOMAIN Words = 1 .. Len(toks) - 1
           /\ \A n \in DOMAIN Words : Words[n] = toks[n] /\ Words[n].val \in Seq(Positions)
<1>1. toks \in Seq(Token) /\ Len(toks) \in Nat \ {0}
  BY DEF Lexed
<1>2. Words = SubSeq(toks, 1, Len(toks) - 1)
  BY Zenon DEF Words
<1>3. DOMAIN Words = 1 .. Len(toks) - 1 /\ \A n \in 1 .. Len(toks) - 1 : Words[n] = toks[n]
  BY <1>1, <1>2
<1>4. \A n \in 1 .. Len(toks) - 1 : toks[n].val \in Seq(Positions)
  <2>1. ASSUME NEW n \in 1 .. Len(toks) - 1 PROVE toks[n] \in Token
    BY <1>1
  <2> QED BY <2>1 DEF Token
<1> QED BY <1>3, <1>4, Zenon

LEMMA ExecuteIs ==
    ASSUME Lexed, Execute
    PROVE  /\ toks # <<>> /\ cpc = "none"
           /\ argv' = [n \in DOMAIN Words |-> Kept(Words[n].val)]
           /\ argv' \in Seq(Seq(C!Char))
           /\ P!Enter("echo", argv')
<1>1. EndsSeen = 1
  BY DEF Execute
<1>2. toks # <<>>
  <2>1. SUFFICES ASSUME toks = <<>> PROVE FALSE
    OBVIOUS
  <2>2. {n \in DOMAIN toks : toks[n].type = Eof} = {}
    BY <2>1
  <2>3. EndsSeen = 0
    BY <2>2, FS_EmptySet DEF EndsSeen
  <2> QED BY <1>1, <2>3
<1>3. /\ cpc = "none" /\ argv' = [n \in DOMAIN Words |-> Kept(Words[n].val)]
      /\ C!Enter("echo", argv')
  BY DEF Execute, C!Enter
<1>4. P!Enter("echo", argv')
  BY <1>3 DEF C!Enter, P!Enter, C!xvars, P!xvars
<1>5. \A n \in DOMAIN Words : Kept(Words[n].val) \in Seq(C!Char)
  BY <1>2, WordsAre, KeptType
<1>6. DOMAIN Words = 1 .. Len(toks) - 1 /\ Len(toks) - 1 \in Nat
  BY <1>2, WordsAre DEF Lexed
<1>7. argv' \in Seq(Seq(C!Char))
  BY <1>3, <1>5, <1>6
<1> QED BY <1>2, <1>3, <1>4, <1>7

LEMMA LexerStep == ASSUME [QNext]_qvars PROVE [Next]_vars
BY DEF QNext, qvars, lexvars, vars, Lexing, Execute

(* Executing the words of a text does not disturb the lexer, and what it   *)
(* makes of a text is what is shown of it above (lexer.c:64).              *)
THEOREM QuotingLexes == QSpec => Spec
<1>1. QInit => Init
  BY DEF QInit
<1> QED BY <1>1, LexerStep, PTL DEF QSpec, Spec

LEMMA CommandsStep == ASSUME Lexed, [QNext]_qvars PROVE [P!Next]_(P!vars)
<1>1. ASSUME UNCHANGED commandvars PROVE UNCHANGED P!vars
  BY <1>1 DEF commandvars, P!vars, P!cvars, P!xvars
<1>2. ASSUME Execute PROVE P!Next
  BY <1>2, ExecuteIs, SameChar DEF P!Next
<1>3. ASSUME C!CommandStep PROVE P!Next
  BY <1>3, SameCommand DEF P!Next
<1> QED BY <1>1, <1>2, <1>3 DEF QNext, Lexing, qvars

(* The words of a text are executed as any words are (exec.c:69), so that  *)
(* what is shown of commands holds of them.                                *)
THEOREM QuotingExecutes == QSpec => P!Spec
<1>1. QInit => P!Init
  BY SameInit DEF QInit
<1> QED BY <1>1, QuotingLexes, AlwaysLexed, CommandsStep, PTL DEF QSpec, P!Spec

(* No character of a text whose words are executed is lost, none is put    *)
(* in the wrong word, and no operator is missed (lexer.c:64).              *)
THEOREM QuotingLexedRight ==
    QSpec => [](TextKept /\ WordsCut /\ OperatorsSeen /\ TokensForParser)
BY QuotingLexes, TextIsKept, WordsAreCut, OperatorsAreSeen, NumbersBelong, PTL

LEMMA SameAskedChar == C!Asked!Char = P!Asked!Char
BY DEF C!Asked!Char, P!Asked!Char, C!Asked!Mark, P!Asked!Mark

LEMMA SameMeaning == \A w : C!Asked!Meaning(w) = P!Asked!Meaning(w)
<1>1. \A w : C!Asked!Enclosed(w) <=> P!Asked!Enclosed(w)
  BY DEF C!Asked!Enclosed, P!Asked!Enclosed
<1> QED BY <1>1, SameReading, Zenon DEF C!Asked!Meaning, P!Asked!Meaning

(* Said, in both instances, of the output.                                 *)
LEMMA SameOutput == P!OutputRead => OutputRead
<1>1. /\ \A w : C!IsOptions(w) <=> P!IsOptions(w)
      /\ \A w : C!IsFlag(w) <=> P!IsFlag(w)
      /\ \A w : C!Letters(w) = P!Letters(w)
  BY SameOptions, Zenon DEF C!IsOptions, P!IsOptions
<1>2. /\ \A s : C!FlattenSeq(s) = P!FlattenSeq(s)
      /\ \A S : C!Min(S) = P!Min(S)
  BY Zenon DEF C!FlattenSeq, P!FlattenSeq, C!Min, P!Min
<1>3. C!FirstPrinted = P!FirstPrinted
  BY <1>1, <1>2, Zenon DEF C!FirstPrinted, P!FirstPrinted, C!SelectInSeq, P!SelectInSeq
<1>4. C!Printable = P!Printable
  BY <1>3, Zenon DEF C!Printable, P!Printable
<1>5. C!Opted = P!Opted
  BY <1>1, <1>2, <1>3, Zenon DEF C!Opted, P!Opted
<1>6. \A yes, no : C!Wanted(yes, no) <=> P!Wanted(yes, no)
  BY <1>5, Zenon DEF C!Wanted, P!Wanted
<1>7. \A w : C!Shown(w) = P!Shown(w)
  <2>1. \A w, p : C!Begins(w, p) <=> P!Begins(w, p)
    BY Zenon DEF C!Begins, P!Begins
  <2>2. \A c : C!Sequence(c) = P!Sequence(c)
    BY Zenon DEF C!Sequence, P!Sequence
  <2> QED BY <1>2, <2>1, <2>2, Zenon DEF C!Shown, P!Shown
<1>8. \A w : C!Said(w) = P!Said(w)
  BY <1>6, <1>7, SameMeaning, Zenon DEF C!Said, P!Said
<1> QED
  BY <1>2, <1>4, <1>6, <1>8, Zenon DEF OutputRead, C!OutputRead, P!OutputRead

(* What expand writes stays in its buffer (expansion.c:49), and echo       *)
(* prints what its arguments mean (builtin.c:66), in whatever words a text *)
(* was cut.                                                                *)
THEOREM QuotingPrintsMeanings == QSpec => [](InBounds /\ OutputRead)
<1>1. P!Spec => []P!InBounds
  BY P!CommandInBounds, CommandAssumptions
<1>2. P!Spec => []P!OutputRead
  BY P!EchoPrintsMeanings, CommandAssumptions
<1>3. P!InBounds => InBounds
  BY DEF InBounds, C!InBounds, P!InBounds
<1> QED BY QuotingExecutes, <1>1, <1>2, <1>3, SameOutput, PTL

(* expand answers with what a word as a whole means (expansion.c:278),     *)
(* whenever exec_command and echo call it with the words of a text.        *)
THEOREM QuotingExpands == QSpec => Expanded
<1>1. P!Spec => P!Expanded
  BY P!CommandExpanded, CommandAssumptions
<1>2. P!Asked!Init => C!Asked!Init
  BY DEF P!Asked!Init, C!Asked!Init, P!Asked!Nothing, C!Asked!Nothing
<1>3. [P!Asked!Next]_(<<IF xpc = "idle" THEN <<"nothing">> ELSE word,
                        IF xpc = "done" THEN res ELSE <<"nothing">>>>)
      => [C!Asked!Next]_(<<IF xpc = "idle" THEN <<"nothing">> ELSE word,
                           IF xpc = "done" THEN res ELSE <<"nothing">>>>)
  <2>1. P!Asked!Ask => C!Asked!Ask
    BY SameAskedChar DEF P!Asked!Ask, C!Asked!Ask, P!Asked!Nothing, C!Asked!Nothing
  <2>2. P!Asked!Answer => C!Asked!Answer
    BY SameMeaning DEF P!Asked!Answer, C!Asked!Answer, P!Asked!Nothing, C!Asked!Nothing
  <2>3. P!Asked!Take => C!Asked!Take
    BY DEF P!Asked!Take, C!Asked!Take, P!Asked!Nothing, C!Asked!Nothing
  <2> QED BY <2>1, <2>2, <2>3 DEF P!Asked!Next, C!Asked!Next
<1> QED
  BY QuotingExecutes, <1>1, <1>2, <1>3, PTL
  DEF Expanded, C!Expanded, P!Expanded, P!Asked!Spec, C!Asked!Spec
-----------------------------------------------------------------------------
(* The words of the text are what is executed. *)
Handed ==
    /\ cpc # "none" =>
          /\ toks # <<>> /\ Straight
          /\ argv = [n \in DOMAIN Words |-> Kept(Words[n].val)]

LEMMA HandedNext == ASSUME Lexed, TokensForParser, P!ArgsMean, Handed, [QNext]_qvars PROVE Handed'
<1>1. ASSUME UNCHANGED lexvars
      PROVE  Straight' = Straight /\ toks' = toks
             /\ [n \in DOMAIN Words |-> Kept(Words[n].val)]'
                    = [n \in DOMAIN Words |-> Kept(Words[n].val)]
  BY <1>1 DEF lexvars, Straight, Words, Kept, At, Length
<1>2. ASSUME Execute PROVE Handed'
  <2>1. /\ toks # <<>> /\ cpc = "none" /\ UNCHANGED lexvars
        /\ argv' = [n \in DOMAIN Words |-> Kept(Words[n].val)]
    BY <1>2, ExecuteIs DEF Execute
  <2>2. Straight
    <3>1. /\ \A n \in 1 .. Len(toks) - 1 : toks[n].type = "word"
      BY <1>2, <2>1, WordsAre DEF Execute
    <3>2. EndsSeen = 1
      BY <1>2 DEF Execute
    <3>3. \E n \in DOMAIN toks : toks[n].type = Eof
      <4>1. SUFFICES ASSUME ~ \E n \in DOMAIN toks : toks[n].type = Eof PROVE FALSE
        OBVIOUS
      <4>2. {n \in DOMAIN toks : toks[n].type = Eof} = {}
        BY <4>1
      <4>3. EndsSeen = 0
        BY <4>2, FS_EmptySet DEF EndsSeen
      <4> QED BY <3>2, <4>3
    <3>4. toks \in Seq(Token) /\ DOMAIN toks = 1 .. Len(toks) /\ Len(toks) \in Nat
      BY DEF Lexed
    <3>5. Eof # "word"
      BY DEF Eof
    <3>6. toks[Len(toks)].type = Eof
      BY <3>1, <3>3, <3>4, <3>5
    <3> QED BY <3>1, <3>4, <3>6 DEF Straight
  <2> QED BY <1>1, <2>1, <2>2 DEF Handed
<1>3. ASSUME C!CommandStep, UNCHANGED lexvars PROVE Handed'
  <2>1. P!CommandStep
    BY <1>3, SameCommand
  <2>2. argv' = argv /\ cpc # "none"
    BY <2>1, P!StepKeeps, CommandAssumptions
    DEF P!CommandStep, P!ExpandArg, P!ArgExpanded, P!Dispatch, P!Flag, P!FlagsEnd,
        P!EchoExpand, P!EchoPrint, P!EchoEnd, P!cvars, P!ArgsMean
  <2> QED BY <1>1, <1>3, <2>2 DEF Handed
<1>4. ASSUME Lexing PROVE Handed'
  BY <1>4 DEF Lexing, commandvars, Handed
<1>5. ASSUME UNCHANGED qvars PROVE Handed'
  <2>1. cpc' = cpc /\ argv' = argv /\ UNCHANGED lexvars
    BY <1>5 DEF qvars, commandvars
  <2> QED BY <1>1, <2>1 DEF Handed
<1> QED BY <1>2, <1>3, <1>4, <1>5 DEF QNext

(* What is left of one word, and where something was taken away. *)
LEMMA CharsKept ==
    ASSUME Lexed, Marks, Straight, ~DollarIn({"single", "escape"}),
           NEW ps \in Seq(Positions), AllRight(ps, marked), NEW n \in 1 .. Len(ps)
    PROVE  /\ Kept(ps)[n] = IF At(ps[n]) = "dollar" /\ ~Live(ps[n]) THEN "esc" ELSE At(ps[n])
           /\ Kept(ps)[n] = "dollar" => Live(ps[n])
<1> DEFINE p == ps[n]
<1>0. p \in Nat \ {0} /\ Length \in Nat /\ text \in Seq(Symbol)
  <2>1. p \in Positions
    OBVIOUS
  <2> QED BY <2>1 DEF Positions, Lexed, Length
<1>1. Kept(ps)[n] = IF p \in marked THEN "esc" ELSE At(p)
  BY KeptType
<1>2. (Doubled(p) => p \in marked) /\ (p \in marked => Doubled(p))
  BY DEF AllRight, Marks
<1> HIDE DEF p
<1>3. CASE p \in marked
  <2>1. p \in Places /\ text[p] = "dollar" /\ Mode[p - 1] = "double escape"
    BY <1>2, <1>3 DEF Doubled
  <2>2. At(p) = "dollar" /\ ~Live(p)
    <3>1. At(p) = "dollar"
      <4>1. p <= Length /\ text[p] = "dollar"
        <5>1. p \in 1 .. Length /\ Length \in Nat
          BY <1>0, <2>1 DEF Places
        <5>2. p <= Length
          BY <5>1
        <5>3. text[p] = "dollar"
          BY <2>1
        <5> QED BY <5>2, <5>3
      <4> QED BY <4>1 DEF At
    <3>2. Mode[p - 1] \notin {"plain", "double"}
      BY <2>1
    <3> QED BY <3>1, <3>2 DEF Live
  <2> QED BY <1>1, <1>3, <2>2 DEF p
<1>4. CASE p \notin marked /\ At(p) = "dollar"
  <2>1. p \in Places /\ text[p] = "dollar"
    BY <1>0, <1>4 DEF At, Places, Eof
  <2>2. Mode[p - 1] \in ModeNames
    BY <1>0, <2>1, Turns
  <2>3. Mode[p - 1] \notin {"single", "escape"}
    BY <2>1 DEF DollarIn
  <2>4. Mode[p - 1] # "double escape"
    BY <1>2, <1>4, <2>1 DEF Doubled
  <2>5. Live(p)
    BY <2>1, <2>2, <2>3, <2>4 DEF Live, ModeNames
  <2> QED BY <1>1, <1>4, <2>5 DEF p
<1>5. CASE p \notin marked /\ At(p) # "dollar"
  BY <1>1, <1>5 DEF p
<1> QED BY <1>3, <1>4, <1>5

LEMMA BrkIsFree == P!ValuesFree("brk") /\ "brk" \in Others /\ \A ps \in Seq(Positions) :
                       Lexed => P!Free(Kept(ps), "brk")
<1>1. \A v \in Seq(Char \ {"brk"}) : P!Free(v, "brk")
  BY DEF P!Free
<1>2. P!ValuesFree("brk")
  BY <1>1, ValuesAssumption DEF P!ValuesFree
<1>3. "brk" \in Others
  BY AlphaAssumption DEF Others, Mark
<1>4. ASSUME NEW ps \in Seq(Positions), Lexed PROVE P!Free(Kept(ps), "brk")
  <2>1. Len(Kept(ps)) = Len(ps)
        /\ \A n \in 1 .. Len(ps) : Kept(ps)[n] = IF ps[n] \in marked THEN "esc" ELSE At(ps[n])
    BY <1>4, KeptType
  <2>2. ASSUME NEW n \in 1 .. Len(ps) PROVE At(ps[n]) # "brk"
    <3>1. ps[n] \in Positions
      OBVIOUS
    <3>2. ps[n] \in Nat \ {0}
      BY <1>4, <3>1 DEF Positions, Lexed, Length
    <3>3. PICK p \in Nat \ {0} : p = ps[n]
      BY <3>2
    <3>4. At(p) \in Symbol \cup {Eof}
      BY <1>4, Reading DEF Lexed
    <3> QED BY <3>3, <3>4, AlphaAssumption DEF Symbol, Named, Eof
  <2> QED BY <2>1, <2>2 DEF P!Free
<1> QED BY <1>2, <1>3, <1>4

(* The meaning of a word is what reading all that is left of it gives. *)
LEMMA MeantIs ==
    ASSUME Lexed, Marks, Straight, ~DollarIn({"single", "escape"}),
           NEW ps \in Seq(Positions), AllRight(ps, marked), ~Glued(ps)
    PROVE  Meant(ps) = P!Asked!Reading(Kept(ps))
<1> DEFINE w == Kept(ps)
           G == {n \in DOMAIN ps : Gap(ps, n)}
<1>1. /\ w \in Seq(C!Char) /\ Len(w) = Len(ps) /\ Len(ps) \in Nat
      /\ DOMAIN w = DOMAIN ps /\ DOMAIN ps = 1 .. Len(ps)
  BY KeptType DEF Kept
<1>2. w \in Seq(P!Char)
  BY <1>1, SameChar
<1>3. \A s : FlattenSeq(s) = P!FlattenSeq(s)
  BY Zenon DEF FlattenSeq, P!FlattenSeq
<1>4. Gapped(ps) = P!Spread(w, "brk", G)
  <2>1. ASSUME NEW n \in DOMAIN ps
        PROVE  (IF Gap(ps, n) THEN <<"brk">> ELSE <<>>)
                   \o <<IF At(ps[n]) = "dollar" /\ ~Live(ps[n]) THEN "esc" ELSE At(ps[n])>>
               = (IF n \in G THEN <<"brk">> ELSE <<>>) \o <<w[n]>>
    <3>1. w[n] = IF At(ps[n]) = "dollar" /\ ~Live(ps[n]) THEN "esc" ELSE At(ps[n])
      BY <1>1, CharsKept
    <3>2. n \in G <=> Gap(ps, n)
      OBVIOUS
    <3> HIDE DEF w, G
    <3> QED BY <3>1, <3>2, Zenon
  <2>2. [n \in DOMAIN ps |->
            (IF Gap(ps, n) THEN <<"brk">> ELSE <<>>)
                \o <<IF At(ps[n]) = "dollar" /\ ~Live(ps[n]) THEN "esc" ELSE At(ps[n])>>]
        = [n \in DOMAIN w |-> (IF n \in G THEN <<"brk">> ELSE <<>>) \o <<w[n]>>]
    <3> HIDE DEF w, G
    <3> QED BY <1>1, <2>1
  <2> HIDE DEF w, G
  <2> QED BY <1>3, <2>2 DEF Gapped, P!Spread
<1>5. P!Parts(w, G)
  <2>1. ASSUME NEW d \in 1 .. Len(w), w[d] = "dollar",
               NEW i \in d + 1 .. d + P!Size(w, d) - 1
        PROVE  i \notin G
    <3>1. d \in DOMAIN ps /\ Live(ps[d])
      BY <1>1, <2>1, CharsKept
    <3>2. i \in d + 1 .. d + C!Asked!Reference(Kept(ps), d).size - 1
      BY <2>1, SameReference DEF P!Size
    <3>3. ~Gap(ps, i)
      BY <3>1, <3>2 DEF Glued
    <3> QED BY <3>3
  <2> HIDE DEF w, G
  <2> QED BY <2>1 DEF P!Parts
<1>6. P!Free(w, "brk") /\ P!ValuesFree("brk") /\ "brk" \in Others
  BY BrkIsFree
<1>7. Meant(ps) = P!Without(C!Asked!Reading(Gapped(ps)), "brk")
  BY <1>3, Zenon DEF Meant, P!Without
<1>8. Meant(ps) = P!Without(P!Asked!Reading(P!Spread(w, "brk", G)), "brk")
  <2> HIDE DEF w, G
  <2> QED BY <1>4, <1>7, SameReading
<1> HIDE DEF G
<1>9. P!Without(P!Asked!Reading(P!Spread(w, "brk", G)), "brk") = P!Asked!Reading(w)
  <2> HIDE DEF w
  <2>1. "brk" \in Other
    BY <1>6, ClassAssumption
  <2>2. \A G1 : P!Free(w, "brk") /\ P!ValuesFree("brk") /\ P!Parts(w, G1) =>
            P!Without(P!Asked!Reading(P!Spread(w, "brk", G1)), "brk") = P!Asked!Reading(w)
    BY <1>2, <2>1, P!SpreadReads, CommandAssumptions, Zenon
  <2> QED BY <1>5, <1>6, <2>2, Zenon
<1> QED BY <1>8, <1>9

LEMMA MeantAll ==
    ASSUME Lexed, Marks, Handed, P!WordsType, P!ArgsMean
    PROVE  ArgumentsMeant
<1> SUFFICES ASSUME cpc # "none", NEW n \in DOMAIN exp,
                    ~DollarIn({"single", "escape"}), ~Glued(Words[n].val),
                    ~C!Asked!Enclosed(argv[n])
             PROVE  exp[n] = Meant(Words[n].val)
  BY Zenon DEF ArgumentsMeant
<1>1. n \in 1 .. Len(exp) /\ Len(exp) <= Len(argv) /\ exp[n] = P!Asked!Meaning(argv[n])
      /\ argv \in Seq(Seq(P!Char)) /\ Len(exp) \in Nat
  BY DEF P!WordsType, P!ArgsMean
<1>2. toks # <<>> /\ Straight /\ argv = [m \in DOMAIN Words |-> Kept(Words[m].val)]
  BY DEF Handed
<1>3. n \in DOMAIN Words
  <2>1. n \in 1 .. Len(argv) /\ DOMAIN argv = 1 .. Len(argv)
    BY <1>1
  <2> QED BY <1>2, <2>1
<1> DEFINE ps == Words[n].val
<1>4. ps \in Seq(Positions) /\ Words[n] = toks[n] /\ n \in DOMAIN toks
  <2>1. DOMAIN toks = 1 .. Len(toks) /\ Len(toks) \in Nat
    BY DEF Lexed
  <2> QED BY <1>2, <1>3, <2>1, WordsAre
<1>5. AllRight(ps, marked)
  BY <1>2, <1>4 DEF Marks
<1>6. argv[n] = Kept(ps)
  BY <1>2, <1>3
<1>7. exp[n] = P!Asked!Reading(argv[n])
  BY <1>1 DEF P!Asked!Meaning, P!Asked!Enclosed, C!Asked!Enclosed
<1> HIDE DEF ps
<1>8. Meant(ps) = P!Asked!Reading(Kept(ps))
  BY <1>2, <1>4, <1>5, MeantIs DEF ps
<1> QED BY <1>6, <1>7, <1>8 DEF ps

(* An argument is what its text means, for every text and all variables    *)
(* (lexer.c:144, exec.c:79): the lexer marked each $ that does not mean    *)
(* itself (Marks), the words executed are those of the text (Handed), each *)
(* got the meaning of what is left of it (ArgsMean), and where a quote was *)
(* taken away makes no difference to that meaning unless it is inside of   *)
(* what is read as one reference (SpreadReads).                            *)
THEOREM TextMeans == QSpec => []ArgumentsMeant
<1>1. QSpec => [](Lexed /\ Marks /\ TokensForParser)
  BY QuotingLexes, AlwaysLexed, DollarsMarked, NumbersBelong, PTL
<1>2. QSpec => [](P!WordsType /\ P!ArgsMean)
  <2>1. P!Spec => []P!ArgsMean
    BY P!ArgumentsMean, CommandAssumptions
  <2>2. P!Spec => []P!WordsType
    BY P!WordsHold, CommandAssumptions
  <2> QED BY QuotingExecutes, <2>1, <2>2, PTL
<1>3. QInit => Handed
  BY DEF QInit, C!Init, Handed
<1>4. Lexed /\ TokensForParser /\ P!ArgsMean /\ Handed /\ [QNext]_qvars => Handed'
  BY HandedNext
<1> QED BY <1>1, <1>2, <1>3, <1>4, MeantAll, PTL DEF QSpec

=============================================================================
