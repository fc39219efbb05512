----------------------------- MODULE Expansion -----------------------------
(***************************************************************************)
(* expand: a word is copied into a buffer, character by character, with    *)
(* the values of the variables it names; the buffer grows when it must.    *)
(* The callers ask for one word at a time and take the answer.             *)
(***************************************************************************)
EXTENDS Variables, FiniteSets

VARIABLES
    xpc,    \* whether expand is "idle", at its "start", in its "loop" or "done"
    word,   \* its argument
    idx,    \* the index of the next character of it, from 1
    rest,   \* what copy has left to do
    res,    \* the characters in ctx.res, ctx.pos of them
    sz      \* the size of ctx.res

xvars == <<xpc, word, idx, rest, res, sz>>

XInit ==
    /\ xpc = "idle"
    /\ word = <<>> /\ idx = 1 /\ rest = <<>> /\ res = <<>> /\ sz = 0

CharAt(p) == IF p <= Len(word) THEN word[p] ELSE "nul"

(* Behind the characters from p on that are in S. *)
Beyond(p, S) ==
    p + Cardinality({q \in p .. Len(word) : \A r \in p .. q : word[r] \in S})

Call(w) ==
    /\ xpc = "idle"
    /\ xpc' = "start"
    /\ word' = w /\ idx' = 1 /\ rest' = <<>> /\ res' = <<>> /\ sz' = 0

(* The caller has the answer. *)
Taken ==
    /\ xpc = "done"
    /\ xpc' = "idle"
    /\ UNCHANGED <<word, idx, rest, res, sz>>
-----------------------------------------------------------------------------
(* The word as a whole. *)
InQuotes ==
    /\ Len(word) >= 2
    /\ CharAt(1) = "sq" /\ CharAt(Len(word)) = "sq"
    /\ \A p \in 2 .. Len(word) - 1 : CharAt(p) # "sq"

(* expand_single_quote *)
Strip ==
    /\ xpc = "start" /\ InQuotes
    /\ xpc' = "done"
    /\ res' = SubSeq(word, 2, Len(word) - 1)
    /\ sz' = Len(word) - 1
    /\ UNCHANGED <<word, idx, rest>>

(* init_exp_ctx *)
InitCtx ==
    /\ xpc = "start" /\ ~InQuotes
    /\ xpc' = "loop"
    /\ sz' = Len(word) * 2 + Slack
    /\ UNCHANGED <<word, idx, rest, res>>
-----------------------------------------------------------------------------
(* One character into the buffer, which grows while it has room for one    *)
(* more only.  Slip: it grows when it has room for none.                   *)
PutLate(c) ==
    /\ sz' = IF Len(res) > sz - 1 THEN sz * 2 ELSE sz
    /\ res' = Append(res, c)
Put(c) ==
    /\ sz' = IF Len(res) >= sz - 1 THEN sz * 2 ELSE sz
    /\ res' = Append(res, c)

Looping == xpc = "loop" /\ rest = <<>>
Behind == CharAt(idx + 1)   \* the character behind a $

Keep(c) ==
    /\ Put(c)
    /\ idx' = idx + 1
    /\ UNCHANGED <<xpc, word, rest>>

Escape == Looping /\ CharAt(idx) = "esc" /\ Keep("dollar")

Ordinary ==
    /\ Looping /\ CharAt(idx) \notin {"nul", "esc", "dollar"}
    /\ Keep(CharAt(idx))

(* A $ that nothing it could refer to follows. *)
LoneDollar ==
    /\ Looping /\ CharAt(idx) = "dollar"
    /\ Behind \notin Alpha \cup {"lb", "quest"}
    /\ Keep("dollar")

(* The value of a reference, which ends before position p. *)
Refer(value, p) ==
    /\ rest' = value
    /\ idx' = p
    /\ UNCHANGED <<xpc, word, res, sz>>

(* Behind a } at p, if there is one. *)
Past(p) == IF CharAt(p) = "rb" THEN p + 1 ELSE p

(* Slip: a name ends at a digit. *)
NameAlpha ==
    /\ Looping /\ CharAt(idx) = "dollar" /\ Behind \in Alpha
    /\ LET end == Beyond(idx + 1, Alpha)
       IN  Refer(Value(SubSeq(word, idx + 1, end - 1)), end)
Name ==
    /\ Looping /\ CharAt(idx) = "dollar" /\ Behind \in Alpha
    /\ LET end == Beyond(idx + 1, Alpha \cup Numeric)
       IN  Refer(Value(SubSeq(word, idx + 1, end - 1)), end)

ExitStatus ==
    /\ Looping /\ CharAt(idx) = "dollar" /\ Behind = "quest"
    /\ Refer(Status, idx + 2)

BracedStatus ==
    /\ Looping /\ CharAt(idx) = "dollar" /\ Behind = "lb" /\ CharAt(idx + 2) = "quest"
    /\ Refer(Status, Past(idx + 3))

(* Anything up to a } or the end is taken for the name.  Slip: when there  *)
(* is none, the index is not moved.                                        *)
BracedStuck ==
    /\ Looping /\ CharAt(idx) = "dollar" /\ Behind = "lb" /\ CharAt(idx + 2) # "quest"
    /\ LET end == Beyond(idx + 2, Char \ {"rb"})
           name == SubSeq(word, idx + 2, end - 1)
       IN  IF name = <<>> THEN Refer(<<>>, idx) ELSE Refer(Value(name), Past(end))
Braced ==
    /\ Looping /\ CharAt(idx) = "dollar" /\ Behind = "lb" /\ CharAt(idx + 2) # "quest"
    /\ LET end == Beyond(idx + 2, Char \ {"rb"})
           name == SubSeq(word, idx + 2, end - 1)
       IN  Refer(IF name = <<>> THEN <<>> ELSE Value(name), Past(end))

Copy ==
    /\ xpc = "loop" /\ rest # <<>>
    /\ Put(Head(rest))
    /\ rest' = Tail(rest)
    /\ UNCHANGED <<xpc, word, idx>>

Finish ==
    /\ Looping /\ CharAt(idx) = "nul"
    /\ xpc' = "done"
    /\ UNCHANGED <<word, idx, rest, res, sz>>

XStep ==
    \/ Strip \/ InitCtx \/ Escape \/ Ordinary \/ LoneDollar \/ Name
    \/ ExitStatus \/ BracedStatus \/ Braced \/ Copy \/ Finish

(* Any caller, in any order. *)
XNext == (\E w \in Seq(Char) : Call(w)) \/ XStep \/ Taken
XSpec == XInit /\ [][XNext]_xvars
-----------------------------------------------------------------------------
(* expansion.c:13: indices stay on the word and its terminating NUL. *)
XTypeOK ==
    /\ xpc \in {"idle", "start", "loop", "done"}
    /\ word \in Seq(Char)
    /\ idx \in 1 .. Len(word) + 1
    /\ rest \in Seq(Char)
    /\ res \in Seq(Char)
    /\ sz \in Nat

(* expansion.c:49, 96, 242, 363: no character is read behind the NUL of    *)
(* the word, and with every one that is written there is room left for one *)
(* more, so that the NUL of the result is in the buffer, however long the  *)
(* values are and wherever the word breaks off.                            *)
InBounds ==
    /\ idx <= Len(word) + 1
    /\ xpc \in {"loop", "done"} => Len(res) < sz

(* expansion.c:278: expand answers with what the whole word means: no      *)
(* value is read again, no reference takes too much or too little.         *)
Asked == INSTANCE ExpansionAbs
            WITH given <- IF xpc = "idle" THEN <<"nothing">> ELSE word,
                 answer <- IF xpc = "done" THEN res ELSE <<"nothing">>
Expanded == Asked!Spec

=============================================================================
