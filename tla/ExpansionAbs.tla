---------------------------- MODULE ExpansionAbs ----------------------------
(***************************************************************************)
(* What expand promises: asked for a word, it answers with its meaning.    *)
(* The meaning is read off the word as a whole: which $ begins a reference *)
(* and how far it reaches, which characters are covered by one, and what   *)
(* each of the others stands for.                                          *)
(***************************************************************************)
EXTENDS Variables, FiniteSetsExt, SequencesExt

VARIABLES
    given,    \* the word asked for, or Nothing
    answer    \* its expansion, or Nothing

Nothing == <<"nothing">>

(* How many characters from p on are in S, one after the other. *)
Run(w, p, S) ==
    Max({n \in 0 .. Len(w) - p + 1 : \A q \in p .. p + n - 1 : w[q] \in S})

Has(w, p, S) == p <= Len(w) /\ w[p] \in S
Closing(w, p) == IF Has(w, p, {"rb"}) THEN 1 ELSE 0

(* The characters a reference by the $ at p takes, and its value. *)
Reference(w, p) ==
    LET braced == Run(w, p + 2, Char \ {"rb"})
        named == Run(w, p + 1, Alpha \cup Numeric)
    IN  CASE Has(w, p + 1, {"quest"}) -> [size |-> 2, value |-> Status]
          [] Has(w, p + 1, Alpha) ->
                [size |-> 1 + named, value |-> Value(SubSeq(w, p + 1, p + named))]
          [] Has(w, p + 1, {"lb"}) /\ Has(w, p + 2, {"quest"}) ->
                [size |-> 3 + Closing(w, p + 3), value |-> Status]
          [] Has(w, p + 1, {"lb"}) /\ ~Has(w, p + 2, {"quest"}) ->
                [size |-> 2 + braced + Closing(w, p + 2 + braced),
                 value |-> IF braced = 0 THEN <<>>
                           ELSE Value(SubSeq(w, p + 2, p + 1 + braced))]
          [] OTHER -> [size |-> 1, value |-> <<"dollar">>]

(* What the expansion of w is made of, without the rule for '...'. *)
Reading(w) ==
    LET covered[p \in 1 .. Len(w)] ==
            \E q \in 1 .. p - 1 :
                w[q] = "dollar" /\ ~covered[q] /\ p < q + Reference(w, q).size
    IN  FlattenSeq([p \in 1 .. Len(w) |->
            CASE covered[p] -> <<>>
              [] ~covered[p] /\ w[p] = "dollar" -> Reference(w, p).value
              [] ~covered[p] /\ w[p] = "esc" -> <<"dollar">>
              [] OTHER -> <<w[p]>>])

(* A word that two single quotes enclose, and no third one, stands for     *)
(* what is between them.                                                   *)
Enclosed(w) ==
    /\ Len(w) >= 2
    /\ {p \in 1 .. Len(w) : w[p] = "sq"} = {1, Len(w)}

Meaning(w) == IF Enclosed(w) THEN SubSeq(w, 2, Len(w) - 1) ELSE Reading(w)

Init == given = Nothing /\ answer = Nothing

Ask ==
    /\ given = Nothing
    /\ given' \in Seq(Char)
    /\ UNCHANGED answer

Answer ==
    /\ given # Nothing /\ answer = Nothing
    /\ answer' = Meaning(given)
    /\ UNCHANGED given

Take ==
    /\ answer # Nothing
    /\ given' = Nothing /\ answer' = Nothing

Next == Ask \/ Answer \/ Take

Spec == Init /\ [][Next]_<<given, answer>>

=============================================================================
