------------------------------ MODULE Grammar ------------------------------
(***************************************************************************)
(* The tokens of the lexer, and what a line of them means: a definition to *)
(* hold the parser against, which looks at the whole line at once.         *)
(***************************************************************************)
EXTENDS Integers, Sequences, FiniteSets, SequencesExt, FiniteSetsExt

CONSTANTS Token, TypeOf, Eof

(* TOK_WORD is "assign" when is_assignment holds of it, "word" otherwise;  *)
(* "redir" is any of <, > and >>.                                          *)
Type == {"word", "assign", "redir", "nb", "pipe", "and", "or", "semi", "nl", "eof"}

ASSUME TypeOfAssumption == TypeOf \in [Token -> Type]
ASSUME EofAssumption == \A t \in Token : TypeOf[t] = "eof" <=> t = Eof
ASSUME EofIsToken == Eof \in Token

Separator == {"pipe", "and", "or", "semi"}
IsWord(t) == TypeOf[t] \in {"word", "assign"}
IsRedir(t) == TypeOf[t] \in {"redir", "nb"}
-----------------------------------------------------------------------------
(* The elements of a finite set of numbers from the least one on: as the   *)
(* n-th comes the one that n - 1 of them are below.                        *)
The(T) == CHOOSE p \in T : TRUE
Ranked(S, n) == {p \in S : Cardinality({q \in S : q < p}) = n - 1}
InOrder(S) == [n \in 1 .. Cardinality(S) |-> The(Ranked(S, n))]

(* Where the commands of s are separated; a separator that is the last     *)
(* thing read, or a semicolon that ends the line, separates nothing.       *)
Cuts(s) ==
    InOrder({p \in 1 .. Len(s) - 1 :
                /\ TypeOf[s[p]] \in Separator
                /\ TypeOf[s[p]] = "semi" =>
                      ~(p = Len(s) - 1 /\ TypeOf[s[Len(s)]] \in {"nl", "eof"})})

Spans(s) == Len(Cuts(s)) + 1

Span(s, n) ==
    LET from == IF n = 1 THEN 1 ELSE Cuts(s)[n - 1] + 1
        to == IF n > Len(Cuts(s)) THEN Len(s) - 1 ELSE Cuts(s)[n] - 1
    IN  from .. to

Operand(s, p) == p > 1 /\ TypeOf[s[p - 1]] = "redir" /\ IsWord(s[p])

(* A word is part of the command's own words once one that is neither an   *)
(* operand nor an assignment has come.                                     *)
Argument(s, n, p) ==
    /\ IsWord(s[p]) /\ ~Operand(s, p)
    /\ \E q \in Span(s, n) : q <= p /\ TypeOf[s[q]] = "word" /\ ~Operand(s, q)

Reading(s, n) ==
    [join |-> IF n = 1 THEN "first" ELSE TypeOf[s[Cuts(s)[n - 1]]],
     redirs |-> InOrder({p \in Span(s, n) : Operand(s, p)}),
     words |-> InOrder({p \in Span(s, n) : Argument(s, n, p)}),
     assigns |-> InOrder({p \in Span(s, n) :
                            IsWord(s[p]) /\ ~Operand(s, p) /\ ~Argument(s, n, p)})]
-----------------------------------------------------------------------------
(* After the first n commands, s ends in a redirection without its file or *)
(* in a pipe without its command.                                          *)
Malformed(s, n) ==
    LET end == Len(s)
        from == IF n = 0 THEN 1 ELSE Cuts(s)[n] + 1
    IN  \/ /\ end > from /\ TypeOf[s[end - 1]] = "redir" /\ ~IsWord(s[end])
        \/ /\ TypeOf[s[end]] \in {"pipe", "eof"}
           /\ \E p \in from .. end - 1 :
                 /\ TypeOf[s[p]] = "pipe"
                 /\ \A q \in p + 1 .. end - 1 : TypeOf[s[q]] = "nl"

HasDoubleSemi(s) ==
    \E p \in 1 .. Len(s) - 1 : TypeOf[s[p]] = "semi" /\ TypeOf[s[p + 1]] = "semi"

=============================================================================
