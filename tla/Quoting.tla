------------------------------ MODULE Quoting ------------------------------
(***************************************************************************)
(* From the text behind a command's name to what the command gets: the     *)
(* lexer makes words of the text and forgets its quotes, exec_command      *)
(* expands the words, and echo expands them again.                         *)
(***************************************************************************)
EXTENDS Lexer, Variables

VARIABLES xpc, word, idx, rest, res, sz,
          cpc, cmd, argv, exp, k, n_flag, e_flag, first, out

(* brk stands for the quotes and backslashes that are no longer there. *)
Others == (Named \cup Letter \cup {Eof, "minus", "=", "brk"})
              \ (Alpha \cup {"digit"} \cup Mark)

C == INSTANCE Command

(* The two sets of characters fit.  The letters of names are no characters *)
(* of another kind, and no value has a quote in it that is not there.      *)
ASSUME ClassAssumption == Numeric = {"digit"} /\ Other = Others
ASSUME AlphaAssumption ==
    /\ Alpha \cap (Named \cup {Eof, "minus", "brk"}) = {}
    /\ (Alpha \cup Letter) \cap {"brk", "esc"} = {}
ASSUME ValuesAssumption ==
    /\ \A name \in DOMAIN Vars : Vars[name] \in Seq(Char \ {"brk"})
    /\ \A name \in DOMAIN Env : Env[name] \in Seq(Char \ {"brk"})
    /\ Status \in Seq(Char \ {"brk"})

lexvars == <<text, pos, pc, start, val, marked, toks>>
commandvars == <<xpc, word, idx, rest, res, sz,
                 cpc, cmd, argv, exp, k, n_flag, e_flag, first, out>>
qvars == <<lexvars, commandvars>>

QInit == Init /\ C!Init

(* What the characters at these positions are in the value of a token. *)
Kept(ps) == [n \in DOMAIN ps |-> IF ps[n] \in marked THEN "esc" ELSE At(ps[n])]

Lexing == cpc = "none" /\ Next /\ UNCHANGED commandvars

(* The text has nothing but words in it: they are the arguments of echo. *)
Words == SubSeq(toks, 1, Len(toks) - 1)
Execute ==
    /\ pc = "build" /\ EndsSeen = 1
    /\ \A n \in DOMAIN Words : Words[n].type = "word"
    /\ C!Enter("echo", [n \in DOMAIN Words |-> Kept(Words[n].val)])
    /\ UNCHANGED lexvars

QNext == Lexing \/ Execute \/ (C!CommandStep /\ UNCHANGED lexvars)

QSpec == QInit /\ [][QNext]_qvars
(* Neither the lexer nor exec_command waits for anybody here. *)
QFairSpec == QSpec /\ WF_qvars(Lexing) /\ WF_qvars(C!CommandStep /\ UNCHANGED lexvars)
-----------------------------------------------------------------------------
(* How the shell's grammar means a $: by the quotes and backslashes in     *)
(* front of it, and a name by what directly follows the $.                 *)

Live(p) == p \in Places /\ text[p] = "dollar" /\ Mode[p - 1] \in {"plain", "double"}
DollarIn(modes) == \E p \in Places : text[p] = "dollar" /\ Mode[p - 1] \in modes

(* A word with every $ that means itself marked, and the gaps between its  *)
(* characters: its expansion, the gaps taken away, is what it means.       *)
Gap(ps, n) == n > 1 /\ ps[n] # ps[n - 1] + 1
Gapped(ps) ==
    FlattenSeq([n \in DOMAIN ps |->
        (IF Gap(ps, n) THEN <<"brk">> ELSE <<>>)
            \o <<IF At(ps[n]) = "dollar" /\ ~Live(ps[n]) THEN "esc" ELSE At(ps[n])>>])
Meant(ps) ==
    LET read == C!Asked!Reading(Gapped(ps))
    IN  FlattenSeq([n \in DOMAIN read |-> IF read[n] = "brk" THEN <<>> ELSE <<read[n]>>])

(* A quote or a backslash inside of what is read as one reference, as in   *)
(* "$A"B.                                                                  *)
Glued(ps) ==
    \E d \in DOMAIN ps :
        /\ Live(ps[d])
        /\ \E n \in d + 1 .. d + C!Asked!Reference(Kept(ps), d).size - 1 : Gap(ps, n)

(* lexer.c:144, exec.c:79: an argument is what its text means, when no $   *)
(* is in single quotes or behind a backslash outside of quotes, no quote   *)
(* or backslash is inside of what is read as one reference, and the        *)
(* argument is not itself enclosed in quotes.                              *)
ArgumentsMeant ==
    cpc \notin {"none", "args"} =>
        \A n \in DOMAIN exp :
            \/ DollarIn({"single", "escape"})
            \/ Glued(Words[n].val)
            \/ C!Asked!Enclosed(argv[n])
            \/ exp[n] = Meant(Words[n].val)

(* expansion.c:49, 96, 242, 363: what Expansion says of the index and of   *)
(* the buffer, of the words that come from a text.                         *)
InBounds == C!InBounds

(* expansion.c:278: expand implements ExpansionAbs wherever it is called.  *)
Expanded == C!Expanded

(* builtin.c:66, 93, 115: what Command says of the output of echo.         *)
OutputRead == C!OutputRead

(* lexer.c:147, expansion.c:137: a quote, a comment or a brace that is     *)
(* never closed holds nothing up: every text is read to its end, and what  *)
(* it says is executed if it is words alone.                               *)
ReadToEnd == <>(EndsSeen = 2 \/ cpc = "over")

-----------------------------------------------------------------------------
(* Claims of the repository that do not hold, with SeparatorsSeen and      *)
(* AndSeen of Lexer.                                                       *)

(* tests/test_func/single_quote_dollar: a $ in single quotes, or behind a  *)
(* backslash in double ones, is printed as it is.                          *)
QuotedDollarPrinted ==
    ~DollarIn({"plain", "double", "escape"}) =>
        Cardinality({p \in DOMAIN out : out[p] = "dollar"})
            = Cardinality({p \in Places : text[p] = "dollar"})

(* tests/test_func/mix_double_quotes: quotes in double quotes are printed. *)
QuotedQuotesPrinted ==
    Cardinality({p \in DOMAIN out : out[p] = "sq"})
        >= Cardinality({p \in Places : Inside(p) /\ text[p] = "sq"})

(* lexer.h:9, 10, 13 and the two tests: what is said of a text's operators *)
(* and quotes, or at least one of these things, when it has been executed. *)
(* (The four are joined by \/, so that a text which refutes it refutes     *)
(* each of them.)                                                          *)
TextAsDocumented ==
    cpc = "over" /\ NoHash =>
        SeparatorsSeen \/ AndSeen \/ QuotedDollarPrinted \/ QuotedQuotesPrinted

=============================================================================
