------------------------------ MODULE Command ------------------------------
(***************************************************************************)
(* exec_command: the words of a simple command are expanded one after the  *)
(* other and handed to a program, or to the builtin echo, which takes its  *)
(* options off them, expands each of them once more and prints it.         *)
(***************************************************************************)
EXTENDS Expansion, SequencesExt

VARIABLES
    cpc,     \* "none", expanding ("args"), in echo ("flags", "print") or "over"
    cmd,     \* argv[0]
    argv,    \* the arguments behind it, as the parser left them
    exp,     \* those expanded so far
    k,       \* the index of the next one in echo
    n_flag, e_flag,
    first,   \* no argument has been printed
    out      \* what is in stdout's buffer, and then written

cvars == <<cpc, cmd, argv, exp, k, n_flag, e_flag, first, out>>
vars == <<cvars, xvars>>

Init ==
    /\ cpc = "none" /\ cmd = "none" /\ argv = <<>>
    /\ exp = <<>> /\ k = 1
    /\ n_flag = FALSE /\ e_flag = FALSE /\ first = TRUE
    /\ out = <<>>
    /\ XInit

(* exec_command is entered. *)
Enter(c, a) ==
    /\ cpc = "none"
    /\ cpc' = "args" /\ cmd' = c /\ argv' = a
    /\ UNCHANGED <<exp, k, n_flag, e_flag, first, out, xvars>>

(* expand_args *)
ExpandArg ==
    /\ cpc = "args" /\ Len(exp) < Len(argv)
    /\ Call(argv[Len(exp) + 1])
    /\ UNCHANGED cvars

ArgExpanded ==
    /\ cpc = "args" /\ Taken
    /\ exp' = Append(exp, res)
    /\ UNCHANGED <<cpc, cmd, argv, k, n_flag, e_flag, first, out>>

(* is_builtin, and execvp *)
Dispatch ==
    /\ cpc = "args" /\ xpc = "idle" /\ Len(exp) = Len(argv)
    /\ cpc' = IF cmd = "echo" THEN "flags" ELSE "over"
    /\ UNCHANGED <<cmd, argv, exp, k, n_flag, e_flag, first, out, xvars>>
-----------------------------------------------------------------------------
(* parse_echo_flags *)

IsFlag(w) == Len(w) > 1 /\ w[1] = "minus"

(* The letters of w before the first that is no option, and whether there  *)
(* is such a one.                                                          *)
Option == {"n", "e", "E"}
Bad(w) == SelectInSeq(Tail(w), LAMBDA c : c \notin Option)
Letters(w) == IF Bad(w) = 0 THEN Tail(w) ELSE SubSeq(w, 2, Bad(w))
LastOfE(s) == SelectLastInSeq(s, LAMBDA c : c \in {"e", "E"})

(* Options are set letter by letter: a letter that is none ends them, and  *)
(* the word is printed, but those before it stay set.                      *)
Flag ==
    /\ cpc = "flags" /\ k <= Len(exp) /\ IsFlag(exp[k])
    /\ LET s == Letters(exp[k])
       IN  /\ n_flag' = (n_flag \/ "n" \in ToSet(s))
           /\ e_flag' = IF LastOfE(s) = 0 THEN e_flag ELSE s[LastOfE(s)] = "e"
    /\ IF Bad(exp[k]) = 0 THEN k' = k + 1 /\ UNCHANGED cpc
                          ELSE cpc' = "print" /\ UNCHANGED k
    /\ UNCHANGED <<cmd, argv, exp, first, out, xvars>>

FlagsEnd ==
    /\ cpc = "flags" /\ ~(k <= Len(exp) /\ IsFlag(exp[k]))
    /\ cpc' = "print"
    /\ UNCHANGED <<cmd, argv, exp, k, n_flag, e_flag, first, out, xvars>>
-----------------------------------------------------------------------------
(* builtin_echo, echo_print *)

(* What a backslash and the character c behind it are printed as. *)
Sequence(c) ==
    CASE c = "n" -> <<"nl">>
      [] c = "t" -> <<"tab">>
      [] c = "bs" -> <<"bs">>
      [] OTHER -> <<"bs", c>>

(* Slip: the character behind a backslash is looked at again. *)
PrintedTwice(w, f) ==
    LET from[p \in 1 .. Len(w) + 1] ==
            IF p > Len(w) THEN <<>>
            ELSE IF f /\ w[p] = "bs" /\ p < Len(w) THEN Sequence(w[p + 1]) \o from[p + 1]
            ELSE <<w[p]>> \o from[p + 1]
    IN  from[1]
Printed(w, f) ==
    LET from[p \in 1 .. Len(w) + 2] ==
            IF p > Len(w) THEN <<>>
            ELSE IF f /\ w[p] = "bs" /\ p < Len(w) THEN Sequence(w[p + 1]) \o from[p + 2]
            ELSE <<w[p]>> \o from[p + 1]
    IN  from[1]

EchoExpand ==
    /\ cpc = "print" /\ k <= Len(exp)
    /\ Call(exp[k])
    /\ UNCHANGED cvars

EchoPrint ==
    /\ cpc = "print" /\ Taken
    /\ out' = out \o (IF first THEN <<>> ELSE <<"blank">>) \o Printed(res, e_flag)
    /\ k' = k + 1
    /\ first' = FALSE
    /\ UNCHANGED <<cpc, cmd, argv, exp, n_flag, e_flag>>

EchoEnd ==
    /\ cpc = "print" /\ xpc = "idle" /\ k > Len(exp)
    /\ out' = out \o (IF n_flag THEN <<>> ELSE <<"nl">>)
    /\ cpc' = "over"
    /\ UNCHANGED <<cmd, argv, exp, k, n_flag, e_flag, first, xvars>>

CommandStep ==
    \/ ExpandArg \/ ArgExpanded \/ Dispatch \/ Flag \/ FlagsEnd
    \/ EchoExpand \/ EchoPrint \/ EchoEnd
    \/ XStep /\ UNCHANGED cvars

(* Any words. *)
Next == (\E c \in {"echo", "prog"}, a \in Seq(Seq(Char)) : Enter(c, a)) \/ CommandStep

Spec == Init /\ [][Next]_vars
-----------------------------------------------------------------------------
(* What is not options, and the letters of what is: those of the words     *)
(* before it, and of the first of it up to one that is no option.          *)
IsOptions(w) == IsFlag(w) /\ Bad(w) = 0
FirstPrinted == SelectInSeq(Append(exp, <<>>), LAMBDA w : ~IsOptions(w))
Printable == SubSeq(exp, FirstPrinted, Len(exp))
Opted ==
    FlattenSeq([n \in 1 .. Min({FirstPrinted, Len(exp)}) |->
        IF IsFlag(exp[n]) THEN Letters(exp[n]) ELSE <<>>])
Wanted(yes, no) ==
    \E p \in DOMAIN Opted :
        Opted[p] = yes /\ \A q \in p + 1 .. Len(Opted) : Opted[q] # no

(* Under -e a backslash begins a sequence when an even number of them      *)
(* stands before it and something behind.                                  *)
Begins(w, p) ==
    /\ w[p] = "bs" /\ p < Len(w)
    /\ \E q \in 0 .. p - 1 :
          /\ (p - 1 - q) % 2 = 0
          /\ \A r \in q + 1 .. p - 1 : w[r] = "bs"
          /\ q = 0 \/ w[q] # "bs"
Shown(w) ==
    FlattenSeq([p \in DOMAIN w |->
        IF Begins(w, p) THEN <<>>
        ELSE IF p > 1 /\ Begins(w, p - 1) THEN Sequence(w[p])
        ELSE <<w[p]>>])

(* What is printed for one expanded word. *)
Said(w) == IF Wanted("e", "E") THEN Shown(Asked!Meaning(w)) ELSE Asked!Meaning(w)

(* builtin.c:66, 93, 115: echo prints, with a blank between, the meaning   *)
(* of each expanded word from the first that is no options; -n counts      *)
(* wherever it is, the last of -e and -E decides.                          *)
OutputRead ==
    cpc = "over" /\ cmd = "echo" =>
        out = FlattenSeq([n \in DOMAIN Printable |->
                  (IF n = 1 THEN <<>> ELSE <<"blank">>) \o Said(Printable[n])])
              \o (IF Wanted("n", "none") THEN <<>> ELSE <<"nl">>)

=============================================================================
