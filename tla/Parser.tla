------------------------------- MODULE Parser -------------------------------
(***************************************************************************)
(* parser_input: a recursive descent over the tokens of one line, which    *)
(* run_shell calls again and again.  The parser pops a token when it needs *)
(* one; the model chooses it there.  A tree is written as the sequence of  *)
(* its commands, each with the operator that joins it to what precedes:    *)
(* "pipe" binds tighter than "and" and "or", which associate to the left,  *)
(* and these tighter than "semi".  Words stand in it as their positions.   *)
(***************************************************************************)
EXTENDS Grammar

CONSTANTS
    MaxTok,   \* tokens before the end of the input
    Var,      \* names of variables
    NameOf,   \* the variable an assignment is to
    Unset

ASSUME MaxTokAssumption == MaxTok \in Nat \ {0}
ASSUME NameOfAssumption == NameOf \in [{t \in Token : TypeOf[t] = "assign"} -> Var]
ASSUME UnsetAssumption == Unset \notin Token

VARIABLES
    line,         \* tokens popped since the call, the last one is curr_tok
    popped,       \* tokens popped in all
    pc,           \* where in parser.c
    cmd,          \* the command under construction
    ast,          \* the commands of the tree so far
    items,        \* how many of them are in items of the list, cmds[0 .. count)
    var,          \* parser->var: the assignment each variable has its value from
    parse_error

tree == <<cmd, ast, items>>
parser == <<line, popped, pc, tree, var, parse_error>>

curr == Last(line)
NewCommand(join) == [join |-> join, redirs |-> <<>>, assigns |-> <<>>, words |-> <<>>]

(* pop(): a number is a TOK_REDIR_NB only in front of < or >, and at the   *)
(* end of the input every token is TOK_EOF.                                *)
Coming ==
    IF TypeOf[curr] = "nb" THEN {t \in Token : TypeOf[t] = "redir"}
    ELSE IF popped < MaxTok THEN Token
    ELSE {Eof}

Consume ==
    /\ \E t \in Coming : line' = Append(line, t)
    /\ popped' = popped + 1

Stay == UNCHANGED <<line, popped>>

Init ==
    /\ line \in {<<t>> : t \in Token}
    /\ popped = 1
    /\ pc = "return"
    /\ cmd = NewCommand("first")
    /\ ast = <<>>
    /\ items = 0
    /\ var = [v \in Var |-> Unset]
    /\ parse_error = FALSE
-----------------------------------------------------------------------------
(* run_shell calls parser_input, unless the last call returned NULL. *)
Call ==
    /\ pc = "return"
    /\ pc' = "start"
    /\ line' = <<curr>>
    /\ cmd' = NewCommand("first")
    /\ ast' = <<>>
    /\ items' = 0
    /\ UNCHANGED <<popped, var, parse_error>>

(* Newlines before a command, and after |, && and ||. *)
SkipNewline ==
    /\ pc \in {"start", "piped", "operand"}
    /\ TypeOf[curr] = "nl"
    /\ Consume
    /\ UNCHANGED <<pc, tree, var, parse_error>>

NoInput ==
    /\ pc = "start"
    /\ TypeOf[curr] = "eof"
    /\ pc' = "null"
    /\ Stay /\ UNCHANGED <<tree, var, parse_error>>

(* parse_list, parse_and_or, parse_pipeline: down to the first command. *)
Descend ==
    /\ \/ pc = "start" /\ TypeOf[curr] \notin {"nl", "eof"}
       \/ pc = "operand" /\ TypeOf[curr] # "nl"
       \/ pc = "piped" /\ TypeOf[curr] \notin {"nl", "eof", "pipe"}
    /\ pc' = "prefix"
    /\ Stay /\ UNCHANGED <<tree, var, parse_error>>
-----------------------------------------------------------------------------
(* parse_simple_command *)

(* parse_prefixes, on a word that is_assignment *)
Assignment ==
    /\ pc = "prefix"
    /\ TypeOf[curr] = "assign"
    /\ cmd' = [cmd EXCEPT !.assigns = Append(@, Len(line))]
    /\ Consume
    /\ UNCHANGED <<pc, ast, items, var, parse_error>>

(* parse_elements: from the first other word on, an assignment is a word. *)
Word ==
    /\ \/ pc = "prefix" /\ TypeOf[curr] = "word"
       \/ pc = "words" /\ IsWord(curr)
    /\ cmd' = [cmd EXCEPT !.words = Append(@, Len(line))]
    /\ pc' = "words"
    /\ Consume
    /\ UNCHANGED <<ast, items, var, parse_error>>

(* parse_redir, from either of them: the number, the operator, the file *)
RedirNb ==
    /\ pc \in {"prefix", "words"}
    /\ TypeOf[curr] = "nb"
    /\ pc' = "number"
    /\ Consume
    /\ UNCHANGED <<tree, var, parse_error>>

RedirOp ==
    /\ pc \in {"prefix", "words", "number"}
    /\ TypeOf[curr] = "redir"
    /\ pc' = "file"
    /\ Consume
    /\ UNCHANGED <<tree, var, parse_error>>

(* Slip: what follows a redirection is a prefix again. *)
RedirFileRestarts ==
    /\ pc = "file"
    /\ IsWord(curr)
    /\ cmd' = [cmd EXCEPT !.redirs = Append(@, Len(line))]
    /\ pc' = "prefix"
    /\ Consume
    /\ UNCHANGED <<ast, items, var, parse_error>>

RedirFile ==
    /\ pc = "file"
    /\ IsWord(curr)
    /\ cmd' = [cmd EXCEPT !.redirs = Append(@, Len(line))]
    /\ pc' = IF cmd.words = <<>> THEN "prefix" ELSE "words"
    /\ Consume
    /\ UNCHANGED <<ast, items, var, parse_error>>

(* Slip: add_var keeps the value of a variable that is there already. *)
AssignedFirst(v) ==
    LET to == {n \in DOMAIN cmd.assigns : NameOf[line[cmd.assigns[n]]] = v}
    IN  IF to = {} THEN {} ELSE {line[cmd.assigns[n]] : n \in {Min(to)}}

(* The last assignment of a command to v, or none. *)
Assigned(v) ==
    LET to == {n \in DOMAIN cmd.assigns : NameOf[line[cmd.assigns[n]]] = v}
    IN  IF to = {} THEN {} ELSE {line[cmd.assigns[n]] : n \in {Max(to)}}

(* apply_assignments, attach_redirs: the variables change here, whether    *)
(* the command is ever run or not.                                         *)
EndCommand ==
    /\ pc \in {"prefix", "words"}
    /\ ~IsWord(curr) /\ ~IsRedir(curr)
    /\ var' = [v \in Var |-> IF Assigned(v) = {} THEN var[v]
                             ELSE CHOOSE t \in Assigned(v) : TRUE]
    /\ ast' = Append(ast, cmd)
    /\ pc' = "joint"
    /\ Stay /\ UNCHANGED <<cmd, items, parse_error>>
-----------------------------------------------------------------------------
(* The loops of parse_pipeline_cmds, parse_and_or and parse_list *)

Pipe ==
    /\ pc = "joint"
    /\ TypeOf[curr] = "pipe"
    /\ pc' = "piped"
    /\ cmd' = NewCommand("pipe")
    /\ Consume
    /\ UNCHANGED <<ast, items, var, parse_error>>

AndOr ==
    /\ pc = "joint"
    /\ TypeOf[curr] \in {"and", "or"}
    /\ pc' = "operand"
    /\ cmd' = NewCommand(TypeOf[curr])
    /\ Consume
    /\ UNCHANGED <<ast, items, var, parse_error>>

Semi ==
    /\ pc = "joint"
    /\ TypeOf[curr] = "semi"
    /\ pc' = "semi"
    /\ items' = Len(ast)
    /\ Consume
    /\ UNCHANGED <<cmd, ast, var, parse_error>>

NextItem ==
    /\ pc = "semi"
    /\ TypeOf[curr] \notin {"semi", "nl", "eof"}
    /\ pc' = "prefix"
    /\ cmd' = NewCommand("semi")
    /\ Stay /\ UNCHANGED <<ast, items, var, parse_error>>

(* Slip: a semicolon ends the list. *)
ReturnAtSemi ==
    /\ \/ pc = "joint" /\ TypeOf[curr] \in {"nl", "eof"}
       \/ pc = "semi"
    /\ pc' = "return"
    /\ items' = Len(ast)
    /\ Stay /\ UNCHANGED <<cmd, ast, var, parse_error>>

(* create_list, or the only item *)
Return ==
    /\ \/ pc = "joint" /\ TypeOf[curr] \in {"nl", "eof"}
       \/ pc = "semi" /\ TypeOf[curr] \in {"nl", "eof"}
    /\ pc' = "return"
    /\ items' = Len(ast)
    /\ Stay /\ UNCHANGED <<cmd, ast, var, parse_error>>

(* Slip: a pipe may not be followed by a semicolon either. *)
FailAtSemi ==
    /\ \/ pc = "file" /\ ~IsWord(curr)
       \/ pc = "piped" /\ TypeOf[curr] \in {"eof", "pipe", "semi"}
    /\ ast' = SubSeq(ast, 1, items)
    /\ pc' = IF items = 0 THEN "null" ELSE "return"
    /\ Stay /\ UNCHANGED <<cmd, items, var, parse_error>>

(* A redirection without a file, a pipe without a command: the item is     *)
(* freed; parse_list returns the items before it, or NULL if it has none.  *)
Fail ==
    /\ \/ pc = "file" /\ ~IsWord(curr)
       \/ pc = "piped" /\ TypeOf[curr] \in {"eof", "pipe"}
    /\ ast' = SubSeq(ast, 1, items)
    /\ pc' = IF items = 0 THEN "null" ELSE "return"
    /\ Stay /\ UNCHANGED <<cmd, items, var, parse_error>>

(* handle_double_semi: the rest of the line is skipped. *)
DoubleSemi ==
    /\ pc = "semi"
    /\ TypeOf[curr] = "semi"
    /\ parse_error' = TRUE
    /\ pc' = "double"
    /\ Stay /\ UNCHANGED <<tree, var>>

SkipLine ==
    /\ pc = "double"
    /\ TypeOf[curr] \notin {"nl", "eof"}
    /\ Consume
    /\ UNCHANGED <<pc, tree, var, parse_error>>

LineSkipped ==
    /\ pc = "double"
    /\ TypeOf[curr] \in {"nl", "eof"}
    /\ pc' = "null"
    /\ ast' = <<>> /\ items' = 0
    /\ Stay /\ UNCHANGED <<cmd, var, parse_error>>

ParseStep ==
    \/ SkipNewline \/ NoInput \/ Descend
    \/ Assignment \/ Word \/ RedirNb \/ RedirOp \/ RedirFile \/ EndCommand
    \/ Pipe \/ AndOr \/ Semi \/ NextItem \/ Return
    \/ Fail \/ DoubleSemi \/ SkipLine \/ LineSkipped

Next == Call \/ ParseStep

Spec == Init /\ [][Next]_parser

-----------------------------------------------------------------------------
Position == 1 .. Len(line)
Commands ==
    [join : {"first"} \cup Separator, redirs : Seq(Position),
     assigns : Seq(Position), words : Seq(Position)]

(* parser.c:14-24, 485: no loop pops more than one token beyond the end of *)
(* the input, and a list never counts more items than it has commands.     *)
TypeOK ==
    /\ line \in Seq(Token) /\ line # <<>>
    /\ popped \in 1 .. MaxTok + 2
    /\ pc \in {"return", "null", "start", "prefix", "words", "number", "file",
               "joint", "piped", "operand", "semi", "double"}
    /\ cmd \in Commands
    /\ ast \in Seq(Commands)
    /\ items \in 0 .. Len(ast)
    /\ var \in [Var -> Token \cup {Unset}]
    /\ parse_error \in BOOLEAN

(* parser.c:495: the tree parser_input returns is what the line says: its  *)
(* commands are the stretches between the separators, from the first one   *)
(* on, each with its own words and redirections in their order.            *)
TreeIsReading ==
    pc = "return" => \A n \in 1 .. Len(ast) : ast[n] = Reading(line, n)

(* parser.c:509-530: nothing is missing from it unless what follows its    *)
(* last item is malformed; then the current token is where it went wrong,  *)
(* and otherwise the end of the line.                                      *)
OnlyMalformedDropped ==
    pc = "return" /\ ast # <<>> =>
        \/ /\ Len(ast) = Spans(line)
           /\ TypeOf[curr] \in {"nl", "eof"}
        \/ Malformed(line, Len(ast))

(* parser.c:479, 352, 123: NULL means the end of the input, a malformed    *)
(* first item, or ;; somewhere: never a line that could have been run.     *)
NullIsDeserved ==
    pc = "null" =>
        \/ \A p \in Position : TypeOf[line[p]] \in {"nl", "eof"}
        \/ parse_error /\ HasDoubleSemi(line)
        \/ Malformed(line, 0)

(* parser.c:233: when a line is about to be executed every variable it     *)
(* assigns has its last value already, in whichever command, run or not.   *)
AssignedTo(v) ==
    {p \in Position : /\ TypeOf[line[p]] = "assign" /\ NameOf[line[p]] = v
                      /\ \E n \in 1 .. Len(ast) : p \in ToSet(ast[n].assigns)}
LastAssignmentWins ==
    pc = "return" /\ ast # <<>> /\ Len(ast) = Spans(line) =>
        \A v \in Var : AssignedTo(v) # {} => var[v] = line[Max(AssignedTo(v))]

=============================================================================
