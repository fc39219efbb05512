------------------------------- MODULE Shell -------------------------------
(***************************************************************************)
(* run_shell and exec_ast: read a line, walk its tree, store the status in *)
(* $? and in last_code, until the input ends, a syntax error is flagged or *)
(* the builtin exit sets parser->exit.  The parser is the module Parser;   *)
(* pipelines and redirections count by what the modules PipelineAbs and    *)
(* Redirection show of them.                                               *)
(***************************************************************************)
EXTENDS Grammar

CONSTANTS
    MaxTok, Var, NameOf, Unset,   \* see Parser
    Code,                         \* exit codes of programs
    Number                        \* the numbers among the words

ASSUME MaxTokAssumption == MaxTok \in Nat \ {0}
ASSUME NameOfAssumption == NameOf \in [{t \in Token : TypeOf[t] = "assign"} -> Var]
ASSUME UnsetAssumption == Unset \notin Token
ASSUME CodeAssumption == Code \subseteq 0 .. 255
ASSUME NumberAssumption == \A w \in DOMAIN Number : Number[w] \in 0 .. 255

VARIABLES
    line, popped, pc, cmd, ast, items, var, parse_error,   \* see Parser
    spc,         \* where in run_shell or exec_ast
    next,        \* the command of the tree that is to run next
    status,      \* what exec_ast returned last
    exit,        \* parser->exit
    ex_code,     \* parser->ex_code
    last_code,   \* parser->last_code
    exit_code,   \* parser->spe->exit_code, the value of $?
    result,      \* exit status of the shell
    did,         \* history: pipelines of the line that were run, and their status
    latest,      \* history: status of the last pipeline that was run
    before,      \* history: the same when the line was begun
    asked        \* history: the code the first exit asked for

Parser == INSTANCE Parser
parser == <<line, popped, pc, cmd, ast, items, var, parse_error>>
codes == <<exit, ex_code, last_code, exit_code>>
history == <<did, latest, before, asked>>
vars == <<parser, spc, next, status, codes, result, history>>

None == -1

Init ==
    /\ Parser!Init
    /\ spc = "call"
    /\ next = 1
    /\ status = 0
    /\ exit = FALSE /\ ex_code = 0 /\ last_code = 0 /\ exit_code = 0
    /\ result = None
    /\ did = {} /\ latest = 0 /\ before = 0 /\ asked = None
-----------------------------------------------------------------------------
(* What one command may return and leave in parser->exit and ex_code *)

Returns(s) == [status |-> s, exit |-> exit, ex_code |-> ex_code]
Exits(s, c) == [status |-> s, exit |-> TRUE, ex_code |-> c]

(* expand: $? is the status stored last, anything else is as it stands. *)
Numeric(w) == w = "$?" \/ w \in DOMAIN Number
Value(w) == IF w = "$?" THEN exit_code ELSE Number[w]

builtin_exit(args) ==
    IF args = <<>> THEN {Exits(0, last_code)}
    ELSE IF Len(args) > 1 THEN {Returns(1)}
    ELSE IF Numeric(args[1]) THEN {Exits(Value(args[1]), Value(args[1]))}
    ELSE {Exits(2, 2)}

Argv(c) == [n \in DOMAIN c.words |-> line[c.words[n]]]

(* exec_command, after exec_redirection: a redirection may be refused, a   *)
(* program may not be forked or be killed, and each of these gives 1.      *)
Leaf(c) ==
    (IF c.redirs = <<>> THEN {} ELSE {Returns(1)}) \cup
    (IF Argv(c) = <<>> THEN {Returns(0)}
     ELSE IF Argv(c)[1] = "exit" THEN builtin_exit(Tail(Argv(c)))
     ELSE {Returns(s) : s \in Code \cup {1}})

(* exec_pipeline: the status of the last stage, which runs in a child, so  *)
(* that no flag comes back; 0 when a signal ended it, 1 when a stage could *)
(* not be started.                                                         *)
Pipeline(last) == {Returns(r.status) : r \in Leaf(last)} \cup {Returns(0), Returns(1)}

(* The pipeline that begins at command n ends at command End(n). *)
End(n) ==
    Max({m \in n .. Len(ast) : \A k \in n + 1 .. m : ast[k].join = "pipe"})

(* exec_and, exec_or *)
Selected(n) ==
    /\ ast[n].join = "and" => status = 0
    /\ ast[n].join = "or" => status # 0

(* What exit asks for, if it accepts its arguments: without any, the       *)
(* status the shell had when it began the line.                            *)
Asks(c) ==
    LET args == Tail(Argv(c))
    IN  IF args = <<>> THEN before
        ELSE IF Numeric(args[1]) THEN Value(args[1]) ELSE 2
-----------------------------------------------------------------------------
(* run_shell *)

ParserInput ==
    /\ spc = "call"
    /\ Parser!Call
    /\ spc' = "parse"
    /\ next' = 1
    /\ did' = {} /\ before' = latest
    /\ UNCHANGED <<status, codes, result, latest, asked>>

Parse ==
    /\ spc = "parse"
    /\ Parser!ParseStep
    /\ UNCHANGED <<spc, next, status, codes, result, history>>

Execute ==
    /\ spc = "parse" /\ pc = "return"
    /\ spc' = "exec"
    /\ UNCHANGED <<parser, next, status, codes, result, history>>

(* ast is NULL: return 2, or break; main returns what run_shell did. *)
EndOfInput ==
    /\ spc = "parse" /\ pc = "null"
    /\ spc' = "dead"
    /\ result' = IF parse_error THEN 2 ELSE status
    /\ UNCHANGED <<parser, next, status, codes, history>>

(* The tree is done; main ends the shell with ex_code if exit was set. *)
LineDone ==
    /\ spc = "exec" /\ next > Len(ast)
    /\ last_code' = status
    /\ exit_code' = status
    /\ IF exit THEN spc' = "dead" /\ result' = ex_code
               ELSE spc' = "call" /\ result' = result
    /\ UNCHANGED <<parser, next, status, exit, ex_code, history>>
-----------------------------------------------------------------------------
(* exec_ast *)

(* exec_ast's first test.  Slip: it looks at ex_code too. *)
MustLeaveFailing == exit /\ ex_code # 0
MustLeave == exit

(* Slip: the status on the way is taken for ex_code. *)
LeaveWithStatus ==
    /\ spc = "exec" /\ next <= Len(ast) /\ Selected(next)
    /\ MustLeave
    /\ spc' = "dead"
    /\ result' = status
    /\ UNCHANGED <<parser, next, status, codes, history>>

LeaveAtOnce ==
    /\ spc = "exec" /\ next <= Len(ast) /\ Selected(next)
    /\ MustLeave
    /\ spc' = "dead"
    /\ result' = ex_code
    /\ UNCHANGED <<parser, next, status, codes, history>>

Run ==
    /\ spc = "exec" /\ next <= Len(ast) /\ Selected(next)
    /\ ~MustLeave
    /\ LET last == End(next)
       IN  /\ \E r \in IF last = next THEN Leaf(ast[next]) ELSE Pipeline(ast[last]) :
                 /\ status' = r.status
                 /\ exit' = r.exit
                 /\ ex_code' = r.ex_code
                 /\ asked' = IF r.exit /\ asked = None THEN Asks(ast[next]) ELSE asked
           /\ next' = last + 1
    /\ spc' = "store"
    /\ did' = did \cup {<<next, status'>>}
    /\ latest' = status'
    /\ UNCHANGED <<parser, last_code, exit_code, result, before>>

(* Slips: the pipeline is passed by one too many, or not at all; the rest  *)
(* of the item is left out too.                                            *)
SkipTo(n) ==
    /\ spc = "exec" /\ next <= Len(ast) /\ ~Selected(next)
    /\ next' = n
    /\ UNCHANGED <<parser, spc, status, codes, result, history>>
SkipOver == SkipTo(End(next) + 2)
SkipNothing == SkipTo(next)
SkipItem ==
    SkipTo(Max({n \in next + 1 .. Len(ast) + 1 :
                  \A m \in next + 1 .. n - 1 : ast[m].join # "semi"}))

(* The operand on the right is left out, with all of its pipeline. *)
Skip ==
    /\ spc = "exec" /\ next <= Len(ast) /\ ~Selected(next)
    /\ next' = End(next) + 1
    /\ UNCHANGED <<parser, spc, status, codes, result, history>>

(* Slip: exec_or does not store the status. *)
StoreUnlessOr ==
    /\ spc = "store"
    /\ exit_code' = IF next <= Len(ast) /\ ast[next].join = "or" THEN exit_code
                    ELSE status
    /\ spc' = "exec"
    /\ UNCHANGED <<parser, next, status, exit, ex_code, last_code, result, history>>

(* exec_list, exec_and, exec_or: spe->exit_code = status *)
Store ==
    /\ spc = "store"
    /\ exit_code' = status
    /\ spc' = "exec"
    /\ UNCHANGED <<parser, next, status, exit, ex_code, last_code, result, history>>

Next ==
    \/ ParserInput \/ Parse \/ Execute \/ EndOfInput \/ LineDone
    \/ LeaveAtOnce \/ Run \/ Skip \/ Store

Spec == Init /\ [][Next]_vars

(* The shell is one process; the programs it waits for end. *)
FairSpec == Spec /\ WF_vars(Next)
-----------------------------------------------------------------------------
(* exec.c:311-369: the walk never leaves the tree, and every status is a   *)
(* byte.                                                                   *)
TypeOK ==
    /\ Parser!TypeOK
    /\ spc \in {"call", "parse", "exec", "store", "dead"}
    /\ next \in 1 .. Len(ast) + 1
    /\ status \in 0 .. 255
    /\ exit \in BOOLEAN
    /\ ex_code \in 0 .. 255
    /\ last_code \in 0 .. 255
    /\ exit_code \in 0 .. 255
    /\ result \in -1 .. 255
    /\ did \subseteq (1 .. Len(ast)) \X (0 .. 255)
    /\ {latest, before} \subseteq 0 .. 255
    /\ asked \in -1 .. 255

(* exec.c:346, minishell.c:16: once exit is accepted no command is run,    *)
(* whatever follows on its line and on the lines after it.                 *)
ExitStops == [][exit => did' = did]_vars

(* minishell.c:57-70, builtin.c:150: the shell ends with the code its      *)
(* first exit asked for;  without one with 2 if a syntax error was         *)
(* flagged, and else with the status of the last pipeline it ran, however  *)
(* long ago.  What a bare exit asks for is last_code, written once per     *)
(* line: the status before its own line, so that `false; exit` gives 0.    *)
(* parser.h:27 says otherwise (see Session, LastStatus).                   *)
FinalStatus ==
    spc = "dead" =>
        result = IF asked # None THEN asked ELSE IF parse_error THEN 2 ELSE latest

(* special.h:7: when a command is about to run, $? is the status of the    *)
(* last pipeline that ran, over operands left out, lists and lines.        *)
DollarQuestion == spc = "exec" => exit_code = latest

(* exec.c:309-341: the first operand of every item of a line is run, and   *)
(* one after && or || exactly when the last operand that was run before it *)
(* succeeded or failed, whatever was left out in between.                  *)
Was(n) == \E s \in 0 .. 255 : <<n, s>> \in did
OperandsRunWhenDue ==
    spc = "exec" =>
        \A n \in 1 .. next - 1 :
            CASE ast[n].join = "pipe" -> ~Was(n)
              [] ast[n].join \in {"first", "semi"} -> Was(n)
              [] OTHER ->
                   LET m == Max({k \in 1 .. n - 1 : Was(k)})
                   IN  Was(n) <=> (ast[n].join = "and" <=> <<m, 0>> \in did)

(* The shell ends: with exit, with the input or at a syntax error. *)
Ends == <>(spc = "dead")
-----------------------------------------------------------------------------
(* Claims of the repository that do not hold. *)

(* minishell.c:22, "Si erreur de syntaxe on stop avec code 2": a call of   *)
(* the parser that ended in a syntax error stops the shell with 2.         *)
SyntaxErrorStatus ==
    spc = "dead" /\ pc = "null" /\ Malformed(line, 0) => result = 2

=============================================================================
