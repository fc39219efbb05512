---------------------------- MODULE Redirection ----------------------------
(***************************************************************************)
(* One shell running simple commands with redirections: exec_redirection   *)
(* sends a builtin through exec_redir_builtin, which rewires the shell's   *)
(* own descriptors and puts them back, and anything else through           *)
(* exec_redir_external, which rewires a forked child.  A command without   *)
(* redirections goes straight to exec_command.                             *)
(***************************************************************************)
EXTENDS Descriptors, Sequences

CONSTANTS
    Path,       \* names a redirection may carry
    Locked,     \* those no open succeeds on
    RedirNb,    \* numbers written before < or >, -1 when there is none
    Chain,      \* the redirection lists that commands may have
    Inherited,  \* what the shell's descriptors refer to when it starts
    Boot,       \* the descriptor tables it may start with
    Code        \* exit codes of programs and of the builtin exit

Kind == {"in", "out", "app"}
Redir == [type : Kind, nb : RedirNb, file : Path]
Opened == Kind \X Path
Object == Inherited \cup Opened
Table == [Fd -> Object \cup {Closed}]
Content == {"absent", "empty", "data"}

Builtin == {"echo", "exit"}
Name == Builtin \cup {"prog", "none"}
(* literal: the name stands in the source as such; otherwise it comes out  *)
(* of an expansion.  "none" is a command of redirections only.             *)
Command ==
    {c \in [name : Name, literal : BOOLEAN, redirs : Chain] :
        c.literal \/ c.name \in Builtin}
Nothing == [name |-> "none", literal |-> TRUE, redirs |-> <<>>]

ASSUME PathAssumption == Locked \subseteq Path
ASSUME ClosedAssumption == Closed \notin Object
ASSUME RedirNbAssumption == RedirNb \subseteq Nat \cup {-1}
ASSUME ChainAssumption == Chain \subseteq Seq(Redir)
ASSUME BootAssumption ==
    \A t \in Boot : t \in Table /\ \A d \in Std : t[d] # Closed
ASSUME CodeAssumption == Code \subseteq 0 .. 255

VARIABLES
    base,     \* the table the shell started with
    fds,      \* the shell's table
    cfds,     \* the table of the child it forked
    files,    \* contents of the files
    cmd,      \* the command under execution
    k,        \* progress through redirections, saved descriptors, ...
    saved,    \* saved_in, saved_out, saved_err
    ok,       \* ok of exec_redir_builtin
    exit,     \* parser->exit
    cstatus,  \* exit status of the child
    status,   \* what exec_ast returned for it
    pc,       \* where exec.c is
    before,   \* history: files when the command was read
    refused   \* history: the first redirection that could not be opened

vars == <<base, fds, cfds, files, cmd, k, saved, ok, exit, cstatus, status,
          pc, before, refused>>
history == <<before, refused>>

Target(r) ==
    IF r.nb # -1 THEN r.nb
    ELSE IF r.type = "in" THEN 0 ELSE 1

(* open(2) of a redirection's file: when it succeeds, ... *)
Opens(t, r) ==
    /\ Free(t) # {}
    /\ r.file \notin Locked
    /\ r.type = "in" => files[r.file] # "absent"

(* ... what it does to the file (O_CREAT, O_TRUNC), ... *)
Effect(r) ==
    IF r.type = "out" \/ (r.type = "app" /\ files[r.file] = "absent")
    THEN [files EXCEPT ![r.file] = "empty"]
    ELSE files

(* Slip: the descriptor open returned is not closed. *)
RedirectedLeaking(t, r) ==
    Dup2(OpenFd(t, <<r.type, r.file>>), Lowest(t), Target(r))
(* ... and the table once the descriptor is on its target and closed.  *)
Redirected(t, r) ==
    LET fd == Lowest(t)
    IN  Close(Dup2(OpenFd(t, <<r.type, r.file>>), fd, Target(r)), fd)

(* What echo leaves in the file its standard output refers to. *)
Written(t) ==
    [p \in Path |-> IF t[1] \in {"out", "app"} \X {p} THEN "data" ELSE files[p]]

Init ==
    /\ base \in Boot
    /\ fds = base
    /\ cfds = base
    /\ files \in [Path -> Content]
    /\ \A p \in Locked : files[p] = "absent"
    /\ cmd = Nothing
    /\ k = 0
    /\ saved = [d \in Std |-> NoFd]
    /\ ok = TRUE
    /\ exit = FALSE
    /\ cstatus = 0
    /\ status = 0
    /\ pc = "ready"
    /\ before = files
    /\ refused = 0
-----------------------------------------------------------------------------
(* is_blt of exec_redirection.  Slip: is_builtin does not know exit. *)
IsBltEchoOnly(c) == c.literal /\ c.name = "echo"
IsBlt(c) == c.literal /\ c.name \in Builtin

(* run_shell picks the next command; exec_redirection looks at the first   *)
(* word as it is written, exec_command at what it expands to.              *)
Read ==
    /\ pc = "ready" /\ ~exit
    /\ \E c \in Command :
        /\ cmd' = c
        /\ pc' = IF c.redirs # <<>>
                 THEN IF IsBlt(c) THEN "save" ELSE "spawn"
                 ELSE IF c.name = "prog" THEN "spawn" ELSE "run"
    /\ before' = files
    /\ UNCHANGED <<base, fds, cfds, files, k, saved, ok, exit, cstatus, status,
                   refused>>

(* Back in run_shell: the status is stored, the tree freed.                *)
Loop ==
    /\ pc = "done"
    /\ pc' = "ready"
    /\ cmd' = Nothing
    /\ k' = 0
    /\ saved' = [d \in Std |-> NoFd]
    /\ ok' = TRUE
    /\ cfds' = base
    /\ cstatus' = 0
    /\ status' = 0
    /\ refused' = 0
    /\ UNCHANGED <<base, fds, files, exit, before>>

(* dup(STDIN_FILENO), dup(STDOUT_FILENO), dup(STDERR_FILENO) *)
Save ==
    /\ pc = "save"
    /\ saved' = [saved EXCEPT ![k] = DupFd(fds, k)]
    /\ fds' = Dup(fds, k)
    /\ IF k = 2 THEN k' = 1 /\ pc' = "apply" ELSE k' = k + 1 /\ pc' = pc
    /\ UNCHANGED <<base, cfds, files, cmd, ok, exit, cstatus, status, history>>

(* One turn of apply_redir_builtin. *)
Apply ==
    /\ pc = "apply" /\ k <= Len(cmd.redirs)
    /\ LET r == cmd.redirs[k]
       IN  /\ Opens(fds, r)
           /\ fds' = Redirected(fds, r)
           /\ files' = Effect(r)
    /\ k' = k + 1
    /\ UNCHANGED <<base, cfds, cmd, saved, ok, exit, cstatus, status, pc, history>>

(* Slip: the loop is left without ok = 0. *)
ApplyFailsUnnoticed ==
    /\ pc = "apply" /\ k <= Len(cmd.redirs)
    /\ ~Opens(fds, cmd.redirs[k])
    /\ pc' = "restore"
    /\ k' = 0
    /\ refused' = IF refused = 0 THEN k ELSE refused
    /\ UNCHANGED <<base, fds, cfds, files, cmd, saved, ok, exit, cstatus, status,
                   before>>

ApplyFails ==
    /\ pc = "apply" /\ k <= Len(cmd.redirs)
    /\ ~Opens(fds, cmd.redirs[k])
    /\ ok' = FALSE
    /\ pc' = "restore"
    /\ k' = 0
    /\ refused' = IF refused = 0 THEN k ELSE refused
    /\ UNCHANGED <<base, fds, cfds, files, cmd, saved, exit, cstatus, status, before>>

ApplyEnds ==
    /\ pc = "apply" /\ k > Len(cmd.redirs)
    /\ pc' = "run"
    /\ UNCHANGED <<base, fds, cfds, files, cmd, k, saved, ok, exit, cstatus,
                   status, history>>

(* execute_builtin in the shell itself, or a command of no words. *)
RunInShell ==
    /\ pc = "run"
    /\ \/ cmd.name = "echo" /\ files' = Written(fds) /\ status' = 0 /\ exit' = exit
       \/ cmd.name = "exit" /\ status' \in Code /\ exit' = TRUE /\ files' = files
       \/ cmd.name = "none" /\ status' = 0 /\ UNCHANGED <<files, exit>>
    /\ pc' = IF cmd.redirs = <<>> THEN "done" ELSE "restore"
    /\ k' = 0
    /\ UNCHANGED <<base, fds, cfds, cmd, saved, ok, cstatus, history>>

(* dup2(saved_in, STDIN_FILENO), ... *)
Restore ==
    /\ pc = "restore"
    /\ fds' = Dup2(fds, saved[k], k)
    /\ IF k = 2 THEN k' = 0 /\ pc' = "close" ELSE k' = k + 1 /\ pc' = pc
    /\ UNCHANGED <<base, cfds, files, cmd, saved, ok, exit, cstatus, status, history>>

(* close(saved_in), ...; return ok ? status : 1 *)
CloseSaved ==
    /\ pc = "close"
    /\ fds' = Close(fds, saved[k])
    /\ IF k = 2
       THEN pc' = "done" /\ k' = k /\ status' = IF ok THEN status ELSE 1
       ELSE k' = k + 1 /\ UNCHANGED <<pc, status>>
    /\ UNCHANGED <<base, cfds, files, cmd, saved, ok, exit, cstatus, history>>
-----------------------------------------------------------------------------
(* fork in exec_redir_external, or in fork_exec when nothing is redirected *)
Fork ==
    /\ pc = "spawn"
    /\ cfds' = fds
    /\ k' = 1
    /\ pc' = "child"
    /\ UNCHANGED <<base, fds, files, cmd, saved, ok, exit, cstatus, status, history>>

ForkFails ==
    /\ pc = "spawn"
    /\ status' = 1
    /\ pc' = "done"
    /\ UNCHANGED <<base, fds, cfds, files, cmd, k, saved, ok, exit, cstatus, history>>

(* all_redirections in the child; redirect() ends it when an open fails. *)
ChildApply ==
    /\ pc = "child" /\ k <= Len(cmd.redirs)
    /\ LET r == cmd.redirs[k]
       IN  /\ Opens(cfds, r)
           /\ cfds' = Redirected(cfds, r)
           /\ files' = Effect(r)
    /\ k' = k + 1
    /\ UNCHANGED <<base, fds, cmd, saved, ok, exit, cstatus, status, pc, history>>

ChildFails ==
    /\ pc = "child" /\ k <= Len(cmd.redirs)
    /\ ~Opens(cfds, cmd.redirs[k])
    /\ cstatus' = 1
    /\ pc' = "wait"
    /\ refused' = IF refused = 0 THEN k ELSE refused
    /\ UNCHANGED <<base, fds, cfds, files, cmd, k, saved, ok, exit, status, before>>

(* Slip: the innermost redirection is taken for the command. *)
ChildAppliedEarly ==
    /\ pc = "child" /\ k >= Len(cmd.redirs)
    /\ pc' = "image"
    /\ UNCHANGED <<base, fds, cfds, files, cmd, k, saved, ok, exit, cstatus,
                   status, history>>

ChildApplied ==
    /\ pc = "child" /\ k > Len(cmd.redirs)
    /\ pc' = "image"
    /\ UNCHANGED <<base, fds, cfds, files, cmd, k, saved, ok, exit, cstatus,
                   status, history>>

(* The child runs what it was forked for: a builtin that came out of an    *)
(* expansion, nothing, or a program in a process of its own, which may     *)
(* not be found (127), be killed, or not be forked (1).                    *)
ChildRuns ==
    /\ pc = "image"
    /\ \/ cmd.name = "echo" /\ cstatus' = 0 /\ files' = Written(cfds)
       \/ cmd.name = "exit" /\ cstatus' \in Code /\ files' = files
       \/ cmd.name = "prog" /\ cstatus' \in Code \cup {1, 127} /\ files' = files
       \/ cmd.name = "none" /\ cstatus' = 0 /\ files' = files
    /\ pc' = "wait"
    /\ UNCHANGED <<base, fds, cfds, cmd, k, saved, ok, exit, status, history>>

(* waitpid: WIFEXITED(status) ? WEXITSTATUS(status) : 1 *)
Reap ==
    /\ pc = "wait"
    /\ status' \in {cstatus, 1}
    /\ pc' = "done"
    /\ UNCHANGED <<base, fds, cfds, files, cmd, k, saved, ok, exit, cstatus, history>>

ShellStep == Read \/ Loop \/ Save \/ Apply \/ ApplyFails \/ ApplyEnds \/ RunInShell
                  \/ Restore \/ CloseSaved \/ Fork \/ ForkFails \/ Reap
ChildStep == ChildApply \/ ChildFails \/ ChildApplied \/ ChildRuns

Next == ShellStep \/ ChildStep

Spec == Init /\ [][Next]_vars
-----------------------------------------------------------------------------
(* Statuses are what waitpid and the builtins give (exec.c:152, 201), and  *)
(* both processes always have a whole descriptor table.                    *)
TypeOK ==
    /\ base \in Boot
    /\ fds \in Table
    /\ cfds \in Table
    /\ files \in [Path -> Content]
    /\ cmd \in Command \cup {Nothing}
    /\ k \in Nat
    /\ saved \in [Std -> Fd \cup {NoFd}]
    /\ ok \in BOOLEAN
    /\ exit \in BOOLEAN
    /\ cstatus \in 0 .. 255
    /\ status \in 0 .. 255
    /\ pc \in {"ready", "save", "apply", "run", "restore", "close",
               "spawn", "child", "image", "wait", "done"}
    /\ before \in [Path -> Content]
    /\ refused \in Nat

(* exec.c:183: whatever the redirections were and however they ended, the  *)
(* shell is back to the descriptors it started with, none lost or leaked,  *)
(* before it reads another command.                                        *)
DescriptorsRestored == pc \in {"ready", "done"} => fds = base

(* What exec_redir_builtin's three saved numbers stand for, step by step:  *)
(* copies of the original descriptors, at numbers that were free and that  *)
(* nothing else touches; a copy that could not be made means a full table, *)
(* in which no redirection can be opened either (exec.c:186-200).  The     *)
(* inductive invariant behind DescriptorsRestored.                         *)
Rewired ==
    \/ pc \in {"save", "apply", "restore", "close"}
    \/ pc = "run" /\ cmd.redirs # <<>>

CopiesApart ==
    \A i \in Std : saved[i] # NoFd =>
        /\ saved[i] \notin Std
        /\ base[saved[i]] = Closed
        /\ \A j \in Std : saved[j] = saved[i] => j = i
        /\ pc # "close" => fds[saved[i]] = base[i]
        /\ pc = "close" /\ i < k => fds[saved[i]] = Closed

OthersUntouched ==
    \A d \in Fd \ Std : (\A i \in Std : saved[i] # d) => fds[d] = base[d]

MissingCopies ==
    \A i \in Std : saved[i] = NoFd =>
        /\ (pc = "save" /\ i < k) \/ pc \in {"apply", "run"} => Free(fds) = {}
        /\ pc # "save" => fds[i] = base[i]

StdAtStep ==
    \A d \in Std :
        /\ pc = "save" => fds[d] = base[d] /\ (d >= k => saved[d] = NoFd)
        /\ pc = "restore" /\ d < k => fds[d] = base[d]
        /\ pc = "close" => fds[d] = base[d]
        /\ fds[d] # Closed

SavedCopies ==
    IF Rewired
    THEN CopiesApart /\ OthersUntouched /\ MissingCopies /\ StdAtStep
    ELSE fds = base

(* The first n redirections of a chain are in force in table t: each       *)
(* standard descriptor is on the last of them that names it, or as it was. *)
Decides(chain, n, d, i) ==
    /\ Target(chain[i]) = d
    /\ \A j \in i + 1 .. n : Target(chain[j]) # d
InForce(t, chain, n) ==
    \A d \in Std :
        /\ \A i \in 1 .. n :
               Decides(chain, n, d, i) => t[d] = <<chain[i].type, chain[i].file>>
        /\ (\A i \in 1 .. n : Target(chain[i]) # d) => t[d] = base[d]

(* exec.c:34, 57, 155: a command runs with every redirection in force, in  *)
(* the shell (a builtin) and in a child alike.                             *)
RedirectionsInForce ==
    /\ pc = "run" => InForce(fds, cmd.redirs, Len(cmd.redirs))
    /\ pc = "image" => InForce(cfds, cmd.redirs, Len(cmd.redirs))

(* Only the first n redirections left a trace in the files.                *)
OnlyTraceOf(n) ==
    \A p \in Path : files[p] # before[p] =>
        \E i \in 1 .. n : cmd.redirs[i].file = p /\ cmd.redirs[i].type # "in"

(* exec.c:47, 170: redirections are opened from left to right; one that    *)
(* cannot be opened gives status 1 and neither the redirections after it   *)
(* nor the command leave a trace in any file.                              *)
RefusedStops ==
    pc = "done" /\ refused # 0 => status = 1 /\ OnlyTraceOf(refused - 1)

(* exec.c:204-216: exit ends the shell, with redirections or without, if   *)
(* it was not refused one of them; but with redirections it ends no more   *)
(* than a child if its name comes out of an expansion.                     *)
ExitTakesEffect ==
    pc = "done" /\ cmd.name = "exit" /\ refused = 0 =>
        (exit <=> cmd.literal \/ cmd.redirs = <<>>)

=============================================================================
