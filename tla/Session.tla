------------------------------ MODULE Session ------------------------------
(***************************************************************************)
(* A session of the shell with the C library between it and its files: the *)
(* script is read ahead in blocks, output is collected in a buffer, and    *)
(* both are copied by fork and thrown away by exec and _exit.  Builtins    *)
(* run in the shell, its output moved to a file for a while when they are  *)
(* redirected, or in a stage of a pipeline.  A line is one command, or one *)
(* behind a program that fails;  the text that it prints is its number.    *)
(***************************************************************************)
EXTENDS Integers, Sequences, SequencesExt

CONSTANTS
    Scripts,   \* sequences of lines
    Block,     \* lines that one read of the script brings
    Ints,      \* how many values an int has, 2 ^ 32
    Statuses,  \* how many an exit status has for the system, 2 ^ 8
    Home       \* whether HOME is set

ASSUME BlockAssumption == Block \in Nat \ {0}
ASSUME WidthAssumption ==
    /\ Ints \in Nat /\ Statuses \in Nat /\ Statuses > 2
    /\ \E k \in 1 .. Ints : Ints = 2 * k * Statuses
ASSUME HomeAssumption == Home \in BOOLEAN

(* toomany: exit with two arguments;  reader: a program that reads its     *)
(* input up to the end, cat say.                                           *)
Cmd == {"echo", "exit", "toomany", "cd", "kill", "reader"}

(* plain: the command alone;  after: behind a program that fails and does  *)
(* nothing else, `false; cmd`, which leaves only its status 1 behind;      *)
(* file: its output redirected;  first, last: the first or the last of two *)
(* stages of a pipeline.                                                   *)
Place == {"plain", "after", "file", "first", "last"}

(* The argument of exit: none, something else or a sign and digits.        *)
Sign == {"none", "junk", "", "-", "+"}
(* The directory of cd: HOME for none;  one that is there, and one not.    *)
Dir == {"none", "there", "missing"}
(* Processes for kill: what is no number, is gone, is some other process   *)
(* or the shell itself.                                                    *)
Target == {"invalid", "gone", "other", "shell"}

Line == [cmd : Cmd, sign : Sign, digits : Seq(0 .. 9), dir : Dir,
         pids : Seq(Target), place : Place]

ASSUME ScriptAssumption == Scripts \subseteq Seq(Line)

Proc == {"shell", "child"}
Dest == {"out", "f", "pipe"}

VARIABLES
    script, source,   \* the lines, read from "stdin" or from a "script" file
    tty,              \* whether the shell's output is a terminal
    next, lim,        \* lines next .. lim - 1 are in the buffer of the input
    off,              \* the line at which the file's offset is
    pc,               \* where the shell is, or what its child does
    proc,             \* the memory of the two processes, and descriptor 1
    last_code,
    files,            \* what was written where: the line and the process
    ended, code,      \* how the shell ended, and its exit status
    ran,              \* history: lines taken for execution,
    refused,          \* those of them for which fork failed,
    eaten             \* and lines that programs read

vars == <<script, source, tty, next, lim, off, pc, proc, last_code, files,
          ended, code, ran, refused, eaten>>

Fresh == [buf |-> <<>>, mode |-> "unset", fd1 |-> "out", cwd |-> "start",
          exit |-> FALSE, ex_code |-> 0, st |-> 0]

Init ==
    /\ script \in Scripts /\ source \in {"stdin", "script"} /\ tty \in BOOLEAN
    /\ next = 1 /\ lim = 1 /\ off = 1
    /\ pc = "read"
    /\ proc = [p \in Proc |-> Fresh]
    /\ last_code = 0
    /\ files = [d \in Dest |-> <<>>]
    /\ ended = "no" /\ code = 0
    /\ ran = <<>> /\ refused = {} /\ eaten = {}

input == <<next, lim, off>>
history == <<ran, refused, eaten>>
world == <<script, source, tty>>

now == ran[Len(ran)]        \* the line that is being executed
Running == script[now]
-----------------------------------------------------------------------------
(* stdio: output *)

(* How a stream is buffered is settled when it is first written to. *)
Mode(m) ==
    IF m.mode # "unset" THEN m.mode
    ELSE IF m.fd1 = "out" /\ tty THEN "line" ELSE "full"

Entry(p, text) == [line |-> text, by |-> p]
Written(p, texts) ==
    [files EXCEPT ![proc[p].fd1] = @ \o [n \in DOMAIN texts |-> Entry(p, texts[n])]]

(* p prints the text of the running line, a full line, and flushes or not; *)
(* st is the status of its builtin.                                        *)
Prints(p, flush, st) ==
    LET m == proc[p]
        all == Append(m.buf, now)
        out == flush \/ Mode(m) = "line"
    IN  /\ files' = Written(p, IF out THEN all ELSE <<>>)
        /\ proc' = [proc EXCEPT ![p].buf = IF out THEN <<>> ELSE all,
                                ![p].mode = Mode(m), ![p].st = st]
-----------------------------------------------------------------------------
(* io_backend_next, run_shell *)

(* The buffer of the input is refilled from where the file's offset is.    *)
(* Slip: it is taken for full.                                             *)
FillAlways ==
    /\ pc = "read" /\ next = lim /\ off <= Len(script)
    /\ next' = off
    /\ lim' = off + Block
    /\ off' = lim'
    /\ UNCHANGED <<world, pc, proc, last_code, files, ended, code, history>>
Fill ==
    /\ pc = "read" /\ next = lim /\ off <= Len(script)
    /\ next' = off
    /\ lim' = IF off + Block <= Len(script) THEN off + Block ELSE Len(script) + 1
    /\ off' = lim'
    /\ UNCHANGED <<world, pc, proc, last_code, files, ended, code, history>>

ReadLine ==
    /\ pc = "read" /\ next < lim
    /\ next' = next + 1
    /\ ran' = Append(ran, next)
    /\ pc' = "dispatch"
    /\ UNCHANGED <<world, lim, off, proc, last_code, files, ended, code, refused, eaten>>

(* main returns run_shell's status: exit(3) writes out what is buffered.   *)
(* Slip: it leaves like an exit of the script does.                        *)
ReturnAtOnce ==
    /\ pc = "read" /\ next = lim /\ off > Len(script)
    /\ ended' = "eof" /\ code' = last_code /\ pc' = "over"
    /\ proc' = [proc EXCEPT !["shell"].buf = <<>>]
    /\ UNCHANGED <<world, input, last_code, files, history>>
Return ==
    /\ pc = "read" /\ next = lim /\ off > Len(script)
    /\ ended' = "eof" /\ code' = last_code /\ pc' = "over"
    /\ files' = Written("shell", proc["shell"].buf)
    /\ proc' = [proc EXCEPT !["shell"].buf = <<>>]
    /\ UNCHANGED <<world, input, last_code, history>>
-----------------------------------------------------------------------------
(* exec_ast: where the command of a line runs *)

(* Slip: a redirected builtin runs in a child, as a program does. *)
HereUnlessMoved == Running.cmd # "reader" /\ Running.place \in {"plain", "after"}
Here == Running.cmd # "reader" /\ Running.place \in {"plain", "after", "file"}

Direct ==
    /\ pc = "dispatch" /\ Here
    /\ pc' = "shell"
    /\ proc' = [proc EXCEPT !["shell"].fd1 = IF Running.place = "file" THEN "f" ELSE @]
    /\ UNCHANGED <<world, input, last_code, files, ended, code, history>>

Fork ==
    /\ pc = "dispatch" /\ ~Here
    /\ pc' = "child"
    /\ proc' = [proc EXCEPT !["child"] =
                   [proc["shell"] EXCEPT !.fd1 = CASE Running.place = "file" -> "f"
                                                   [] Running.place = "first" -> "pipe"
                                                   [] OTHER -> @]]
    /\ UNCHANGED <<world, input, last_code, files, ended, code, history>>

ForkFails ==
    /\ pc = "dispatch" /\ ~Here
    /\ pc' = "done"
    /\ proc' = [proc EXCEPT !["shell"].st = 1]
    /\ refused' = refused \cup {now}
    /\ UNCHANGED <<world, input, last_code, files, ended, code, ran, eaten>>
-----------------------------------------------------------------------------
(* The commands, in the shell or in its child p *)

After(p) == IF p = "shell" THEN "restore" ELSE "gone"
Runs(p, cmd) == pc = p /\ Running.cmd = cmd

(* builtin_echo.  Slip: it does not flush. *)
EchoUnflushed(p) ==
    /\ Runs(p, "echo")
    /\ Prints(p, FALSE, 0)
    /\ pc' = After(p)
    /\ UNCHANGED <<world, input, last_code, ended, code, history>>
Echo(p) ==
    /\ Runs(p, "echo")
    /\ Prints(p, TRUE, 0)
    /\ pc' = After(p)
    /\ UNCHANGED <<world, input, last_code, ended, code, history>>

(* builtin_exit with more than one argument *)
TooMany(p) ==
    /\ Runs(p, "toomany")
    /\ Prints(p, FALSE, 1)
    /\ pc' = After(p)
    /\ UNCHANGED <<world, input, last_code, ended, code, history>>

(* string_to_int: an int wraps around; a + is where it stops.  r[n] is the *)
(* result after n digits.  Slip: the largest int is kept.                  *)
Half == Ints \div 2
Wrap(n) == ((n + Half) % Ints) - Half
Clamp(n) == IF n < Half THEN n ELSE Half - 1
ReadClamped(digits) ==
    LET r[n \in 0 .. Len(digits)] ==
            IF n = 0 THEN 0 ELSE Clamp(r[n - 1] * 10 + digits[n])
    IN  r[Len(digits)]
ReadDigits(digits) ==
    LET r[n \in 0 .. Len(digits)] ==
            IF n = 0 THEN 0 ELSE Wrap(r[n - 1] * 10 + digits[n])
    IN  r[Len(digits)]
StringToIntClamped(sign, digits) ==
    LET n == ReadClamped(digits)
    IN  CASE sign = "+" -> 0 [] sign = "-" -> -n [] OTHER -> n
StringToInt(sign, digits) ==
    LET n == ReadDigits(digits)
    IN  CASE sign = "+" -> 0 [] sign = "-" -> Wrap(-n) [] OTHER -> n

(* builtin_exit: ex_code; it returns the same, except that without an      *)
(* argument it returns 0.                                                  *)
ExCode == CASE Running.sign = "none" -> last_code
            [] Running.sign = "junk" -> 2
            [] OTHER -> StringToInt(Running.sign, Running.digits) % Statuses

Exit(p) ==
    /\ Runs(p, "exit")
    /\ proc' = [proc EXCEPT ![p].exit = TRUE, ![p].ex_code = ExCode,
                            ![p].st = IF Running.sign = "none" THEN 0 ELSE ExCode]
    /\ pc' = After(p)
    /\ UNCHANGED <<world, input, last_code, files, ended, code, history>>

(* builtin_cd *)
Cd(p) ==
    /\ Runs(p, "cd")
    /\ LET found == Running.dir = "there" \/ (Running.dir = "none" /\ Home)
       IN  proc' = [proc EXCEPT ![p].st = IF found THEN 0 ELSE 1,
                                ![p].cwd = IF found THEN Running.dir ELSE @]
    /\ pc' = After(p)
    /\ UNCHANGED <<world, input, last_code, files, ended, code, history>>

(* builtin_kill: sign says whether there is a signal and whether it is a  *)
(* number; one that ends goes to the processes in their order, up to the   *)
(* first that cannot be signalled.  The shell does not outlive its own.    *)
Bad == SelectInSeq(Running.pids, LAMBDA t : t \in {"invalid", "gone"})
Hit == CASE Running.sign = "junk" -> <<>>
         [] Running.sign # "junk" /\ Bad > 0 -> SubSeq(Running.pids, 1, Bad - 1)
         [] OTHER -> Running.pids
KillStatus ==
    IF Running.sign = "junk" \/ (Running.sign = "none" /\ Running.pids = <<>>)
    THEN 1 ELSE IF Hit = Running.pids THEN 0 ELSE 1

Kill(p) ==
    /\ Runs(p, "kill")
    /\ IF "shell" \in ToSet(Hit)
       THEN /\ ended' = "killed"
            /\ pc' = "over"
            /\ UNCHANGED proc
       ELSE /\ proc' = [proc EXCEPT ![p].st = KillStatus]
            /\ pc' = After(p)
            /\ UNCHANGED ended
    /\ UNCHANGED <<world, input, last_code, files, code, history>>

(* A program takes the place of the child: the buffers are gone, but its   *)
(* descriptor 0 is the shell's, and it reads on from where the offset is.  *)
Read ==
    /\ Runs("child", "reader")
    /\ LET shared == source = "stdin" /\ Running.place # "last"
       IN  /\ eaten' = IF shared THEN eaten \cup off .. Len(script) ELSE eaten
           /\ off' = IF shared THEN Len(script) + 1 ELSE off
    /\ proc' = [proc EXCEPT !["child"].buf = <<>>, !["child"].st = 0]
    /\ pc' = "gone"
    /\ UNCHANGED <<world, next, lim, last_code, files, ended, code, ran, refused>>
-----------------------------------------------------------------------------
(* Back in the shell *)

(* exec_redir_builtin puts descriptor 1 back. *)
Restore ==
    /\ pc = "restore"
    /\ proc' = [proc EXCEPT !["shell"].fd1 = "out"]
    /\ pc' = "done"
    /\ UNCHANGED <<world, input, last_code, files, ended, code, history>>

(* _exit in the child, and waitpid.  The status is that of the last stage. *)
(* Slip: exit, which writes its copy of the buffer out and puts back what  *)
(* its copy of the input holds.                                            *)
Status == IF Running.place = "first" THEN 0 ELSE proc["child"].st
ReapExit ==
    /\ pc = "gone"
    /\ files' = Written("child", proc["child"].buf)
    /\ off' = IF source = "stdin" /\ Running.cmd # "reader" THEN next ELSE off
    /\ proc' = [proc EXCEPT !["shell"].st = Status, !["child"] = Fresh]
    /\ pc' = "done"
    /\ UNCHANGED <<world, next, lim, last_code, ended, code, history>>
Reap ==
    /\ pc = "gone"
    /\ proc' = [proc EXCEPT !["shell"].st = Status, !["child"] = Fresh]
    /\ pc' = "done"
    /\ UNCHANGED <<world, input, last_code, files, ended, code, history>>

LineDone ==
    /\ pc = "done"
    /\ last_code' = proc["shell"].st
    /\ pc' = IF proc["shell"].exit THEN "leave" ELSE "read"
    /\ UNCHANGED <<world, input, proc, files, ended, code, history>>

(* main: _exit, which throws the buffer away. *)
Leave ==
    /\ pc = "leave"
    /\ ended' = "exit" /\ code' = proc["shell"].ex_code /\ pc' = "over"
    /\ proc' = [proc EXCEPT !["shell"].buf = <<>>]
    /\ UNCHANGED <<world, input, last_code, files, history>>

Builtin(p) == Echo(p) \/ TooMany(p) \/ Exit(p) \/ Cd(p) \/ Kill(p)

Next ==
    \/ Fill \/ ReadLine \/ Return
    \/ Direct \/ Fork \/ ForkFails
    \/ (\E p \in Proc : Builtin(p)) \/ Read
    \/ Restore \/ Reap \/ LineDone \/ Leave

Spec == Init /\ [][Next]_vars

(* One process runs at a time, and commands end. *)
FairSpec == Spec /\ WF_vars(Next)
-----------------------------------------------------------------------------
Memory ==
    [buf : Seq(1 .. Len(script)), mode : {"unset", "line", "full"}, fd1 : Dest,
     cwd : Dir \cup {"start"}, exit : BOOLEAN, ex_code : 0 .. Statuses - 1,
     st : 0 .. Statuses - 1]

(* io_backend.c:49: what the shell reads ahead is part of the script, and  *)
(* between lines its output is where it was.                               *)
TypeOK ==
    /\ script \in Scripts /\ source \in {"stdin", "script"} /\ tty \in BOOLEAN
    /\ next \in 1 .. lim /\ lim \in 1 .. Len(script) + 1
    /\ off \in lim .. Len(script) + 1
    /\ pc \in {"read", "dispatch", "shell", "child", "restore", "gone", "done",
               "leave", "over"}
    /\ proc \in [Proc -> Memory]
    /\ pc \in {"read", "dispatch", "done", "leave"} => proc["shell"].fd1 = "out"
    /\ last_code \in 0 .. Statuses - 1 /\ code \in 0 .. Statuses - 1
    /\ files \in [Dest -> Seq([line : 1 .. Len(script), by : Proc])]
    /\ ended \in {"no", "eof", "exit", "killed"}

(* Lines whose command was carried out. *)
Begun == pc \in {"dispatch", "shell", "child"} \/ ended = "killed"
Carried(n) == n \notin refused /\ ~(Begun /\ n = now)
InShell(n) == script[n].place \in {"plain", "after", "file"}

Goes(n) == CASE script[n].place = "file" -> "f"
             [] script[n].place = "first" -> "pipe"
             [] OTHER -> "out"
Is(n, cmd) == script[n].cmd = cmd

(* builtin.c:140: what echo prints is written before anything else goes    *)
(* on, to the file that the line names, once, and in the order of lines:   *)
(* whatever was forked, redirected or left in a buffer in between.         *)
Echoes(d) == {m \in DOMAIN files[d] : Is(files[d][m].line, "echo")}
EchoLands ==
    \A d \in Dest :
        /\ {n \in ToSet(ran) : Is(n, "echo") /\ Goes(n) = d /\ Carried(n)}
              = {files[d][m].line : m \in Echoes(d)}
        /\ \A l, m \in Echoes(d) : l < m => files[d][l].line < files[d][m].line

InFile(n) == \E d \in Dest : Entry("shell", n) \in ToSet(files[d])
Waiting(n) == n \in ToSet(proc["shell"].buf)
Twice(n) ==
    \E d, e \in Dest : \E l \in DOMAIN files[d], m \in DOMAIN files[e] :
        /\ files[d][l] = Entry("shell", n) /\ files[e][m] = Entry("shell", n)
        /\ d # e \/ l # m

(* builtin.c:155: the message of an exit that is refused stays in the      *)
(* buffer, and the shell writes it once; it is lost only when an exit or a *)
(* signal ends the shell before an echo.                                   *)
MessageOnce ==
    \A n \in ToSet(ran) : Is(n, "toomany") /\ InShell(n) /\ Carried(n) =>
        /\ ~Twice(n)
        /\ IF ended \in {"no", "eof"}
           THEN InFile(n) # Waiting(n)
           ELSE ~InFile(n) =>
                   \A m \in ToSet(ran) :
                       m > n /\ Is(m, "echo") /\ InShell(m) => ~Carried(m)

(* exec.c:108, 148, 234: a child writes what it inherited in the buffer    *)
(* only in front of a text of its own.                                     *)
CopiesCarried ==
    \A d \in Dest : \A m \in DOMAIN files[d] :
        files[d][m].by = "child" /\ InShell(files[d][m].line) =>
            \E o \in m + 1 .. Len(files[d]) :
                /\ ~InShell(files[d][o].line)
                /\ \A q \in m .. o : files[d][q].by = "child"

(* io_backend.c:49: each line is executed by the shell or read by a        *)
(* program, never both and never twice, and none is passed over.           *)
LinesOnce ==
    /\ \A m, n \in DOMAIN ran : m < n => ran[m] < ran[n]
    /\ ToSet(ran) \cap eaten = {}
    /\ ended = "eof" => ToSet(ran) \cup eaten = DOMAIN script

(* builtin.c:36-60, 161, 173: the status exit gives, to the system or from *)
(* a stage, is its argument modulo 256, whatever its length.  A + is let   *)
(* through by the test of the argument, but no number is read behind it:   *)
(* `exit +5` gives 0, and so does a sign alone.                            *)
Exactly(digits) ==
    LET v[n \in 0 .. Len(digits)] ==
            IF n = 0 THEN 0 ELSE v[n - 1] * 10 + digits[n]
    IN  v[Len(digits)]
Signed == {"", "-", "+"}
Number(n) ==
    LET v == Exactly(script[n].digits)
    IN  CASE script[n].sign = "+" -> 0
          [] script[n].sign = "-" -> (-v) % Statuses
          [] OTHER -> v % Statuses
ExitStatus ==
    ran # <<>> /\ Is(now, "exit") /\ Running.sign \in Signed /\ now \notin refused =>
        /\ ended = "exit" => code = Number(now)
        /\ pc = "read" /\ Running.place = "last" => last_code = Number(now)

(* exec.c:205: cd and exit count for the shell, redirected or not, unless  *)
(* they are in a pipeline: there they change nothing in it.                *)
Arrives(n) == Is(n, "cd") /\ (script[n].dir = "there" \/ (script[n].dir = "none" /\ Home))
LastingEffects ==
    LET moves == {n \in ToSet(ran) : Arrives(n) /\ InShell(n) /\ Carried(n)}
    IN  /\ proc["shell"].cwd = IF moves = {} THEN "start" ELSE script[Max(moves)].dir
        /\ proc["shell"].exit =
              \E n \in ToSet(ran) : Is(n, "exit") /\ InShell(n) /\ Carried(n)
-----------------------------------------------------------------------------
(* Claims of the repository that do not hold. *)

(* builtin.c:158, "Verif que l arg est bien un nombre", and builtin.c:36,  *)
(* "Custom atoi pour gerer les codes de retour": a stage whose argument    *)
(* passes for a number has that number for its status, signed or not.      *)
NumberRead ==
    pc = "read" /\ ran # <<>> /\ Is(now, "exit") /\ now \notin refused
        /\ Running.sign \in Signed /\ Running.place = "last" =>
        LET v == Exactly(Running.digits)
        IN  last_code = (IF Running.sign = "-" THEN -v ELSE v) % Statuses

(* parser.h:27, last_code is the "Retour derniere cmd": a bare exit behind *)
(* a program that failed ends the shell with the status of this program.   *)
LastStatus ==
    ended = "exit" /\ Is(now, "exit") /\ Running.sign = "none"
        /\ Running.place = "after" => code = 1

(* One of the two at least holds throughout: a session that refutes this   *)
(* refutes each of them.                                                   *)
ExitAsDocumented == []NumberRead \/ []LastStatus

=============================================================================
