------------------------------ MODULE Pipeline ------------------------------
(***************************************************************************)
(* exec_pipeline: the shell creates N - 1 pipes and forks N stages, each   *)
(* of which rewires its own input and output before it runs; then it waits *)
(* for all of them.  The stages' programs are kinds of behaviour: a stage  *)
(* reads, writes, meets end of file or a broken pipe, quits or is killed.  *)
(***************************************************************************)
EXTENDS Integers

CONSTANTS
    N,       \* stages, p->count
    Cap,     \* items a pipe holds
    Items,   \* items a source writes
    Code,    \* exit codes of stages
    Plan     \* what the stages may run: functions from Stage to Kind

ASSUME NAssumption == N \in Nat /\ N >= 2
ASSUME CapAssumption == Cap \in Nat \ {0}
ASSUME ItemsAssumption == Items \in Nat
ASSUME CodeAssumption == Code \subseteq 0 .. 255

Stage == 1 .. N
Shell == 0
Process == 0 .. N
Pipe == 1 .. N - 1

(* The two ends of pipe j, and what a standard descriptor is on otherwise. *)
End == Pipe \X {"r", "w"}
Tty == <<0, "tty">>
BothEnds(j) == {<<j, "r">>, <<j, "w">>}

(* source: writes its items and quits, reading nothing (echo);             *)
(* filter: passes its input on until end of file;                          *)
(* head: quits at the first item it reads;  endless: never stops writing.  *)
Kind == {"source", "filter", "head", "endless"}

ASSUME PlanAssumption == Plan \subseteq [Stage -> Kind]

Unended == -2
Signalled == -1
Pending == -1

VARIABLES
    plan,      \* what each stage runs
    ppc,       \* where the shell is in fork_pipeline and wait_pipeline
    i,         \* the loop index there, from 1
    prev,      \* prev_fd: the pipe it is the read end of, 0 for -1
    result,    \* what exec_pipeline returned
    hold,      \* pipe ends each process has open above 0, 1 and 2
    st,        \* how far each stage is
    cprev,     \* prev_fd as each stage inherited it
    sin, sout, \* what each stage's descriptors 0 and 1 are on
    buf,       \* items in each pipe
    left,      \* items a source has yet to write, or a filter has in hand
    outcome,   \* how each stage ended
    why        \* history: what made each stage end

shell == <<ppc, i, prev, result>>
vars == <<plan, shell, hold, st, cprev, sin, sout, buf, left, outcome, why>>

Init ==
    /\ plan \in Plan
    /\ ppc = "pipe" /\ i = 1 /\ prev = 0 /\ result = Pending
    /\ hold = [p \in Process |-> {}]
    /\ st = [s \in Stage |-> "unborn"]
    /\ cprev = [s \in Stage |-> 0]
    /\ sin = [s \in Stage |-> Tty]
    /\ sout = [s \in Stage |-> Tty]
    /\ buf = [j \in Pipe |-> 0]
    /\ left = [s \in Stage |-> IF plan[s] = "source" THEN Items ELSE 0]
    /\ outcome = [s \in Stage |-> Unended]
    /\ why = [s \in Stage |-> "none"]
-----------------------------------------------------------------------------
(* fork_pipeline in the shell *)

MakePipe ==
    /\ ppc = "pipe"
    /\ ppc' = "fork"
    /\ hold' = [hold EXCEPT ![Shell] = IF i < N THEN @ \cup BothEnds(i) ELSE @]
    /\ UNCHANGED <<plan, i, prev, result, st, cprev, sin, sout, buf, left, outcome, why>>

(* return 0: exec_pipeline returns 1 and waits for nobody. *)
Fails ==
    /\ ppc = "fork" \/ (ppc = "pipe" /\ i < N)
    /\ ppc' = "failed"
    /\ result' = 1
    /\ UNCHANGED <<plan, i, prev, hold, st, cprev, sin, sout, buf, left, outcome, why>>

Fork ==
    /\ ppc = "fork"
    /\ ppc' = "shut"
    /\ st' = [st EXCEPT ![i] = "in"]
    /\ hold' = [hold EXCEPT ![i] = hold[Shell]]
    /\ cprev' = [cprev EXCEPT ![i] = prev]
    /\ UNCHANGED <<plan, i, prev, result, sin, sout, buf, left, outcome, why>>

ClosePrev ==
    /\ ppc = "shut"
    /\ ppc' = "next"
    /\ hold' = [hold EXCEPT ![Shell] = IF prev # 0 THEN @ \ {<<prev, "r">>} ELSE @]
    /\ UNCHANGED <<plan, i, prev, result, st, cprev, sin, sout, buf, left, outcome, why>>

(* Slips: the write end stays open in the shell; both ends are closed.     *)
CloseWith(ends) ==
    /\ ppc = "next"
    /\ \/ /\ i < N
          /\ hold' = [hold EXCEPT ![Shell] = @ \ ends]
          /\ prev' = i /\ i' = i + 1 /\ ppc' = "pipe"
       \/ /\ i = N
          /\ i' = 1 /\ ppc' = "wait"
          /\ UNCHANGED <<hold, prev>>
    /\ UNCHANGED <<plan, result, st, cprev, sin, sout, buf, left, outcome, why>>
CloseWriteForgotten == CloseWith({})
CloseBoth == CloseWith(BothEnds(i))

CloseWrite ==
    /\ ppc = "next"
    /\ \/ /\ i < N
          /\ hold' = [hold EXCEPT ![Shell] = @ \ {<<i, "w">>}]
          /\ prev' = i /\ i' = i + 1 /\ ppc' = "pipe"
       \/ /\ i = N
          /\ i' = 1 /\ ppc' = "wait"
          /\ UNCHANGED <<hold, prev>>
    /\ UNCHANGED <<plan, result, st, cprev, sin, sout, buf, left, outcome, why>>

(* Slip: the status is that of the first stage. *)
WaitFirst ==
    /\ ppc = "wait"
    /\ st[i] = "ended"
    /\ st' = [st EXCEPT ![i] = "reaped"]
    /\ \/ i < N /\ i' = i + 1 /\ UNCHANGED <<ppc, result>>
       \/ /\ i = N
          /\ ppc' = "done"
          /\ result' = IF outcome[1] = Signalled THEN 0 ELSE outcome[1]
          /\ UNCHANGED i
    /\ UNCHANGED <<plan, prev, hold, cprev, sin, sout, buf, left, outcome, why>>

(* wait_pipeline: waitpid of the i-th stage; the last one gives the status *)
Wait ==
    /\ ppc = "wait"
    /\ st[i] = "ended"
    /\ st' = [st EXCEPT ![i] = "reaped"]
    /\ \/ i < N /\ i' = i + 1 /\ UNCHANGED <<ppc, result>>
       \/ /\ i = N
          /\ ppc' = "done"
          /\ result' = IF outcome[i] = Signalled THEN 0 ELSE outcome[i]
          /\ UNCHANGED i
    /\ UNCHANGED <<plan, prev, hold, cprev, sin, sout, buf, left, outcome, why>>

ShellStep == MakePipe \/ Fails \/ Fork \/ ClosePrev \/ CloseWrite \/ Wait
-----------------------------------------------------------------------------
(* exec_child in stage s *)

RewireIn(s) ==
    /\ st[s] = "in"
    /\ st' = [st EXCEPT ![s] = "out"]
    /\ IF cprev[s] # 0
       THEN /\ sin' = [sin EXCEPT ![s] = <<cprev[s], "r">>]
            /\ hold' = [hold EXCEPT ![s] = @ \ {<<cprev[s], "r">>}]
       ELSE UNCHANGED <<sin, hold>>
    /\ UNCHANGED <<plan, shell, cprev, sout, buf, left, outcome, why>>

(* Slips: the read end of the stage's own pipe stays open; the write end   *)
(* is closed without having been put on descriptor 1.                      *)
RewireOutKeeping(s) ==
    /\ st[s] = "out"
    /\ st' = [st EXCEPT ![s] = "run"]
    /\ IF s < N
       THEN /\ sout' = [sout EXCEPT ![s] = <<s, "w">>]
            /\ hold' = [hold EXCEPT ![s] = @ \ {<<s, "w">>}]
       ELSE UNCHANGED <<sout, hold>>
    /\ UNCHANGED <<plan, shell, cprev, sin, buf, left, outcome, why>>
RewireOutClosed(s) ==
    /\ st[s] = "out"
    /\ st' = [st EXCEPT ![s] = "run"]
    /\ hold' = [hold EXCEPT ![s] = IF s < N THEN @ \ BothEnds(s) ELSE @]
    /\ UNCHANGED <<plan, shell, cprev, sin, sout, buf, left, outcome, why>>

RewireOut(s) ==
    /\ st[s] = "out"
    /\ st' = [st EXCEPT ![s] = "run"]
    /\ IF s < N
       THEN /\ sout' = [sout EXCEPT ![s] = <<s, "w">>]
            /\ hold' = [hold EXCEPT ![s] = @ \ BothEnds(s)]
       ELSE UNCHANGED <<sout, hold>>
    /\ UNCHANGED <<plan, shell, cprev, sin, buf, left, outcome, why>>
-----------------------------------------------------------------------------
(* exec_ast of the stage's command, and the kernel's pipes *)

Readers(j) == {p \in Process : <<j, "r">> \in hold[p]}
                \cup {s \in Stage : sin[s] = <<j, "r">>}
Writers(j) == {p \in Process : <<j, "w">> \in hold[p]}
                \cup {s \in Stage : sout[s] = <<j, "w">>}

Running(s) == st[s] = "run"
WantsToWrite(s) ==
    Running(s) /\ (plan[s] = "endless" \/ (plan[s] \in {"source", "filter"} /\ left[s] > 0))
WantsToRead(s) ==
    Running(s) /\ left[s] = 0 /\ plan[s] \in {"filter", "head"}

Write(s) ==
    /\ WantsToWrite(s)
    /\ IF sout[s] = Tty THEN UNCHANGED buf
       ELSE LET j == sout[s][1]
            IN  /\ Readers(j) # {}
                /\ buf[j] < Cap
                /\ buf' = [buf EXCEPT ![j] = @ + 1]
    /\ left' = [left EXCEPT ![s] = IF plan[s] = "endless" THEN @ ELSE @ - 1]
    /\ UNCHANGED <<plan, shell, hold, st, cprev, sin, sout, outcome, why>>

Read(s) ==
    /\ WantsToRead(s)
    /\ sin[s] # Tty
    /\ LET j == sin[s][1]
       IN  buf[j] > 0 /\ buf' = [buf EXCEPT ![j] = @ - 1]
    /\ left' = [left EXCEPT ![s] = 1]
    /\ UNCHANGED <<plan, shell, hold, st, cprev, sin, sout, outcome, why>>

(* _exit, or a signal: the process is gone and its descriptors are closed. *)
Finish(s, reason, code) ==
    /\ st' = [st EXCEPT ![s] = "ended"]
    /\ hold' = [hold EXCEPT ![s] = {}]
    /\ sin' = [sin EXCEPT ![s] = Tty]
    /\ sout' = [sout EXCEPT ![s] = Tty]
    /\ outcome' = [outcome EXCEPT ![s] = code]
    /\ why' = [why EXCEPT ![s] = reason]
    /\ UNCHANGED <<plan, shell, cprev, buf, left>>

Quit(s) ==
    /\ Running(s)
    /\ \/ plan[s] = "source" /\ left[s] = 0
       \/ plan[s] = "head" /\ left[s] = 1
    /\ \E c \in Code : Finish(s, "quit", c)

Eof(s) ==
    /\ WantsToRead(s)
    /\ \/ sin[s] = Tty
       \/ sin[s] # Tty /\ buf[sin[s][1]] = 0 /\ Writers(sin[s][1]) = {}
    /\ \E c \in Code : Finish(s, "eof", c)

(* SIGPIPE ends the stage's own process (a builtin), or the program it     *)
(* waits for, and then fork_exec makes it 1.                               *)
BrokenPipe(s) ==
    /\ WantsToWrite(s)
    /\ sout[s] # Tty /\ Readers(sout[s][1]) = {}
    /\ \E c \in {1, Signalled} : Finish(s, "sigpipe", c)

Killed(s) ==
    /\ st[s] \in {"in", "out", "run"}
    /\ \E c \in {1, Signalled} : Finish(s, "killed", c)

StageStep(s) ==
    \/ RewireIn(s) \/ RewireOut(s)
    \/ Write(s) \/ Read(s) \/ Quit(s) \/ Eof(s) \/ BrokenPipe(s)

Next == ShellStep \/ \E s \in Stage : StageStep(s) \/ Killed(s)

Spec == Init /\ [][Next]_vars

(* The scheduler lets the shell and every stage that can move do so; a     *)
(* signal need not come, and nothing need fail.                            *)
Fairness == WF_vars(ShellStep) /\ \A s \in Stage : WF_vars(StageStep(s))
FairSpec == Spec /\ Fairness
-----------------------------------------------------------------------------
(* exec.c:241, 256: the index of both loops never leaves the array pids,   *)
(* and no pipe holds more than fits in it.                                 *)
TypeOK ==
    /\ plan \in Plan
    /\ ppc \in {"pipe", "fork", "shut", "next", "wait", "done", "failed"}
    /\ i \in Stage
    /\ prev \in 0 .. N - 1
    /\ result \in -1 .. 255
    /\ hold \in [Process -> SUBSET End]
    /\ st \in [Stage -> {"unborn", "in", "out", "run", "ended", "reaped"}]
    /\ cprev \in [Stage -> 0 .. N - 1]
    /\ sin \in [Stage -> End \cup {Tty}]
    /\ sout \in [Stage -> End \cup {Tty}]
    /\ buf \in [Pipe -> 0 .. Cap]
    /\ left \in [Stage -> Nat]
    /\ outcome \in [Stage -> -2 .. 255]
    /\ why \in [Stage -> {"none", "quit", "eof", "sigpipe", "killed"}]

(* exec.c:218: a stage's command runs with its input on the pipe before it *)
(* and its output on the pipe after it, and with no other pipe end open:   *)
(* one left open would keep a neighbour from ever seeing end of file.      *)
StageWired ==
    \A s \in Stage : Running(s) =>
        /\ hold[s] = {}
        /\ sin[s] = IF s = 1 THEN Tty ELSE <<s - 1, "r">>
        /\ sout[s] = IF s = N THEN Tty ELSE <<s, "w">>

(* exec.c:276-281: the shell waits with every pipe end closed, and returns *)
(* from a pipeline it started with every stage reaped.                     *)
ShellClean ==
    /\ ppc \in {"wait", "done"} => hold[Shell] = {}
    /\ ppc = "done" => \A s \in Stage : st[s] = "reaped"

Over(s) == st[s] \in {"ended", "reaped"}

(* A stage meets end of file only when the stage before it is over and all *)
(* it wrote was read, whoever else was forked while the pipe was open.     *)
EofAfterEnd ==
    \A s \in Stage : why[s] = "eof" /\ s > 1 => Over(s - 1) /\ buf[s - 1] = 0

(* A stage meets a broken pipe only when the stage after it is over: never *)
(* because that stage was not forked yet, or had not rewired its input.    *)
SigpipeAfterEnd ==
    \A s \in Stage : why[s] = "sigpipe" => s < N /\ Over(s + 1)

(* Where every pipe end is at every step of fork_pipeline and exec_child:  *)
(* the invariant by induction that the properties above rest on.           *)
Before(s) == IF s > 1 THEN {<<s - 1, "r">>} ELSE {}
After(s) == IF s < N THEN BothEnds(s) ELSE {}

ShellHolds ==
    /\ ppc = "pipe" => hold[Shell] = Before(i)
    /\ ppc \in {"fork", "shut"} => hold[Shell] = Before(i) \cup After(i)
    /\ ppc = "next" => hold[Shell] = After(i)
    /\ ppc \in {"wait", "done"} => hold[Shell] = {}
    /\ ppc = "failed" => Before(i) \subseteq hold[Shell]
    /\ ppc \notin {"wait", "done"} => prev = i - 1

StageHolds ==
    \A s \in Stage :
        /\ st[s] = "in" => hold[s] = Before(s) \cup After(s)
        /\ st[s] = "out" => hold[s] = After(s)
        /\ st[s] \notin {"in", "out"} => hold[s] = {}
        /\ sin[s] = IF st[s] \in {"out", "run"} /\ s > 1 THEN <<s - 1, "r">> ELSE Tty
        /\ sout[s] = IF st[s] = "run" /\ s < N THEN <<s, "w">> ELSE Tty
        /\ st[s] = "in" => cprev[s] = s - 1

(* Stages are forked in order and reaped in order. *)
InOrder ==
    \A s \in Stage :
        /\ st[s] = "unborn" <=> \/ ppc \in {"pipe", "fork", "failed"} /\ s >= i
                                \/ ppc \in {"shut", "next"} /\ s > i
        /\ st[s] = "reaped" <=> ppc = "done" \/ (ppc = "wait" /\ s < i)
        /\ outcome[s] # Unended <=> Over(s)

(* exec.c:218-286: after every step of fork_pipeline and exec_child the    *)
(* shell and the stages hold exactly the pipe ends named above.            *)
Wiring == ShellHolds /\ StageHolds /\ InOrder

(* What the caller of exec_pipeline may rely on. *)
Abstract == INSTANCE PipelineAbs WITH N <- N, Code <- Code, outcome <- outcome, result <- result
Refinement == Abstract!Spec

(* A pipeline whose programs end, or lose their reader, returns. *)
Returns == <>(result # Pending)

=============================================================================
