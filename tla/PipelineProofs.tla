--------------------------- MODULE PipelineProofs ---------------------------
(***************************************************************************)
(* Proofs about Pipeline, for any number of stages: types, the place of    *)
(* every pipe end, and what exec_pipeline promises its caller.             *)
(***************************************************************************)
EXTENDS Pipeline, TLAPS

USE NAssumption DEF Stage, Process, Shell, Pipe

LEMMA EndType ==
    /\ \A s \in Stage : s < N => BothEnds(s) \subseteq End
    /\ \A s \in Stage : s > 1 => <<s - 1, "r">> \in End
    /\ \A s \in Stage : s < N => <<s, "w">> \in End
    /\ \A j \in 1 .. N - 1 : <<j, "r">> \in End
BY DEF BothEnds, End

LEMMA TypeInit == Init => TypeOK
<1> SUFFICES ASSUME Init PROVE TypeOK
  OBVIOUS
<1>1. plan \in Plan /\ plan \in [Stage -> Kind]
  BY PlanAssumption DEF Init
<1>2. left \in [Stage -> Nat]
  BY ItemsAssumption DEF Init
<1>3. buf \in [Pipe -> 0 .. Cap]
  BY CapAssumption DEF Init
<1>4. /\ ppc = "pipe" /\ i \in Stage /\ prev \in 0 .. N - 1 /\ result \in -1 .. 255
      /\ hold \in [Process -> SUBSET End]
      /\ st \in [Stage -> {"unborn", "in", "out", "run", "ended", "reaped"}]
      /\ cprev \in [Stage -> 0 .. N - 1]
  BY DEF Init, Pending
<1>5. /\ sin \in [Stage -> End \cup {Tty}] /\ sout \in [Stage -> End \cup {Tty}]
      /\ outcome \in [Stage -> -2 .. 255]
      /\ why \in [Stage -> {"none", "quit", "eof", "sigpipe", "killed"}]
  BY DEF Init, Unended
<1> QED BY <1>1, <1>2, <1>3, <1>4, <1>5 DEF TypeOK

(* Ending a stage keeps every type. *)
LEMMA FinishType ==
    ASSUME TypeOK, NEW s \in Stage, NEW c \in -2 .. 255,
           NEW r \in {"none", "quit", "eof", "sigpipe", "killed"}, Finish(s, r, c)
    PROVE  TypeOK'
BY DEF TypeOK, Finish, shell

LEMMA CodeType == Code \cup {1, Signalled} \subseteq -2 .. 255
BY CodeAssumption DEF Signalled

LEMMA ExceptType ==
    ASSUME NEW S, NEW T, NEW f \in [S -> T], NEW x, NEW v, x \in S => v \in T
    PROVE  [f EXCEPT ![x] = v] \in [S -> T]
OBVIOUS

LEMMA LessHeld ==
    ASSUME NEW h \in [Process -> SUBSET End], NEW p, NEW S
    PROVE  [h EXCEPT ![p] = h[p] \ S] \in [Process -> SUBSET End]
<1>1. p \in Process => h[p] \ S \in SUBSET End
  OBVIOUS
<1> QED BY <1>1, ExceptType, Zenon

(* One item more in a pipe that is not full, one less in one not empty. *)
LEMMA BufferType ==
    ASSUME NEW b \in [Pipe -> 0 .. Cap], NEW j
    PROVE  /\ b[j] < Cap => [b EXCEPT ![j] = b[j] + 1] \in [Pipe -> 0 .. Cap]
           /\ b[j] > 0 => [b EXCEPT ![j] = b[j] - 1] \in [Pipe -> 0 .. Cap]
<1>1. CASE j \in Pipe
  <2>1. b[j] \in 0 .. Cap
    BY <1>1
  <2>2. b[j] < Cap => b[j] + 1 \in 0 .. Cap
    BY <2>1, CapAssumption
  <2>3. b[j] > 0 => b[j] - 1 \in 0 .. Cap
    BY <2>1, CapAssumption
  <2> QED BY <2>2, <2>3, ExceptType
<1>2. CASE j \notin Pipe
  <2>1. \A v : [b EXCEPT ![j] = v] = b
    BY <1>2
  <2> QED BY <2>1
<1> QED BY <1>1, <1>2

LEMMA TypeNext ==
    ASSUME TypeOK, InOrder, [Next]_vars
    PROVE  TypeOK'
<1> USE DEF shell
<1>1. CASE MakePipe
  <2>1. hold' \in [Process -> SUBSET End]
    BY <1>1, EndType DEF MakePipe, TypeOK
  <2> QED BY <1>1, <2>1, Zenon DEF MakePipe, TypeOK
<1>2. CASE Fails
  <2>1. result' \in -1 .. 255 /\ ppc' = "failed"
    BY <1>2 DEF Fails
  <2> QED BY <1>2, <2>1, Zenon DEF Fails, TypeOK
<1>3. CASE Fork
  <2>1. /\ st' \in [Stage -> {"unborn", "in", "out", "run", "ended", "reaped"}]
        /\ hold' \in [Process -> SUBSET End]
        /\ cprev' \in [Stage -> 0 .. N - 1]
    BY <1>3 DEF Fork, TypeOK
  <2> QED BY <1>3, <2>1, Zenon DEF Fork, TypeOK
<1>4. CASE ClosePrev
  <2>1. hold' \in [Process -> SUBSET End]
    BY <1>4 DEF ClosePrev, TypeOK
  <2> QED BY <1>4, <2>1, Zenon DEF ClosePrev, TypeOK
<1>5. CASE CloseWrite
  <2>1. i \in Stage /\ hold \in [Process -> SUBSET End]
    BY DEF TypeOK
  <2>2. CASE i < N
    <3>1. /\ hold' = [hold EXCEPT ![Shell] = hold[Shell] \ {<<i, "w">>}]
          /\ prev' = i /\ i' = i + 1 /\ ppc' = "pipe"
      BY <1>5, <2>1, <2>2 DEF CloseWrite
    <3>2. hold' \in [Process -> SUBSET End]
      BY <2>1, <3>1
    <3>3. i' \in Stage /\ prev' \in 0 .. N - 1
      BY <2>1, <2>2, <3>1
    <3> QED BY <1>5, <3>1, <3>2, <3>3, Zenon DEF CloseWrite, TypeOK
  <2>3. CASE ~ (i < N)
    <3>1. hold' = hold /\ prev' = prev /\ i' = 1 /\ ppc' = "wait"
      BY <1>5, <2>1, <2>3 DEF CloseWrite
    <3>2. i' \in Stage
      BY <3>1
    <3> QED BY <1>5, <3>1, <3>2, Zenon DEF CloseWrite, TypeOK
  <2> QED BY <2>2, <2>3
<1>6. CASE Wait
  <2>1. outcome[i] # Unended /\ outcome[i] \in -2 .. 255
    BY <1>6 DEF Wait, TypeOK, InOrder, Over
  <2>2. result' \in -1 .. 255
    <3>1. result' = result \/ result' = 0 \/ result' = outcome[i]
      BY <1>6 DEF Wait
    <3>2. result \in -1 .. 255
      BY DEF TypeOK
    <3> QED BY <2>1, <3>1, <3>2 DEF Unended
  <2>3. st' \in [Stage -> {"unborn", "in", "out", "run", "ended", "reaped"}]
    BY <1>6 DEF Wait, TypeOK
  <2>4. i' \in Stage /\ ppc' \in {"wait", "done"}
    <3>1. i \in Stage /\ ppc = "wait"
      BY <1>6 DEF Wait, TypeOK
    <3>2. \/ i < N /\ i' = i + 1 /\ ppc' = ppc
          \/ i' = i /\ ppc' = "done"
      BY <1>6, Zenon DEF Wait
    <3> QED BY <3>1, <3>2
  <2> QED BY <1>6, <2>2, <2>3, <2>4, Zenon DEF Wait, TypeOK
<1>7. ASSUME NEW s \in Stage, RewireIn(s) PROVE TypeOK'
  <2>1. cprev[s] # 0 => cprev[s] \in 1 .. N - 1
    BY DEF TypeOK
  <2>2. st' \in [Stage -> {"unborn", "in", "out", "run", "ended", "reaped"}]
    BY <1>7 DEF RewireIn, TypeOK
  <2>3. sin' \in [Stage -> End \cup {Tty}]
    <3>1. sin' = sin \/ (cprev[s] # 0 /\ sin' = [sin EXCEPT ![s] = <<cprev[s], "r">>])
      BY <1>7, Zenon DEF RewireIn
    <3>2. sin \in [Stage -> End \cup {Tty}]
      BY DEF TypeOK
    <3>3. cprev[s] # 0 => <<cprev[s], "r">> \in End \cup {Tty}
      BY <2>1, EndType
    <3> QED BY <3>1, <3>2, <3>3, ExceptType, Zenon
  <2>4. hold' \in [Process -> SUBSET End]
    <3>1. hold' = hold \/ hold' = [hold EXCEPT ![s] = hold[s] \ {<<cprev[s], "r">>}]
      BY <1>7, Zenon DEF RewireIn
    <3>2. hold \in [Process -> SUBSET End]
      BY DEF TypeOK
    <3> QED BY <3>1, <3>2, LessHeld, Zenon
  <2> QED BY <1>7, <2>2, <2>3, <2>4, Zenon DEF RewireIn, TypeOK
<1>8. ASSUME NEW s \in Stage, RewireOut(s) PROVE TypeOK'
  <2>2. st' \in [Stage -> {"unborn", "in", "out", "run", "ended", "reaped"}]
    BY <1>8 DEF RewireOut, TypeOK
  <2>3. sout' \in [Stage -> End \cup {Tty}]
    <3>1. sout' = sout \/ (s < N /\ sout' = [sout EXCEPT ![s] = <<s, "w">>])
      BY <1>8, Zenon DEF RewireOut
    <3>2. sout \in [Stage -> End \cup {Tty}]
      BY DEF TypeOK
    <3>3. s < N => <<s, "w">> \in End \cup {Tty}
      BY EndType
    <3> QED BY <3>1, <3>2, <3>3, ExceptType, Zenon
  <2>4. hold' \in [Process -> SUBSET End]
    <3>1. hold' = hold \/ hold' = [hold EXCEPT ![s] = hold[s] \ BothEnds(s)]
      BY <1>8, Zenon DEF RewireOut
    <3>2. hold \in [Process -> SUBSET End]
      BY DEF TypeOK
    <3> QED BY <3>1, <3>2, LessHeld, Zenon
  <2> QED BY <1>8, <2>2, <2>3, <2>4, Zenon DEF RewireOut, TypeOK
<1>9. ASSUME NEW s \in Stage, Write(s) PROVE TypeOK'
  <2>1. buf' \in [Pipe -> 0 .. Cap]
    <3>1. CASE UNCHANGED buf
      BY <3>1 DEF TypeOK
    <3>2. ASSUME NEW j, buf' = [buf EXCEPT ![j] = buf[j] + 1], buf[j] < Cap
          PROVE  buf' \in [Pipe -> 0 .. Cap]
      BY <3>2, BufferType, Zenon DEF TypeOK
    <3> QED BY <1>9, <3>1, <3>2, Zenon DEF Write
  <2>2. left' \in [Stage -> Nat]
    BY <1>9 DEF Write, WantsToWrite, TypeOK
  <2> QED BY <1>9, <2>1, <2>2, Zenon DEF Write, TypeOK
<1>10. ASSUME NEW s \in Stage, Read(s) PROVE TypeOK'
  <2>1. buf' \in [Pipe -> 0 .. Cap]
    <3>1. ASSUME NEW j, buf' = [buf EXCEPT ![j] = buf[j] - 1], buf[j] > 0
          PROVE  buf' \in [Pipe -> 0 .. Cap]
      BY <3>1, BufferType, Zenon DEF TypeOK
    <3> QED BY <1>10, <3>1, Zenon DEF Read
  <2>2. left' \in [Stage -> Nat]
    BY <1>10 DEF Read, TypeOK
  <2> QED BY <1>10, <2>1, <2>2, Zenon DEF Read, TypeOK
<1>11. ASSUME NEW s \in Stage, Quit(s) \/ Eof(s) \/ BrokenPipe(s) \/ Killed(s)
       PROVE  TypeOK'
  BY <1>11, CodeType, FinishType DEF Quit, Eof, BrokenPipe, Killed
<1>12. CASE UNCHANGED vars
  BY <1>12, Zenon DEF vars, TypeOK
<1> QED
  BY <1>1, <1>2, <1>3, <1>4, <1>5, <1>6, <1>7, <1>8, <1>9, <1>10, <1>11, <1>12
  DEF Next, ShellStep, StageStep
-----------------------------------------------------------------------------
LEMMA WiringInit == Init => Wiring
<1> SUFFICES ASSUME Init PROVE Wiring
  OBVIOUS
<1>1. ShellHolds
  BY DEF Init, ShellHolds, Before
<1>2. StageHolds
  BY DEF Init, StageHolds
<1>3. InOrder
  BY DEF Init, InOrder, Over
<1> QED BY <1>1, <1>2, <1>3 DEF Wiring

(* The two pipes a process may have open meet at no end. *)
LEMMA Apart ==
    ASSUME NEW s \in Stage
    PROVE  /\ (Before(s) \cup After(s)) \ {<<s - 1, "r">>} = After(s)
           /\ s < N => After(s) \ {<<s, "w">>} = Before(s + 1)
           /\ After(s) \ BothEnds(s) = {}
           /\ s = N => After(s) = {}
           /\ s = 1 => Before(s) = {}
BY DEF Before, After, BothEnds

(* What a step of the shell that forks nothing must show. *)
LEMMA WiringShell ==
    ASSUME TypeOK, Wiring, ShellHolds', InOrder',
           UNCHANGED <<st, cprev, sin, sout>>,
           \A s \in Stage : hold'[s] = hold[s]
    PROVE  Wiring'
BY DEF Wiring, StageHolds, Before, After

LEMMA WiringNext ==
    ASSUME TypeOK, Wiring, [Next]_vars
    PROVE  Wiring'
<1> USE DEF shell
<1>a. /\ ShellHolds /\ StageHolds /\ InOrder
      /\ i \in Stage /\ hold \in [Process -> SUBSET End]
      /\ \A s \in Stage : s \in Process /\ s # Shell
      /\ Shell \in Process
  <2>1. i \in Stage /\ hold \in [Process -> SUBSET End]
    BY DEF TypeOK
  <2>2. Shell \in Process /\ \A s \in Stage : s \in Process /\ s # Shell
    OBVIOUS
  <2> QED BY <2>1, <2>2, Zenon DEF Wiring
<1>1. CASE MakePipe
  <2>1. /\ ppc = "pipe" /\ ppc' = "fork" /\ prev' = prev /\ i' = i
        /\ \A s \in Stage : hold'[s] = hold[s]
        /\ hold'[Shell] = IF i < N THEN hold[Shell] \cup BothEnds(i) ELSE hold[Shell]
        /\ UNCHANGED <<st, cprev, sin, sout, outcome>>
    BY <1>1, <1>a DEF MakePipe
  <2>2. ShellHolds'
    BY <1>a, <2>1 DEF ShellHolds, Before, After
  <2>3. InOrder'
    BY <1>a, <2>1 DEF InOrder, Over
  <2> QED BY <2>1, <2>2, <2>3, WiringShell
<1>2. CASE Fails
  <2>1. /\ ppc \in {"pipe", "fork"} /\ ppc' = "failed"
        /\ UNCHANGED <<hold, st, cprev, sin, sout, outcome, prev, i>>
    BY <1>2 DEF Fails
  <2>2. ShellHolds'
    BY <1>a, <2>1 DEF ShellHolds, Before
  <2>3. InOrder'
    BY <1>a, <2>1 DEF InOrder, Over
  <2> QED BY <2>1, <2>2, <2>3, WiringShell
<1>4. CASE ClosePrev
  <2>1. /\ ppc = "shut" /\ ppc' = "next" /\ prev' = prev /\ i' = i
        /\ \A s \in Stage : hold'[s] = hold[s]
        /\ hold'[Shell] = IF prev # 0 THEN hold[Shell] \ {<<prev, "r">>} ELSE hold[Shell]
        /\ UNCHANGED <<st, cprev, sin, sout, outcome>>
    BY <1>4, <1>a DEF ClosePrev
  <2>2. hold[Shell] = Before(i) \cup After(i) /\ prev = i - 1
    BY <1>a, <2>1 DEF ShellHolds
  <2>3. hold'[Shell] = After(i)
    <3>1. CASE i = 1
      BY <1>a, <2>1, <2>2, <3>1, Apart
    <3>2. CASE i # 1
      BY <1>a, <2>1, <2>2, <3>2, Apart
    <3> QED BY <3>1, <3>2
  <2>4. ShellHolds'
    BY <2>1, <2>2, <2>3 DEF ShellHolds, After
  <2>5. InOrder'
    BY <1>a, <2>1 DEF InOrder, Over
  <2> QED BY <2>1, <2>4, <2>5, WiringShell
<1>5. CASE CloseWrite
  <2>1. CASE i < N
    <3>1. /\ ppc = "next" /\ ppc' = "pipe" /\ prev' = i /\ i' = i + 1
          /\ \A s \in Stage : hold'[s] = hold[s]
          /\ hold'[Shell] = hold[Shell] \ {<<i, "w">>}
          /\ UNCHANGED <<st, cprev, sin, sout, outcome>>
      BY <1>5, <1>a, <2>1 DEF CloseWrite
    <3>2. hold'[Shell] = Before(i + 1)
      BY <1>a, <2>1, <3>1, Apart DEF ShellHolds
    <3>3. ShellHolds'
      BY <1>a, <3>1, <3>2 DEF ShellHolds, Before
    <3>4. InOrder'
      BY <1>a, <3>1 DEF InOrder, Over
    <3> QED BY <3>1, <3>3, <3>4, WiringShell
  <2>2. CASE ~ (i < N)
    <3>1. /\ ppc = "next" /\ ppc' = "wait" /\ prev' = prev /\ i' = 1 /\ i = N
          /\ UNCHANGED <<hold, st, cprev, sin, sout, outcome>>
      BY <1>5, <1>a, <2>2 DEF CloseWrite
    <3>2. ShellHolds'
      BY <1>a, <3>1, Apart DEF ShellHolds
    <3>3. InOrder'
      BY <1>a, <3>1 DEF InOrder, Over
    <3> QED BY <3>1, <3>2, <3>3, WiringShell
  <2> QED BY <2>1, <2>2
<1>3. CASE Fork
  <2>1. /\ ppc = "fork" /\ ppc' = "shut" /\ prev' = prev /\ i' = i
        /\ st'[i] = "in" /\ hold'[i] = hold[Shell] /\ cprev'[i] = prev
        /\ hold'[Shell] = hold[Shell]
        /\ \A s \in Stage : s # i => st'[s] = st[s] /\ hold'[s] = hold[s] /\ cprev'[s] = cprev[s]
        /\ UNCHANGED <<sin, sout, outcome>>
    BY <1>3, <1>a DEF Fork, TypeOK
  <2>2. hold[Shell] = Before(i) \cup After(i) /\ prev = i - 1 /\ st[i] = "unborn"
    BY <1>a, <2>1 DEF ShellHolds, InOrder
  <2>3. ShellHolds'
    BY <2>1, <2>2 DEF ShellHolds, Before, After
  <2>4. StageHolds'
    <3> SUFFICES ASSUME NEW s \in Stage
                 PROVE  /\ st'[s] = "in" => hold'[s] = Before(s) \cup After(s)
                        /\ st'[s] = "out" => hold'[s] = After(s)
                        /\ st'[s] \notin {"in", "out"} => hold'[s] = {}
                        /\ sin'[s] = IF st'[s] \in {"out", "run"} /\ s > 1 THEN <<s - 1, "r">> ELSE Tty
                        /\ sout'[s] = IF st'[s] = "run" /\ s < N THEN <<s, "w">> ELSE Tty
                        /\ st'[s] = "in" => cprev'[s] = s - 1
      BY DEF StageHolds, Before, After
    <3>1. CASE s = i
      BY <1>a, <2>1, <2>2, <3>1 DEF StageHolds
    <3>2. CASE s # i
      BY <1>a, <2>1, <3>2 DEF StageHolds
    <3> QED BY <3>1, <3>2
  <2>5. InOrder'
    BY <1>a, <2>1, <2>2 DEF InOrder, Over
  <2> QED BY <2>3, <2>4, <2>5 DEF Wiring
<1>6. CASE Wait
  <2>1. /\ ppc = "wait" /\ st[i] = "ended" /\ st'[i] = "reaped"
        /\ \A s \in Stage : s # i => st'[s] = st[s]
        /\ \/ i < N /\ i' = i + 1 /\ ppc' = "wait"
           \/ i = N /\ i' = i /\ ppc' = "done"
        /\ UNCHANGED <<prev, hold, cprev, sin, sout, outcome>>
    BY <1>6, <1>a DEF Wait, TypeOK
  <2>2. ShellHolds'
    BY <1>a, <2>1 DEF ShellHolds
  <2>3. StageHolds'
    <3>1. \A s \in Stage : st'[s] = st[s] \/ (st[s] = "ended" /\ st'[s] = "reaped")
      BY <2>1
    <3> QED BY <1>a, <2>1, <3>1 DEF StageHolds, Before, After
  <2>4. InOrder'
    BY <1>a, <2>1 DEF InOrder, Over
  <2> QED BY <2>2, <2>3, <2>4 DEF Wiring
<1>7. ASSUME NEW s \in Stage, RewireIn(s) PROVE Wiring'
  <2>1. /\ st[s] = "in" /\ st'[s] = "out"
        /\ sin'[s] = IF cprev[s] # 0 THEN <<cprev[s], "r">> ELSE sin[s]
        /\ hold'[s] = IF cprev[s] # 0 THEN hold[s] \ {<<cprev[s], "r">>} ELSE hold[s]
        /\ hold'[Shell] = hold[Shell]
        /\ \A t \in Stage : t # s => st'[t] = st[t] /\ hold'[t] = hold[t] /\ sin'[t] = sin[t]
        /\ UNCHANGED <<ppc, i, prev, cprev, sout, outcome>>
    BY <1>7, <1>a DEF RewireIn, TypeOK
  <2>2. hold[s] = Before(s) \cup After(s) /\ cprev[s] = s - 1 /\ sin[s] = Tty /\ sout[s] = Tty
    BY <1>a, <2>1 DEF StageHolds
  <2>3. hold'[s] = After(s) /\ sin'[s] = IF s > 1 THEN <<s - 1, "r">> ELSE Tty
    <3>1. CASE s = 1
      BY <2>1, <2>2, <3>1, Apart
    <3>2. CASE s # 1
      BY <2>1, <2>2, <3>2, Apart
    <3> QED BY <3>1, <3>2
  <2>4. ShellHolds'
    BY <1>a, <2>1 DEF ShellHolds, Before, After
  <2>5. StageHolds'
    BY <1>a, <2>1, <2>2, <2>3 DEF StageHolds, Before, After
  <2>6. InOrder'
    BY <1>a, <2>1 DEF InOrder, Over
  <2> QED BY <2>4, <2>5, <2>6 DEF Wiring
<1>8. ASSUME NEW s \in Stage, RewireOut(s) PROVE Wiring'
  <2>1. /\ st[s] = "out" /\ st'[s] = "run"
        /\ sout'[s] = IF s < N THEN <<s, "w">> ELSE sout[s]
        /\ hold'[s] = IF s < N THEN hold[s] \ BothEnds(s) ELSE hold[s]
        /\ hold'[Shell] = hold[Shell]
        /\ \A t \in Stage : t # s => st'[t] = st[t] /\ hold'[t] = hold[t] /\ sout'[t] = sout[t]
        /\ UNCHANGED <<ppc, i, prev, cprev, sin, outcome>>
    BY <1>8, <1>a DEF RewireOut, TypeOK
  <2>2. hold[s] = After(s) /\ sout[s] = Tty
    BY <1>a, <2>1 DEF StageHolds
  <2>3. hold'[s] = {} /\ sout'[s] = IF s < N THEN <<s, "w">> ELSE Tty
    BY <2>1, <2>2, Apart
  <2>4. ShellHolds'
    BY <1>a, <2>1 DEF ShellHolds, Before, After
  <2>5. StageHolds'
    BY <1>a, <2>1, <2>3 DEF StageHolds, Before, After
  <2>6. InOrder'
    BY <1>a, <2>1 DEF InOrder, Over
  <2> QED BY <2>4, <2>5, <2>6 DEF Wiring
<1>9. ASSUME NEW s \in Stage, Write(s) \/ Read(s) PROVE Wiring'
  <2>1. UNCHANGED <<ppc, i, prev, hold, st, cprev, sin, sout, outcome>>
    BY <1>9, Zenon DEF Write, Read
  <2> QED BY <1>a, <2>1 DEF Wiring, ShellHolds, StageHolds, InOrder, Before, After, Over
<1>10. ASSUME NEW s \in Stage, NEW r, NEW c \in Code \cup {1, Signalled},
              st[s] \in {"in", "out", "run"}, Finish(s, r, c)
       PROVE  Wiring'
  <2>1. /\ st'[s] = "ended" /\ hold'[s] = {} /\ sin'[s] = Tty /\ sout'[s] = Tty
        /\ outcome'[s] # Unended
        /\ hold'[Shell] = hold[Shell]
        /\ \A t \in Stage : t # s => /\ st'[t] = st[t] /\ hold'[t] = hold[t]
                                    /\ sin'[t] = sin[t] /\ sout'[t] = sout[t]
                                    /\ outcome'[t] = outcome[t]
        /\ UNCHANGED <<ppc, i, prev, cprev>>
    BY <1>10, <1>a, CodeAssumption DEF Finish, TypeOK, Unended, Signalled
  <2>2. ShellHolds'
    BY <1>a, <2>1 DEF ShellHolds, Before, After
  <2>3. StageHolds'
    BY <1>a, <2>1 DEF StageHolds, Before, After
  <2>4. InOrder'
    BY <1>10, <1>a, <2>1 DEF InOrder, Over
  <2> QED BY <2>2, <2>3, <2>4 DEF Wiring
<1>11. ASSUME NEW s \in Stage, Quit(s) \/ Eof(s) \/ BrokenPipe(s) \/ Killed(s)
       PROVE  Wiring'
  <2>1. st[s] \in {"in", "out", "run"}
    BY <1>11 DEF Quit, Eof, BrokenPipe, Killed, WantsToRead, WantsToWrite, Running
  <2>2. \E r, c : c \in Code \cup {1, Signalled} /\ Finish(s, r, c)
    BY <1>11, Zenon DEF Quit, Eof, BrokenPipe, Killed
  <2> QED BY <1>10, <2>1, <2>2
<1>12. CASE UNCHANGED vars
  BY <1>12, <1>a DEF vars, Wiring, ShellHolds, StageHolds, InOrder, Before, After, Over
<1> QED
  BY <1>1, <1>2, <1>3, <1>4, <1>5, <1>6, <1>7, <1>8, <1>9, <1>11, <1>12
  DEF Next, ShellStep, StageStep
-----------------------------------------------------------------------------
Inv == TypeOK /\ Wiring

LEMMA InvSpec == Spec => []Inv
<1>1. Init => Inv
  BY TypeInit, WiringInit DEF Inv
<1>2. Inv /\ [Next]_vars => Inv'
  BY TypeNext, WiringNext DEF Inv, Wiring
<1> QED BY <1>1, <1>2, PTL DEF Spec

(* Every variable keeps its type: the loops of fork_pipeline and           *)
(* wait_pipeline (exec.c:241, 256) stay within the stages.                 *)
THEOREM TypeCorrect == Spec => []TypeOK
BY InvSpec, PTL DEF Inv

(* exec.c:218-286: at every step of the shell and of the stages each pipe  *)
(* end is open where it should be and nowhere else.                        *)
THEOREM WiringHolds == Spec => []Wiring
BY InvSpec, PTL DEF Inv

(* exec.c:218: whatever the number of stages and whatever was forked       *)
(* meanwhile, a stage's command runs with no pipe end but its own two.     *)
THEOREM Wired == Spec => []StageWired
<1>1. Inv => StageWired
  BY DEF Inv, Wiring, StageHolds, StageWired, Running
<1> QED BY <1>1, InvSpec, PTL

(* exec.c:276-281: the shell waits with no pipe end open, and has reaped   *)
(* every stage when it returns from a pipeline it could start.             *)
THEOREM Clean == Spec => []ShellClean
<1>1. Inv => ShellClean
  BY DEF Inv, Wiring, ShellHolds, InOrder, ShellClean
<1> QED BY <1>1, InvSpec, PTL
-----------------------------------------------------------------------------
(* Until the stage before it is over, a stage's input has a writer. *)
LEMMA WriterAlive ==
    ASSUME Inv, NEW s \in Stage, s > 1, Running(s), Writers(s - 1) = {}
    PROVE  Over(s - 1)
<1>1. s - 1 \in Stage /\ s - 1 \in Process /\ s - 1 < N
  OBVIOUS
<1>2. <<s - 1, "w">> \notin hold[s - 1] /\ sout[s - 1] # <<s - 1, "w">>
  BY <1>1 DEF Writers
<1>3. st[s - 1] # "unborn"
  BY <1>1 DEF Inv, Wiring, InOrder, Running, TypeOK
<1>4. st[s - 1] \notin {"in", "out", "run"}
  BY <1>1, <1>2 DEF Inv, Wiring, StageHolds, After, BothEnds
<1>5. st[s - 1] \in {"unborn", "in", "out", "run", "ended", "reaped"}
  BY <1>1 DEF Inv, TypeOK
<1> QED BY <1>3, <1>4, <1>5 DEF Over

(* Until the stage after it is over, a stage's output has a reader: the    *)
(* stage after it, or the shell when it has not forked that one yet.       *)
LEMMA ReaderAlive ==
    ASSUME Inv, NEW s \in Stage, s < N, Running(s), Readers(s) = {}
    PROVE  Over(s + 1)
<1>1. s + 1 \in Stage /\ s + 1 \in Process /\ Shell \in Process
  OBVIOUS
<1>2. <<s, "r">> \notin hold[s + 1] /\ <<s, "r">> \notin hold[Shell] /\ sin[s + 1] # <<s, "r">>
  BY <1>1 DEF Readers
<1>3. st[s + 1] # "unborn"
  <2> SUFFICES ASSUME st[s + 1] = "unborn" PROVE FALSE
    OBVIOUS
  <2>1. i \in Stage /\ st[s] # "unborn"
    BY DEF Inv, TypeOK, Running
  <2>2. \/ ppc \in {"pipe", "fork", "failed"} /\ i = s + 1
        \/ ppc \in {"shut", "next"} /\ i = s
    BY <1>1, <2>1 DEF Inv, Wiring, InOrder
  <2>3. CASE ppc \in {"pipe", "fork", "failed"} /\ i = s + 1
    <3>1. <<s, "r">> \in Before(i)
      BY <2>3 DEF Before
    <3> QED BY <1>2, <2>3, <3>1 DEF Inv, Wiring, ShellHolds
  <2>4. CASE ppc \in {"shut", "next"} /\ i = s
    <3>1. <<s, "r">> \in After(i)
      BY <2>4 DEF After, BothEnds
    <3> QED BY <1>2, <2>4, <3>1 DEF Inv, Wiring, ShellHolds
  <2> QED BY <2>2, <2>3, <2>4
<1>4. st[s + 1] \notin {"in", "out", "run"}
  <2>1. s + 1 > 1 /\ (s + 1) - 1 = s /\ <<s, "r">> \in Before(s + 1)
    BY DEF Before
  <2>2. st[s + 1] # "in"
    BY <1>1, <1>2, <2>1 DEF Inv, Wiring, StageHolds
  <2>3. st[s + 1] \in {"out", "run"} => sin[s + 1] = <<(s + 1) - 1, "r">>
    BY <1>1, <2>1 DEF Inv, Wiring, StageHolds
  <2> QED BY <1>2, <2>1, <2>2, <2>3
<1>5. st[s + 1] \in {"unborn", "in", "out", "run", "ended", "reaped"}
  BY <1>1 DEF Inv, TypeOK
<1> QED BY <1>3, <1>4, <1>5 DEF Over

EndsInv == EofAfterEnd /\ SigpipeAfterEnd

LEMMA OverStays ==
    ASSUME Inv, [Next]_vars
    PROVE  \A s \in Stage : Over(s) => Over(s)'
<1> USE DEF Over, shell
<1>a. st \in [Stage -> {"unborn", "in", "out", "run", "ended", "reaped"}] /\ InOrder /\ i \in Stage
  BY DEF Inv, TypeOK, Wiring
<1>1. CASE UNCHANGED st
  BY <1>1
<1>2. CASE Fork
  <2>1. st[i] = "unborn" /\ st' = [st EXCEPT ![i] = "in"]
    BY <1>2, <1>a DEF Fork, InOrder
  <2> QED BY <1>a, <2>1
<1>3. CASE Wait
  <2>1. st' = [st EXCEPT ![i] = "reaped"]
    BY <1>3 DEF Wait
  <2> QED BY <1>a, <2>1
<1>4. ASSUME NEW t \in Stage, NEW x, x \in {"out", "run", "ended"},
             st[t] \in {"in", "out", "run"}, st' = [st EXCEPT ![t] = x]
      PROVE  \A s \in Stage : Over(s) => Over(s)'
  BY <1>4, <1>a
<1>5. ASSUME NEW t \in Stage, StageStep(t) \/ Killed(t)
      PROVE  UNCHANGED st \/ \E x \in {"out", "run", "ended"} :
                 st[t] \in {"in", "out", "run"} /\ st' = [st EXCEPT ![t] = x]
  BY <1>5 DEF StageStep, RewireIn, RewireOut, Write, Read, Quit, Eof, BrokenPipe,
              Killed, Finish, WantsToWrite, WantsToRead, Running
<1>6. CASE MakePipe \/ Fails \/ ClosePrev \/ CloseWrite \/ UNCHANGED vars
  BY <1>1, <1>6, Zenon DEF MakePipe, Fails, ClosePrev, CloseWrite, vars
<1> QED
  BY <1>1, <1>2, <1>3, <1>4, <1>5, <1>6 DEF Next, ShellStep

LEMMA EndsNext ==
    ASSUME Inv, EndsInv, [Next]_vars
    PROVE  EndsInv'
<1> USE DEF shell
<1>a. /\ why \in [Stage -> {"none", "quit", "eof", "sigpipe", "killed"}]
      /\ buf \in [Pipe -> 0 .. Cap]
      /\ \A s \in Stage : s > 1 => s - 1 \in Stage /\ s - 1 \in Pipe
      /\ \A s \in Stage : s < N => s + 1 \in Stage
  <2>1. /\ why \in [Stage -> {"none", "quit", "eof", "sigpipe", "killed"}]
        /\ buf \in [Pipe -> 0 .. Cap]
    BY DEF Inv, TypeOK
  <2>2. /\ \A s \in Stage : s > 1 => s - 1 \in Stage /\ s - 1 \in Pipe
        /\ \A s \in Stage : s < N => s + 1 \in Stage
    OBVIOUS
  <2> QED BY <2>1, <2>2, Zenon
<1>b. \A s \in Stage : Over(s) => Over(s)'
  BY OverStays
<1>1. CASE UNCHANGED <<why, buf>>
  BY <1>1, <1>a, <1>b DEF EndsInv, EofAfterEnd, SigpipeAfterEnd
<1>2. ASSUME NEW t \in Stage, Write(t) PROVE EndsInv'
  <2>1. why' = why /\ Running(t)
    BY <1>2 DEF Write, WantsToWrite
  <2>2. sout[t] = IF t < N THEN <<t, "w">> ELSE Tty
    BY <2>1 DEF Inv, Wiring, StageHolds, Running
  <2>3. \A j \in Pipe : j # t => buf'[j] = buf[j]
    BY <1>2, <2>2, <1>a DEF Write
  <2>4. ~ Over(t)
    BY <2>1 DEF Running, Over
  <2>5. EofAfterEnd'
    BY <1>a, <1>b, <2>1, <2>3, <2>4 DEF EndsInv, EofAfterEnd
  <2> QED BY <1>a, <1>b, <2>1, <2>5 DEF EndsInv, SigpipeAfterEnd
<1>3. ASSUME NEW t \in Stage, Read(t) PROVE EndsInv'
  <2>1. why' = why /\ buf[sin[t][1]] > 0 /\ buf' = [buf EXCEPT ![sin[t][1]] = @ - 1]
    BY <1>3 DEF Read
  <2>2. \A j \in Pipe : buf[j] = 0 => buf'[j] = 0
    BY <1>a, <2>1
  <2>3. EofAfterEnd'
    BY <1>a, <1>b, <2>1, <2>2 DEF EndsInv, EofAfterEnd
  <2> QED BY <1>a, <1>b, <2>1, <2>3 DEF EndsInv, SigpipeAfterEnd
<1>4. ASSUME NEW t \in Stage, NEW r, NEW c, Finish(t, r, c),
             r = "eof" /\ t > 1 => Over(t - 1) /\ buf[t - 1] = 0,
             r = "sigpipe" => t < N /\ Over(t + 1)
      PROVE  EndsInv'
  <2>1. why' = [why EXCEPT ![t] = r] /\ buf' = buf
    BY <1>4, Zenon DEF Finish
  <2>2. why'[t] = r /\ \A s \in Stage : s # t => why'[s] = why[s]
    BY <1>a, <2>1
  <2>3. EofAfterEnd'
    BY <1>4, <1>a, <1>b, <2>1, <2>2 DEF EndsInv, EofAfterEnd
  <2>4. SigpipeAfterEnd'
    BY <1>4, <1>a, <1>b, <2>2 DEF EndsInv, SigpipeAfterEnd
  <2> QED BY <2>3, <2>4 DEF EndsInv
<1>5. ASSUME NEW t \in Stage, Quit(t) \/ Killed(t) PROVE EndsInv'
  <2>1. \E r \in {"quit", "killed"} : \E c : Finish(t, r, c)
    BY <1>5, Zenon DEF Quit, Killed
  <2> QED BY <1>4, <2>1
<1>6. ASSUME NEW t \in Stage, Eof(t) PROVE EndsInv'
  <2>1. Running(t) /\ \E c : Finish(t, "eof", c)
    BY <1>6, Zenon DEF Eof, WantsToRead
  <2>2. t > 1 => Over(t - 1) /\ buf[t - 1] = 0
    <3> SUFFICES ASSUME t > 1 PROVE Over(t - 1) /\ buf[t - 1] = 0
      OBVIOUS
    <3>1. sin[t] = <<t - 1, "r">> /\ sin[t] # Tty
      <4>1. sin[t] = <<t - 1, "r">>
        BY <2>1 DEF Inv, Wiring, StageHolds, Running
      <4>2. t - 1 # 0
        OBVIOUS
      <4> QED BY <4>1, <4>2 DEF Tty
    <3>2. buf[t - 1] = 0 /\ Writers(t - 1) = {}
      BY <1>6, <3>1 DEF Eof
    <3> QED BY <2>1, <3>2, WriterAlive
  <2> QED BY <1>4, <2>1, <2>2
<1>7. ASSUME NEW t \in Stage, BrokenPipe(t) PROVE EndsInv'
  <2>1. Running(t) /\ sout[t] # Tty /\ Readers(sout[t][1]) = {} /\ \E c : Finish(t, "sigpipe", c)
    BY <1>7, Zenon DEF BrokenPipe, WantsToWrite
  <2>2. t < N /\ sout[t] = <<t, "w">>
    BY <2>1 DEF Inv, Wiring, StageHolds, Running
  <2>3. Over(t + 1)
    BY <2>1, <2>2, ReaderAlive
  <2> QED BY <1>4, <2>1, <2>2, <2>3
<1>8. CASE ShellStep \/ UNCHANGED vars
  BY <1>1, <1>8, Zenon DEF ShellStep, MakePipe, Fails, Fork, ClosePrev, CloseWrite, Wait, vars
<1>9. ASSUME NEW t \in Stage, RewireIn(t) \/ RewireOut(t) PROVE EndsInv'
  BY <1>1, <1>9, Zenon DEF RewireIn, RewireOut
<1> QED
  BY <1>2, <1>3, <1>5, <1>6, <1>7, <1>8, <1>9 DEF Next, StageStep

LEMMA EndsSpec == Spec => []EndsInv
<1>1. Init => EndsInv
  BY DEF Init, EndsInv, EofAfterEnd, SigpipeAfterEnd
<1>2. Inv /\ EndsInv /\ [Next]_vars => EndsInv'
  BY EndsNext
<1> QED BY <1>1, <1>2, InvSpec, PTL DEF Spec

(* A stage meets end of file only when the stage before it is over.        *)
THEOREM NoEarlyEof == Spec => []EofAfterEnd
BY EndsSpec, PTL DEF EndsInv

(* A stage meets a broken pipe only when the stage after it is over.       *)
THEOREM NoEarlySigpipe == Spec => []SigpipeAfterEnd
BY EndsSpec, PTL DEF EndsInv
-----------------------------------------------------------------------------
(* What exec_pipeline promises. *)

ReturnedOnce == result = Pending <=> ppc \notin {"done", "failed"}

LEMMA ReturnedNext ==
    ASSUME Inv, ReturnedOnce, [Next]_vars
    PROVE  ReturnedOnce'
<1> USE DEF shell, ReturnedOnce
<1>1. CASE Fails
  BY <1>1 DEF Fails, Pending
<1>2. CASE Wait
  <2>1. outcome[i] \in -2 .. 255 /\ outcome[i] # Unended
    BY <1>2 DEF Wait, Inv, TypeOK, Wiring, InOrder, Over
  <2>2. \/ ppc' = ppc /\ result' = result
        \/ ppc' = "done" /\ (result' = 0 \/ (outcome[i] # Signalled /\ result' = outcome[i]))
    BY <1>2 DEF Wait
  <2> QED BY <1>2, <2>1, <2>2 DEF Wait, Pending, Unended, Signalled
<1>3. CASE UNCHANGED result /\ (UNCHANGED ppc \/ {ppc, ppc'} \cap {"done", "failed"} = {})
  BY <1>3
<1>4. CASE MakePipe \/ Fork \/ ClosePrev \/ CloseWrite
  BY <1>3, <1>4 DEF MakePipe, Fork, ClosePrev, CloseWrite
<1>5. ASSUME NEW s \in Stage, StageStep(s) \/ Killed(s) PROVE UNCHANGED <<result, ppc>>
  BY <1>5, Zenon DEF StageStep, RewireIn, RewireOut, Write, Read, Quit, Eof, BrokenPipe,
                     Killed, Finish
<1>6. CASE UNCHANGED vars
  BY <1>6 DEF vars
<1> QED
  BY <1>1, <1>2, <1>3, <1>4, <1>5, <1>6 DEF Next, ShellStep

LEMMA StepRefines ==
    ASSUME Inv, ReturnedOnce, [Next]_vars
    PROVE  [Abstract!Next]_<<outcome, result>>
<1> USE DEF shell
<1>a. i \in Stage /\ InOrder /\ outcome \in [Stage -> -2 .. 255]
  BY DEF Inv, Wiring, TypeOK
<1>1. CASE Fails
  <2>1. result = Pending /\ result' = 1 /\ outcome' = outcome
    BY <1>1 DEF Fails, ReturnedOnce
  <2>2. outcome[i] = Unended
    BY <1>1, <1>a DEF Fails, InOrder, Over
  <2> QED BY <1>a, <2>1, <2>2 DEF Abstract!Next, Abstract!Fail, Abstract!Stage,
                             Abstract!Pending, Abstract!Unended, Pending, Unended
<1>2. CASE Wait
  <2>1. CASE i < N
    BY <1>2, <2>1 DEF Wait
  <2>2. CASE ~ (i < N)
    <3>1. i = N /\ ppc = "wait" /\ st[N] = "ended" /\ outcome' = outcome
          /\ result' = IF outcome[N] = Signalled THEN 0 ELSE outcome[N]
      BY <1>2, <1>a, <2>2 DEF Wait
    <3>2. \A s \in Stage : outcome[s] # Unended
      BY <1>a, <3>1 DEF InOrder, Over
    <3>3. result = Pending
      BY <3>1 DEF ReturnedOnce
    <3> QED BY <3>1, <3>2, <3>3
            DEF Abstract!Next, Abstract!Return, Abstract!Stage, Abstract!Pending,
                Abstract!Unended, Abstract!Signalled, Pending, Unended, Signalled
  <2> QED BY <2>1, <2>2
<1>3. ASSUME NEW s \in Stage, NEW r, NEW c \in Code \cup {1, Signalled},
             st[s] \in {"in", "out", "run"}, Finish(s, r, c)
      PROVE  Abstract!Next
  <2>1. outcome[s] = Unended
    BY <1>3, <1>a DEF InOrder, Over
  <2>2. outcome' = [outcome EXCEPT ![s] = c] /\ UNCHANGED result
    BY <1>3, Zenon DEF Finish
  <2>3. Abstract!StageEnds(s)
    BY <1>3, <2>1, <2>2 DEF Abstract!StageEnds, Abstract!Unended, Abstract!Signalled,
                            Unended, Signalled
  <2> QED BY <2>3 DEF Abstract!Next, Abstract!Stage
<1>4. ASSUME NEW s \in Stage, Quit(s) \/ Eof(s) \/ BrokenPipe(s) \/ Killed(s)
      PROVE  Abstract!Next
  <2>1. st[s] \in {"in", "out", "run"}
    BY <1>4 DEF Quit, Eof, BrokenPipe, Killed, WantsToRead, WantsToWrite, Running
  <2>2. \E r, c : c \in Code \cup {1, Signalled} /\ Finish(s, r, c)
    BY <1>4, Zenon DEF Quit, Eof, BrokenPipe, Killed
  <2> QED BY <1>3, <2>1, <2>2
<1>5. CASE MakePipe \/ Fork \/ ClosePrev \/ CloseWrite \/ UNCHANGED vars
  BY <1>5, Zenon DEF MakePipe, Fork, ClosePrev, CloseWrite, vars
<1>6. ASSUME NEW s \in Stage, RewireIn(s) \/ RewireOut(s) \/ Write(s) \/ Read(s)
      PROVE  UNCHANGED <<outcome, result>>
  BY <1>6, Zenon DEF RewireIn, RewireOut, Write, Read
<1> QED
  BY <1>1, <1>2, <1>4, <1>5, <1>6, Zenon DEF Next, ShellStep, StageStep

(* exec_pipeline returns once: after every stage is over, with the code of *)
(* the last or 0 if a signal ended it, or 1 when it could not fork them.   *)
THEOREM PipelineRefines == Spec => Refinement
<1>1. Init => Abstract!Init /\ ReturnedOnce
  BY DEF Init, Abstract!Init, Abstract!Stage, Abstract!Unended, Abstract!Pending,
         Unended, Pending, ReturnedOnce
<1>2. Inv /\ ReturnedOnce /\ [Next]_vars => ReturnedOnce'
  BY ReturnedNext
<1>3. Inv /\ ReturnedOnce /\ [Next]_vars => [Abstract!Next]_<<outcome, result>>
  BY StepRefines
<1> QED BY <1>1, <1>2, <1>3, InvSpec, PTL DEF Spec, Refinement, Abstract!Spec

=============================================================================
