------------------------- MODULE RedirectionProofs -------------------------
(***************************************************************************)
(* Proofs about Redirection: types, the restoration of the shell's         *)
(* descriptors when redirections name only 0, 1 and 2, and what is in      *)
(* force when a command runs.                                              *)
(***************************************************************************)
EXTENDS Redirection, WellFoundedInduction, TLAPS

USE NFdAssumption DEF NoFd

Less == OpToRel(<, Nat)

(* A set of numbers that is not empty has a least one. *)
LEMMA Least ==
    ASSUME NEW S, S \subseteq Nat, S # {}
    PROVE  \E d \in S : \A e \in S : d <= e
<1>1. IsWellFoundedOn(Less, Nat)
  BY NatLessThanWellFounded, Zenon DEF Less
<1>2. PICK d \in S : \A e \in S : ~ (<<e, d>> \in Less)
  BY <1>1, WFMin, Zenon
<1>3. \A x, y \in Nat : (<<x, y>> \in Less) <=> x < y
  BY Zenon DEF OpToRel, Less
<1>4. \A e \in S : ~ (e < d)
  BY <1>2, <1>3, Zenon
<1>5. \A e \in S : d <= e
  BY <1>4, SMT
<1> QED BY <1>5

(* open takes a descriptor that was free. *)
LEMMA LowestIsFree ==
    ASSUME NEW t, Free(t) # {}
    PROVE  Lowest(t) \in Fd /\ t[Lowest(t)] = Closed
<1>1. Free(t) \subseteq Nat
  BY DEF Free, Fd
<1>2. \E d \in Free(t) : \A e \in Free(t) : d <= e
  BY <1>1, Least
<1> QED BY <1>2, Zenon DEF Lowest, Free

(* What the calls leave in a table. *)
LEMMA OpenFdType ==
    ASSUME NEW t \in Table, NEW o \in Object
    PROVE  OpenFd(t, o) \in Table
BY DEF OpenFd, Table

LEMMA DupType ==
    ASSUME NEW t \in Table, NEW d \in Fd
    PROVE  /\ Dup(t, d) \in Table
           /\ DupFd(t, d) \in Fd \cup {NoFd}
<1>1. CASE DupFd(t, d) = NoFd
  BY <1>1 DEF Dup
<1>2. CASE DupFd(t, d) # NoFd
  <2>1. Free(t) # {} /\ t[d] # Closed
    BY <1>2 DEF DupFd, Lowest
  <2>2. t[d] \in Object /\ Lowest(t) \in Fd
    BY <2>1, LowestIsFree DEF Table
  <2> QED BY <1>2, <2>1, <2>2, OpenFdType DEF Dup, DupFd
<1> QED BY <1>1, <1>2

LEMMA Dup2Type ==
    ASSUME NEW t \in Table, NEW d, NEW e
    PROVE  Dup2(t, d, e) \in Table
BY DEF Dup2, Table

LEMMA CloseType ==
    ASSUME NEW t \in Table, NEW d
    PROVE  Close(t, d) \in Table
BY DEF Close, Table

LEMMA RedirectedType ==
    ASSUME NEW t \in Table, NEW r \in Redir
    PROVE  Redirected(t, r) \in Table
<1>1. <<r.type, r.file>> \in Object
  BY DEF Redir, Object, Opened
<1> QED BY <1>1, OpenFdType, Dup2Type, CloseType DEF Redirected

LEMMA EffectType ==
    ASSUME NEW r \in Redir, files \in [Path -> Content]
    PROVE  Effect(r) \in [Path -> Content]
BY DEF Effect, Content, Redir

LEMMA WrittenType ==
    ASSUME NEW t, files \in [Path -> Content]
    PROVE  Written(t) \in [Path -> Content]
BY DEF Written, Content

-----------------------------------------------------------------------------
(* Where the counter k may stand.  Nothing but the chains' own lengths     *)
(* bounds it while redirections are applied.                               *)
Progress ==
    /\ pc \in {"save", "restore", "close"} => k \in Std
    /\ pc \in {"apply", "child"} => k # 0
    /\ pc \in {"save", "apply"} => cmd.redirs # <<>>
    /\ pc = "ready" => k = 0 /\ \A i \in Std : saved[i] = NoFd

Typed == TypeOK /\ Progress

LEMMA RedirsType ==
    ASSUME TypeOK
    PROVE  cmd.redirs \in Seq(Redir)
<1>1. CASE cmd \in Command
  BY <1>1, ChainAssumption DEF Command
<1>2. CASE cmd = Nothing
  BY <1>2 DEF Nothing
<1> QED BY <1>1, <1>2 DEF TypeOK

LEMMA ChainElement ==
    ASSUME TypeOK, k # 0, k <= Len(cmd.redirs)
    PROVE  cmd.redirs[k] \in Redir
<1>1. cmd.redirs \in Seq(Redir)
  BY RedirsType
<1>2. k \in 1 .. Len(cmd.redirs)
  BY <1>1 DEF TypeOK
<1> QED BY <1>1, <1>2

LEMMA TypedInit == Init => Typed
<1> SUFFICES ASSUME Init PROVE Typed
  OBVIOUS
<1>1. base \in Boot /\ fds \in Table /\ cfds \in Table
  BY BootAssumption DEF Init
<1>2. saved \in [Std -> Fd \cup {NoFd}]
  BY DEF Init
<1>3. /\ files \in [Path -> Content] /\ before \in [Path -> Content]
      /\ cmd \in Command \cup {Nothing}
  BY Zenon DEF Init
<1>4. /\ k = 0 /\ cstatus = 0 /\ status = 0 /\ refused = 0
      /\ ok = TRUE /\ exit = FALSE /\ pc = "ready"
  BY Zenon DEF Init
<1>5. k \in Nat /\ cstatus \in 0 .. 255 /\ status \in 0 .. 255 /\ refused \in Nat
  BY <1>4
<1>6. TypeOK
  BY <1>1, <1>2, <1>3, <1>4, <1>5, Zenon DEF TypeOK
<1>7. pc = "ready" => \A i \in Std : saved[i] = NoFd
  BY DEF Init
<1> QED BY <1>4, <1>6, <1>7 DEF Typed, Progress

LEMMA CodeIsByte ==
    ASSUME NEW c \in Code \cup {0, 1, 127}
    PROVE  c \in 0 .. 255
BY CodeAssumption

LEMMA TypedNext == Typed /\ [Next]_vars => Typed'
<1> SUFFICES ASSUME Typed, [Next]_vars PROVE Typed'
  OBVIOUS
<1> USE DEF Typed, TypeOK, Progress, history
<1>0. /\ base \in Table /\ Std \subseteq Fd
      /\ 0 \in Std /\ \A n \in Std : n \in Nat /\ (n # 2 => n + 1 \in Std)
  BY BootAssumption DEF Std, Fd
<1>1. CASE Read
  BY <1>0, <1>1 DEF Read
<1>2. CASE Loop
  BY <1>2, <1>0 DEF Loop
<1>3. CASE Save
  <2>1. k \in Fd
    BY <1>3, <1>0 DEF Save
  <2>2. Dup(fds, k) \in Table /\ DupFd(fds, k) \in Fd \cup {NoFd}
    BY <2>1, DupType
  <2>3. saved' \in [Std -> Fd \cup {NoFd}]
    BY <1>3, <2>2 DEF Save
  <2>4. CASE k = 2
    BY <1>0, <1>3, <2>2, <2>3, <2>4 DEF Save
  <2>5. CASE k # 2
    BY <1>0, <1>3, <2>2, <2>3, <2>5 DEF Save
  <2> QED BY <2>4, <2>5
<1>4. CASE Apply
  <2>1. cmd.redirs[k] \in Redir
    BY <1>4, ChainElement DEF Apply
  <2>2. Redirected(fds, cmd.redirs[k]) \in Table /\ Effect(cmd.redirs[k]) \in [Path -> Content]
    BY <2>1, RedirectedType, EffectType
  <2> QED BY <1>4, <2>2 DEF Apply
<1>5. CASE ApplyFails
  BY <1>0, <1>5 DEF ApplyFails
<1>6. CASE ApplyEnds
  BY <1>6 DEF ApplyEnds
<1>7. CASE RunInShell
  <2>1. Written(fds) \in [Path -> Content]
    BY WrittenType
  <2>2. files' \in [Path -> Content] /\ exit' \in BOOLEAN
    BY <1>7, <2>1, Zenon DEF RunInShell
  <2>3. status' \in Code \cup {0, 1, 127}
    BY <1>7, Zenon DEF RunInShell
  <2>4. status' \in 0 .. 255
    BY ONLY <2>3, CodeIsByte
  <2> QED BY <1>0, <1>7, <2>2, <2>4 DEF RunInShell
<1>8. CASE Restore
  BY <1>0, <1>8, Dup2Type DEF Restore
<1>9. CASE CloseSaved
  <2>1. Close(fds, saved[k]) \in Table
    BY CloseType
  <2>2. status' \in 0 .. 255
    BY <1>9 DEF CloseSaved
  <2>3. k' \in Nat /\ (pc' = "close" => k' \in Std) /\ pc' \in {"close", "done"}
    BY <1>0, <1>9 DEF CloseSaved
  <2> QED BY <1>9, <2>1, <2>2, <2>3 DEF CloseSaved
<1>10. CASE Fork
  BY <1>10 DEF Fork
<1>11. CASE ForkFails
  BY <1>11 DEF ForkFails
<1>12. CASE ChildApply
  <2>1. cmd.redirs[k] \in Redir
    BY <1>12, ChainElement DEF ChildApply
  <2>2. Redirected(cfds, cmd.redirs[k]) \in Table /\ Effect(cmd.redirs[k]) \in [Path -> Content]
    BY <2>1, RedirectedType, EffectType
  <2> QED BY <1>12, <2>2 DEF ChildApply
<1>13. CASE ChildFails
  BY <1>13 DEF ChildFails
<1>14. CASE ChildApplied
  BY <1>14 DEF ChildApplied
<1>15. CASE ChildRuns
  <2>1. Written(cfds) \in [Path -> Content]
    BY WrittenType
  <2>2. files' \in [Path -> Content]
    BY <1>15, <2>1, Zenon DEF ChildRuns
  <2>3. cstatus' \in Code \cup {0, 1, 127}
    BY <1>15, Zenon DEF ChildRuns
  <2>4. cstatus' \in 0 .. 255
    BY ONLY <2>3, CodeIsByte
  <2> QED BY <1>15, <2>2, <2>4 DEF ChildRuns
<1>16. CASE Reap
  BY <1>16 DEF Reap
<1>17. CASE UNCHANGED vars
  BY <1>17 DEF vars
<1> QED
  BY <1>1, <1>2, <1>3, <1>4, <1>5, <1>6, <1>7, <1>8, <1>9, <1>10, <1>11,
     <1>12, <1>13, <1>14, <1>15, <1>16, <1>17 DEF Next, ShellStep, ChildStep

(* Every variable keeps its type: statuses are bytes and both processes    *)
(* have a whole descriptor table (exec.c:137-202).                         *)
THEOREM TypeCorrect == Spec => []TypeOK
<1>1. Spec => []Typed
  BY TypedInit, TypedNext, PTL DEF Spec
<1>2. Typed => TypeOK
  BY DEF Typed
<1> QED BY <1>1, <1>2, PTL
-----------------------------------------------------------------------------
(* A redirection moves its target and nothing else: the descriptor that    *)
(* open returned is free again.                                            *)
LEMMA RedirectedTable ==
    ASSUME NEW t \in Table, NEW r \in Redir, Free(t) # {},
           \A d \in Std : t[d] # Closed
    PROVE  \A d \in Fd :
               Redirected(t, r)[d] = IF d = Target(r) /\ d # Lowest(t)
                                     THEN <<r.type, r.file>> ELSE t[d]
<1> DEFINE fd == Lowest(t)
           o  == <<r.type, r.file>>
           t1 == OpenFd(t, o)
           t2 == Dup2(t1, fd, Target(r))
<1>1. fd \in Fd /\ t[fd] = Closed
  BY LowestIsFree
<1>2. o \in Object
  BY DEF Redir, Object, Opened
<1>3. t1 \in Table /\ t1 = [t EXCEPT ![fd] = o]
  BY <1>2, OpenFdType DEF OpenFd
<1>4. t1[fd] = o /\ t1[fd] # Closed /\ \A d \in Fd : d # fd => t1[d] = t[d]
  BY <1>1, <1>2, <1>3, ClosedAssumption DEF Table
<1>5. t2 \in Table
  BY <1>3, Dup2Type
<1>6. \A d \in Fd : t2[d] = IF d = Target(r) THEN o ELSE t1[d]
  BY <1>1, <1>3, <1>4 DEF Dup2, Table
<1>7. Redirected(t, r) = Close(t2, fd)
  BY Zenon DEF Redirected
<1>8. \A d \in Fd : Close(t2, fd)[d] = IF d = fd THEN Closed ELSE t2[d]
  BY <1>1, <1>5 DEF Close, Table
<1> HIDE DEF fd, o, t1, t2
<1>9. \A d \in Fd : Redirected(t, r)[d] = IF d = Target(r) /\ d # fd THEN o ELSE t[d]
  BY <1>1, <1>4, <1>6, <1>7, <1>8
<1> QED BY <1>9 DEF fd, o

(* On the standard descriptors, which open never returns. *)
LEMMA RedirectedStd ==
    ASSUME NEW t \in Table, NEW r \in Redir, Free(t) # {},
           \A d \in Std : t[d] # Closed
    PROVE  \A d \in Std :
               Redirected(t, r)[d] = IF d = Target(r) THEN <<r.type, r.file>> ELSE t[d]
<1>1. Std \subseteq Fd
  BY DEF Std, Fd
<1>2. Lowest(t) \notin Std
  BY LowestIsFree
<1> QED BY <1>1, <1>2, RedirectedTable

LEMMA SavedCopiesInit == Init => SavedCopies
BY DEF Init, SavedCopies, Rewired

(* Numbers that are none of 0, 1 and 2 are no descriptors at all. *)
StdTargets == RedirNb \cap Fd \subseteq Std

LEMMA TargetIsStd ==
    ASSUME StdTargets, NEW r \in Redir, Target(r) \in Fd
    PROVE  Target(r) \in Std
<1>1. r.nb \in Fd => r.nb \in Std
  BY DEF StdTargets, Redir
<1>2. r.nb = -1 => Target(r) \in {0, 1}
  BY DEF Target
<1>3. r.nb # -1 => Target(r) = r.nb
  BY DEF Target
<1> QED BY <1>1, <1>2, <1>3, SMT DEF Std

(* dup: the copy is above the standard descriptors, the rest is as it was. *)
LEMMA DupTable ==
    ASSUME NEW t \in Table, NEW d \in Std, \A e \in Std : t[e] # Closed
    PROVE  \/ Free(t) = {} /\ DupFd(t, d) = NoFd /\ Dup(t, d) = t
           \/ /\ DupFd(t, d) \in Fd \ Std
              /\ t[DupFd(t, d)] = Closed
              /\ Dup(t, d) = [t EXCEPT ![DupFd(t, d)] = t[d]]
<1>1. CASE Free(t) = {}
  BY <1>1 DEF DupFd, Dup, Lowest
<1>2. CASE Free(t) # {}
  <2>1. DupFd(t, d) = Lowest(t) /\ Lowest(t) \in Fd /\ t[Lowest(t)] = Closed
    BY <1>2, LowestIsFree DEF DupFd
  <2>2. Lowest(t) \notin Std /\ Lowest(t) # NoFd
    BY <2>1 DEF Fd
  <2> QED BY <2>1, <2>2 DEF Dup, OpenFd
<1> QED BY <1>1, <1>2

LEMMA SavedCopiesNext ==
    ASSUME StdTargets, Typed, SavedCopies, [Next]_vars
    PROVE  SavedCopies'
<1> USE DEF history
<1>a. /\ fds \in Table /\ saved \in [Std -> Fd \cup {NoFd}] /\ k \in Nat
      /\ TypeOK /\ Progress
  BY DEF Typed, TypeOK
<1>0. /\ base \in Table /\ \A d \in Std : base[d] # Closed
      /\ Std \subseteq Fd /\ NoFd \notin Fd
      /\ \A n \in Std : n \in Nat
      /\ 0 \in Std /\ \A n \in Std : n >= 0 /\ n <= 2
  BY <1>a, BootAssumption DEF TypeOK, Std, Fd
<1>1. CASE Read
  <2>1. fds = base
    BY <1>a, <1>1 DEF Progress, Read, SavedCopies, Rewired
  <2>2. CASE pc' = "save"
    <3>1. k' = 0 /\ fds' = base' /\ base' = base /\ \A i \in Std : saved'[i] = NoFd
      BY <1>a, <1>1, <2>1 DEF Progress, Read
    <3>2. CopiesApart' /\ OthersUntouched' /\ MissingCopies' /\ StdAtStep'
      BY <1>0, <2>2, <3>1 DEF CopiesApart, OthersUntouched, MissingCopies, StdAtStep
    <3> QED BY <2>2, <3>2 DEF SavedCopies, Rewired
  <2>3. CASE pc' # "save"
    BY <1>a, <1>1, <2>1, <2>3 DEF Progress, Read, SavedCopies, Rewired
  <2> QED BY <2>2, <2>3
<1>2. CASE Loop
  BY <1>2 DEF Loop, SavedCopies, Rewired
<1>3. CASE Save
  <2>1. /\ pc = "save" /\ k \in Std /\ base' = base
        /\ CopiesApart /\ OthersUntouched /\ MissingCopies /\ StdAtStep
    BY <1>a, <1>3 DEF Progress, Save, SavedCopies, Rewired
  <2>2. \A d \in Std : fds[d] = base[d] /\ fds[d] # Closed
    BY <2>1 DEF StdAtStep
  <2>3. \/ pc' = "save" /\ k' = k + 1 /\ k # 2
        \/ pc' = "apply" /\ k = 2
    BY <1>a, <1>3 DEF Progress, Save
  <2>4. CASE Free(fds) = {} /\ DupFd(fds, k) = NoFd /\ Dup(fds, k) = fds
    <3>1. saved[k] = NoFd
      BY <1>0, <2>1 DEF StdAtStep
    <3>2. fds' = fds /\ saved' = saved
      BY <1>a, <1>3, <2>4, <3>1 DEF Save
    <3>3. CopiesApart'
      BY <2>1, <2>3, <3>2 DEF CopiesApart
    <3>4. OthersUntouched'
      BY <2>1, <3>2 DEF OthersUntouched
    <3>5. MissingCopies'
      BY <2>1, <2>2, <2>3, <2>4, <3>2 DEF MissingCopies, Free
    <3>6. StdAtStep'
      BY <1>0, <2>1, <2>2, <2>3, <3>2 DEF StdAtStep
    <3> QED BY <2>3, <3>3, <3>4, <3>5, <3>6 DEF SavedCopies, Rewired
  <2>5. CASE /\ DupFd(fds, k) \in Fd \ Std
             /\ fds[DupFd(fds, k)] = Closed
             /\ Dup(fds, k) = [fds EXCEPT ![DupFd(fds, k)] = fds[k]]
    <3> DEFINE n == DupFd(fds, k)
    <3>1. fds' = [fds EXCEPT ![n] = fds[k]] /\ saved' = [saved EXCEPT ![k] = n]
      BY <1>a, <1>3, <2>5 DEF Progress, Save
    <3>2. n \in Fd \ Std /\ fds[n] = Closed /\ n # NoFd
      BY <1>0, <2>5
    <3> HIDE DEF n
    <3>3. fds'[n] = base[k] /\ saved'[k] = n /\ fds' \in [Fd -> Object \cup {Closed}]
      BY <1>a, <1>0, <2>1, <2>2, <3>1, <3>2 DEF Table
    <3>4. /\ \A d \in Fd : d # n => fds'[d] = fds[d]
          /\ \A i \in Std : i # k => saved'[i] = saved[i]
      BY <3>1 DEF Table
    <3>5. \A i \in Std : saved[i] # n
      BY <1>0, <2>1, <3>2 DEF CopiesApart
    <3>6. base[n] = Closed
      BY <2>1, <3>2, <3>5 DEF OthersUntouched
    <3>7. CopiesApart'
      <4> SUFFICES ASSUME NEW i \in Std, saved'[i] # NoFd
                   PROVE  /\ saved'[i] \notin Std
                          /\ base[saved'[i]] = Closed
                          /\ \A j \in Std : saved'[j] = saved'[i] => j = i
                          /\ fds'[saved'[i]] = base[i]
        BY <2>1, <2>3 DEF CopiesApart
      <4>1. CASE i = k
        BY <3>2, <3>3, <3>4, <3>5, <3>6, <4>1
      <4>2. CASE i # k
        <5>1. saved'[i] = saved[i] /\ saved[i] # n /\ saved[i] \in Fd
          BY <1>a, <3>4, <3>5, <4>2
        <5>2. fds'[saved[i]] = base[i]
          BY <2>1, <3>4, <5>1 DEF CopiesApart
        <5>3. \A j \in Std : saved'[j] = saved[i] => j = i
          BY <2>1, <3>3, <3>4, <5>1 DEF CopiesApart
        <5> QED BY <2>1, <5>1, <5>2, <5>3 DEF CopiesApart
      <4> QED BY <4>1, <4>2
    <3>8. OthersUntouched'
      <4>1. saved[k] = NoFd
        BY <1>0, <2>1 DEF StdAtStep
      <4> SUFFICES ASSUME NEW d \in Fd \ Std, \A i \in Std : saved'[i] # d
                   PROVE  fds'[d] = base[d]
        BY <2>1 DEF OthersUntouched
      <4>2. d # n /\ \A i \in Std : saved[i] # d
        BY <1>0, <2>1, <3>3, <3>4, <4>1
      <4> QED BY <2>1, <3>4, <4>2 DEF OthersUntouched
    <3>9. MissingCopies'
      <4>1. Free(fds) # {}
        BY <3>2 DEF Free
      <4>2. \A i \in Std : i < k => saved[i] # NoFd
        BY <2>1, <4>1 DEF MissingCopies
      <4>3. \A i \in Std : saved'[i] = NoFd => i > k
        <5> SUFFICES ASSUME NEW i \in Std, saved'[i] = NoFd PROVE i > k
          OBVIOUS
        <5>1. i # k
          BY <3>2, <3>3
        <5>2. ~ (i < k)
          BY <3>4, <4>2, <5>1
        <5> QED BY <1>0, <2>1, <5>1, <5>2
      <4> QED BY <1>0, <2>1, <2>3, <4>3 DEF MissingCopies
    <3>10. StdAtStep'
      BY <1>0, <2>1, <2>2, <2>3, <3>2, <3>3, <3>4 DEF StdAtStep
    <3> QED BY <2>3, <3>7, <3>8, <3>9, <3>10 DEF SavedCopies, Rewired
  <2> QED BY <1>a, <2>1, <2>2, <2>4, <2>5, DupTable
<1>4. CASE Apply
  <2> DEFINE r == cmd.redirs[k]
  <2>1. /\ pc = "apply" /\ pc' = pc /\ base' = base /\ saved' = saved
        /\ CopiesApart /\ OthersUntouched /\ MissingCopies /\ StdAtStep
    BY <1>a, <1>4 DEF Progress, Apply, SavedCopies, Rewired
  <2>2. r \in Redir
    BY <1>a, <1>4, ChainElement DEF Apply, Progress
  <2>10. Target(r) \in Fd => Target(r) \in Std
    BY <2>2, TargetIsStd, Zenon
  <2>3. Free(fds) # {} /\ fds' = Redirected(fds, r)
    BY <1>a, <1>4 DEF Progress, Apply, Opens
  <2>4. \A d \in Std : fds[d] # Closed
    BY <2>1 DEF StdAtStep
  <2>5. /\ \A d \in Fd \ Std : fds'[d] = fds[d]
        /\ \A d \in Std : fds'[d] # Closed
    <3>1. \A d \in Fd : fds'[d] = IF d = Target(r) /\ d # Lowest(fds)
                                  THEN <<r.type, r.file>> ELSE fds[d]
      BY <1>a, <2>2, <2>3, <2>4, RedirectedTable
    <3>2. <<r.type, r.file>> # Closed
      BY <2>2, ClosedAssumption DEF Redir, Object, Opened
    <3> QED BY <1>0, <2>2, <2>4, <2>10, <3>1, <3>2
  <2>6. CopiesApart'
    BY <1>a, <2>1, <2>5 DEF CopiesApart
  <2>7. OthersUntouched'
    BY <2>1, <2>5 DEF OthersUntouched
  <2>8. MissingCopies'
    BY <2>1, <2>3 DEF MissingCopies
  <2>9. StdAtStep'
    BY <2>1, <2>5 DEF StdAtStep
  <2> QED BY <2>1, <2>6, <2>7, <2>8, <2>9 DEF SavedCopies, Rewired
<1>5. CASE ApplyFails
  <2>1. /\ pc = "apply" /\ pc' = "restore" /\ k' = 0
        /\ base' = base /\ saved' = saved /\ fds' = fds
        /\ CopiesApart /\ OthersUntouched /\ MissingCopies /\ StdAtStep
    BY <1>a, <1>5 DEF Progress, ApplyFails, SavedCopies, Rewired
  <2>2. CopiesApart' /\ OthersUntouched' /\ MissingCopies'
    BY <2>1 DEF CopiesApart, OthersUntouched, MissingCopies
  <2>3. StdAtStep'
    BY <1>0, <2>1 DEF StdAtStep
  <2> QED BY <2>1, <2>2, <2>3 DEF SavedCopies, Rewired
<1>6. CASE ApplyEnds
  <2>1. /\ pc = "apply" /\ pc' = "run" /\ cmd' = cmd /\ cmd.redirs # <<>>
        /\ base' = base /\ saved' = saved /\ fds' = fds
        /\ CopiesApart /\ OthersUntouched /\ MissingCopies /\ StdAtStep
    BY <1>a, <1>6 DEF Progress, ApplyEnds, SavedCopies, Rewired
  <2>2. CopiesApart' /\ OthersUntouched' /\ MissingCopies' /\ StdAtStep'
    BY <2>1 DEF CopiesApart, OthersUntouched, MissingCopies, StdAtStep
  <2> QED BY <2>1, <2>2 DEF SavedCopies, Rewired
<1>7. CASE RunInShell
  <2>1. CASE cmd.redirs = <<>>
    BY <1>a, <1>7, <2>1 DEF Progress, RunInShell, SavedCopies, Rewired
  <2>2. CASE cmd.redirs # <<>>
    <3>1. /\ pc = "run" /\ pc' = "restore" /\ k' = 0
          /\ base' = base /\ saved' = saved /\ fds' = fds
          /\ CopiesApart /\ OthersUntouched /\ MissingCopies /\ StdAtStep
      BY <1>a, <1>7, <2>2 DEF Progress, RunInShell, SavedCopies, Rewired
    <3>2. CopiesApart' /\ OthersUntouched' /\ MissingCopies'
      BY <3>1 DEF CopiesApart, OthersUntouched, MissingCopies
    <3>3. StdAtStep'
      BY <1>0, <3>1 DEF StdAtStep
    <3> QED BY <3>1, <3>2, <3>3 DEF SavedCopies, Rewired
  <2> QED BY <2>1, <2>2
<1>8. CASE Restore
  <2>1. /\ pc = "restore" /\ k \in Std /\ base' = base /\ saved' = saved
        /\ fds' = Dup2(fds, saved[k], k)
        /\ CopiesApart /\ OthersUntouched /\ MissingCopies /\ StdAtStep
    BY <1>a, <1>8 DEF Progress, Restore, SavedCopies, Rewired
  <2>2. \/ pc' = "restore" /\ k' = k + 1 /\ k # 2
        \/ pc' = "close" /\ k' = 0 /\ k = 2
    BY <1>a, <1>8 DEF Progress, Restore
  <2>3. /\ fds'[k] = base[k]
        /\ \A d \in Fd : d # k => fds'[d] = fds[d]
    <3>1. CASE saved[k] = NoFd
      BY <1>0, <2>1, <3>1 DEF Dup2, MissingCopies
    <3>2. CASE saved[k] # NoFd
      <4>1. saved[k] \in Fd /\ fds[saved[k]] = base[k] /\ base[k] # Closed
        BY <1>a, <1>0, <2>1, <3>2 DEF CopiesApart
      <4>2. fds' = [fds EXCEPT ![k] = base[k]]
        BY <1>0, <2>1, <4>1 DEF Dup2
      <4> QED BY <1>a, <1>0, <2>1, <4>2 DEF Table
    <3> QED BY <3>1, <3>2
  <2>4. \A d \in Fd \ Std : fds'[d] = fds[d]
    BY <2>1, <2>3
  <2>5. CopiesApart'
    <3>1. \A i \in Std : saved[i] # NoFd => saved[i] \in Fd \ Std
      BY <1>a, <2>1 DEF CopiesApart
    <3>2. pc' = "close" => k' = 0
      BY <2>2
    <3> SUFFICES ASSUME NEW i \in Std, saved[i] # NoFd
                 PROVE  /\ saved[i] \notin Std
                        /\ base[saved[i]] = Closed
                        /\ \A j \in Std : saved[j] = saved[i] => j = i
                        /\ fds'[saved[i]] = base[i]
                        /\ ~ (pc' = "close" /\ i < k')
      BY <2>1 DEF CopiesApart
    <3>3. fds'[saved[i]] = base[i]
      BY <2>1, <2>4, <3>1 DEF CopiesApart
    <3> QED BY <1>0, <2>1, <3>2, <3>3 DEF CopiesApart
  <2>6. OthersUntouched'
    BY <2>1, <2>4 DEF OthersUntouched
  <2>7. MissingCopies'
    BY <1>0, <2>1, <2>2, <2>3 DEF MissingCopies
  <2>8. StdAtStep'
    BY <1>0, <2>1, <2>2, <2>3 DEF StdAtStep
  <2> QED BY <2>2, <2>5, <2>6, <2>7, <2>8 DEF SavedCopies, Rewired
<1>9. CASE CloseSaved
  <2>1. /\ pc = "close" /\ k \in Std /\ base' = base /\ saved' = saved
        /\ fds' = Close(fds, saved[k])
        /\ CopiesApart /\ OthersUntouched /\ MissingCopies /\ StdAtStep
    BY <1>a, <1>9 DEF Progress, CloseSaved, SavedCopies, Rewired
  <2>2. \/ pc' = "close" /\ k' = k + 1 /\ k # 2
        \/ pc' = "done" /\ k = 2
    BY <1>a, <1>9 DEF Progress, CloseSaved
  <2>3. fds' \in Table /\ \A d \in Fd : fds'[d] = IF d = saved[k] THEN Closed ELSE fds[d]
    BY <1>a, <1>0, <2>1, CloseType DEF Close, Table
  <2>4. \A d \in Std : fds'[d] = base[d]
    BY <1>0, <2>1, <2>3 DEF StdAtStep, CopiesApart
  <2>5. \A i \in Std : saved[i] # NoFd /\ i <= k => fds'[saved[i]] = Closed
    <3> SUFFICES ASSUME NEW i \in Std, saved[i] # NoFd, i <= k
                 PROVE  fds'[saved[i]] = Closed
      OBVIOUS
    <3>1. CASE i = k
      BY <1>a, <2>3, <3>1
    <3>2. CASE i # k
      <4>1. i < k
        BY <1>0, <2>1, <3>2
      <4>2. fds[saved[i]] = Closed /\ saved[i] \in Fd
        BY <1>a, <1>0, <2>1, <4>1 DEF CopiesApart
      <4> QED BY <2>3, <4>2
    <3> QED BY <3>1, <3>2
  <2>6. OthersUntouched'
    BY <2>1, <2>3 DEF OthersUntouched
  <2>7. CASE pc' = "close"
    <3>1. k' = k + 1
      BY <2>2, <2>7
    <3>2. CopiesApart'
      BY <1>0, <2>1, <2>5, <2>7, <3>1 DEF CopiesApart
    <3>3. MissingCopies' /\ StdAtStep'
      BY <1>0, <2>1, <2>4, <2>7 DEF MissingCopies, StdAtStep
    <3> QED BY <2>6, <2>7, <3>2, <3>3 DEF SavedCopies, Rewired
  <2>8. CASE pc' = "done"
    <3>1. \A i \in Std : saved[i] # NoFd => fds'[saved[i]] = base[saved[i]]
      <4>1. \A i \in Std : i <= k
        BY <1>0, <2>2, <2>8
      <4> QED BY <2>1, <2>5, <4>1 DEF CopiesApart
    <3>2. \A d \in Fd : fds'[d] = base[d]
      <4> SUFFICES ASSUME NEW d \in Fd PROVE fds'[d] = base[d]
        OBVIOUS
      <4>1. CASE d \in Std
        BY <2>4, <4>1
      <4>2. CASE \E i \in Std : saved[i] = d
        BY <1>0, <3>1, <4>2
      <4>3. CASE d \notin Std /\ \A i \in Std : saved[i] # d
        BY <2>1, <2>6, <4>3 DEF OthersUntouched
      <4> QED BY <4>1, <4>2, <4>3
    <3>3. fds' = base
      BY <1>0, <2>3, <3>2 DEF Table
    <3> QED BY <2>1, <2>8, <3>3 DEF SavedCopies, Rewired
  <2> QED BY <2>2, <2>7, <2>8
<1>10. CASE Fork
  BY <1>10 DEF Fork, SavedCopies, Rewired
<1>11. CASE ForkFails
  BY <1>11 DEF ForkFails, SavedCopies, Rewired
<1>12. CASE ChildApply
  BY <1>12 DEF ChildApply, SavedCopies, Rewired
<1>13. CASE ChildFails
  BY <1>13 DEF ChildFails, SavedCopies, Rewired
<1>14. CASE ChildApplied
  BY <1>14 DEF ChildApplied, SavedCopies, Rewired
<1>15. CASE ChildRuns
  BY <1>15 DEF ChildRuns, SavedCopies, Rewired
<1>16. CASE Reap
  BY <1>16 DEF Reap, SavedCopies, Rewired
<1>17. CASE UNCHANGED vars
  BY <1>17 DEF vars, SavedCopies, Rewired, CopiesApart, OthersUntouched,
               MissingCopies, StdAtStep, Free
<1> QED
  BY <1>1, <1>2, <1>3, <1>4, <1>5, <1>6, <1>7, <1>8, <1>9, <1>10, <1>11,
     <1>12, <1>13, <1>14, <1>15, <1>16, <1>17 DEF Next, ShellStep, ChildStep

(* exec.c:183: with redirections of descriptors 0, 1 and 2 only, whatever  *)
(* their number, order and outcome and however few descriptors are free,   *)
(* the shell is back to its own descriptors when a command is over.        *)
THEOREM Restored ==
    ASSUME StdTargets
    PROVE  Spec => []DescriptorsRestored
<1>1. Init => Typed /\ SavedCopies
  BY TypedInit, SavedCopiesInit
<1>2. Typed /\ SavedCopies /\ [Next]_vars => (Typed /\ SavedCopies)'
  BY TypedNext, SavedCopiesNext
<1>3. Typed /\ SavedCopies => DescriptorsRestored
  BY DEF SavedCopies, Rewired, DescriptorsRestored
<1> QED BY <1>1, <1>2, <1>3, PTL DEF Spec
-----------------------------------------------------------------------------
(* One more redirection in force. *)
LEMMA InForceStep ==
    ASSUME NEW t, NEW u, NEW chain \in Seq(Redir), NEW n \in 1 .. Len(chain),
           InForce(t, chain, n - 1),
           \A d \in Std : u[d] = IF d = Target(chain[n])
                                THEN <<chain[n].type, chain[n].file>> ELSE t[d]
    PROVE  InForce(u, chain, n)
<1> SUFFICES ASSUME NEW d \in Std
             PROVE  /\ \A i \in 1 .. n :
                          Decides(chain, n, d, i) => u[d] = <<chain[i].type, chain[i].file>>
                    /\ (\A i \in 1 .. n : Target(chain[i]) # d) => u[d] = base[d]
  BY DEF InForce
<1>1. ASSUME NEW i \in 1 .. n, Decides(chain, n, d, i)
      PROVE  u[d] = <<chain[i].type, chain[i].file>>
  <2>1. CASE i = n
    BY <1>1, <2>1 DEF Decides
  <2>2. CASE i # n
    <3>1. i \in 1 .. n - 1 /\ n \in i + 1 .. n
      BY <2>2
    <3>2. Target(chain[n]) # d /\ Decides(chain, n - 1, d, i)
      BY <1>1, <3>1 DEF Decides
    <3>3. t[d] = <<chain[i].type, chain[i].file>>
      BY <3>1, <3>2 DEF InForce
    <3> QED BY <3>2, <3>3
  <2> QED BY <2>1, <2>2
<1>2. ASSUME \A i \in 1 .. n : Target(chain[i]) # d
      PROVE  u[d] = base[d]
  <2>1. Target(chain[n]) # d /\ \A i \in 1 .. n - 1 : Target(chain[i]) # d
    BY <1>2
  <2>2. t[d] = base[d]
    BY <2>1 DEF InForce
  <2> QED BY <2>1, <2>2
<1> QED BY <1>1, <1>2

(* What is in force at each step of the two paths. *)
InForceSoFar ==
    /\ pc \in {"apply", "child"} => k <= Len(cmd.redirs) + 1
    /\ pc = "apply" => InForce(fds, cmd.redirs, k - 1)
    /\ pc = "child" => InForce(cfds, cmd.redirs, k - 1)
    /\ pc = "child" => \A d \in Std : cfds[d] # Closed
    /\ RedirectionsInForce

LEMMA InForceInit == Init => InForceSoFar
BY DEF Init, InForceSoFar, RedirectionsInForce

LEMMA NothingInForce ==
    ASSUME NEW t, NEW chain, \A d \in Std : t[d] = base[d]
    PROVE  InForce(t, chain, 0)
BY DEF InForce, Decides

LEMMA InForceNext ==
    ASSUME StdTargets, Typed, SavedCopies, SavedCopies', InForceSoFar, [Next]_vars
    PROVE  InForceSoFar'
<1> USE DEF history
<1>a. /\ fds \in Table /\ cfds \in Table /\ k \in Nat
      /\ TypeOK /\ Progress
  BY DEF Typed, TypeOK
<1>b. cmd.redirs \in Seq(Redir) /\ Len(cmd.redirs) \in Nat
  BY <1>a, RedirsType
<1>c. /\ base \in Table /\ \A d \in Std : base[d] # Closed
      /\ Std \subseteq Fd
  BY <1>a, BootAssumption DEF TypeOK, Std, Fd
<1>1. CASE Read
  <2>1. CASE pc' = "run"
    <3>1. fds' = base /\ base' = base /\ cmd'.redirs = <<>>
      BY <1>1, <2>1 DEF Read, SavedCopies, Rewired
    <3>2. InForce(fds, <<>>, 0)
      BY <1>1, NothingInForce DEF Read, SavedCopies, Rewired
    <3>3. InForce(fds, <<>>, 0)'
      BY <1>1, <3>1, <3>2 DEF Read, InForce
    <3> QED BY <2>1, <3>1, <3>3 DEF InForceSoFar, RedirectionsInForce
  <2>2. CASE pc' # "run"
    BY <1>1, <2>2 DEF Read, InForceSoFar, RedirectionsInForce
  <2> QED BY <2>1, <2>2
<1>2. CASE Loop
  BY <1>2 DEF Loop, InForceSoFar, RedirectionsInForce
<1>3. CASE Save
  <2>1. CASE pc' = "apply"
    <3>1. k' = 1 /\ \A d \in Std : fds'[d] = base'[d]
      <4>1. pc = "save" /\ k = 2 /\ k' = 1 /\ base' = base /\ fds' = Dup(fds, k)
        BY <1>3, <2>1 DEF Save
      <4>2. \A d \in Std : fds[d] = base[d] /\ fds[d] # Closed
        BY <4>1 DEF SavedCopies, Rewired, StdAtStep
      <4>3. k \in Std
        BY <4>1 DEF Std
      <4>4. \A d \in Std : Dup(fds, k)[d] = fds[d]
        BY <1>a, <1>c, <4>2, <4>3, DupTable DEF Table
      <4> QED BY <4>1, <4>2, <4>4
    <3>2. k' <= Len(cmd'.redirs) + 1
      BY <1>3, <1>b, <3>1 DEF Save
    <3>3. InForce(fds, cmd.redirs, k - 1)'
      BY <3>1 DEF InForce
    <3> QED BY <2>1, <3>2, <3>3 DEF InForceSoFar, RedirectionsInForce
  <2>2. CASE pc' # "apply"
    BY <1>3, <2>2 DEF Save, InForceSoFar, RedirectionsInForce
  <2> QED BY <2>1, <2>2
<1>4. CASE Apply
  <2> DEFINE r == cmd.redirs[k]
  <2>1. /\ pc = "apply" /\ pc' = pc /\ cmd' = cmd /\ base' = base /\ k' = k + 1
        /\ fds' = Redirected(fds, r) /\ Free(fds) # {}
        /\ k \in 1 .. Len(cmd.redirs)
    BY <1>4, <1>a, <1>b DEF Apply, Opens, Progress
  <2>2. r \in Redir
    BY <1>b, <2>1
  <2>3. \A d \in Std : fds[d] # Closed
    BY <2>1 DEF SavedCopies, Rewired, StdAtStep
  <2>4. \A d \in Std : Redirected(fds, r)[d] = IF d = Target(r)
                                               THEN <<r.type, r.file>> ELSE fds[d]
    BY <1>a, <1>c, <2>1, <2>2, <2>3, RedirectedStd
  <2>5. InForce(Redirected(fds, r), cmd.redirs, k)
    BY <1>b, <2>1, <2>4, InForceStep DEF InForceSoFar
  <2>6. InForce(fds, cmd.redirs, k - 1)'
    BY <1>a, <2>1, <2>5 DEF InForce, Decides
  <2> QED BY <1>a, <1>b, <2>1, <2>6 DEF InForceSoFar, RedirectionsInForce
<1>5. CASE ApplyFails
  BY <1>5 DEF ApplyFails, InForceSoFar, RedirectionsInForce
<1>6. CASE ApplyEnds
  <2>1. /\ pc = "apply" /\ pc' = "run" /\ cmd' = cmd /\ base' = base /\ fds' = fds
        /\ k - 1 = Len(cmd.redirs)
    BY <1>6, <1>a, <1>b DEF ApplyEnds, InForceSoFar
  <2>2. InForce(fds, cmd.redirs, Len(cmd.redirs))
    BY <2>1 DEF InForceSoFar
  <2>3. InForce(fds, cmd.redirs, Len(cmd.redirs))'
    BY <2>1, <2>2 DEF InForce
  <2> QED BY <2>1, <2>3 DEF InForceSoFar, RedirectionsInForce
<1>7. CASE RunInShell
  BY <1>7 DEF RunInShell, InForceSoFar, RedirectionsInForce
<1>8. CASE Restore
  BY <1>8 DEF Restore, InForceSoFar, RedirectionsInForce
<1>9. CASE CloseSaved
  BY <1>9 DEF CloseSaved, InForceSoFar, RedirectionsInForce
<1>10. CASE Fork
  <2>1. pc' = "child" /\ k' = 1 /\ cmd' = cmd /\ base' = base /\ cfds' = base
    BY <1>10 DEF Fork, SavedCopies, Rewired
  <2>2. InForce(cfds, cmd.redirs, k - 1)'
    BY <2>1 DEF InForce
  <2> QED BY <1>b, <1>c, <2>1, <2>2 DEF InForceSoFar, RedirectionsInForce
<1>11. CASE ForkFails
  BY <1>11 DEF ForkFails, InForceSoFar, RedirectionsInForce
<1>12. CASE ChildApply
  <2> DEFINE r == cmd.redirs[k]
  <2>1. /\ pc = "child" /\ pc' = pc /\ cmd' = cmd /\ base' = base /\ k' = k + 1
        /\ cfds' = Redirected(cfds, r) /\ Free(cfds) # {}
        /\ k \in 1 .. Len(cmd.redirs)
    BY <1>12, <1>a, <1>b DEF ChildApply, Opens, Progress
  <2>2. r \in Redir
    BY <1>b, <2>1
  <2>3. \A d \in Std : cfds[d] # Closed
    BY <2>1 DEF InForceSoFar
  <2>4. \A d \in Std : Redirected(cfds, r)[d] = IF d = Target(r)
                                                THEN <<r.type, r.file>> ELSE cfds[d]
    BY <1>a, <1>c, <2>1, <2>2, <2>3, RedirectedStd
  <2>5. InForce(Redirected(cfds, r), cmd.redirs, k)
    BY <1>b, <2>1, <2>4, InForceStep DEF InForceSoFar
  <2>6. InForce(cfds, cmd.redirs, k - 1)'
    BY <1>a, <2>1, <2>5 DEF InForce, Decides
  <2>7. \A d \in Std : cfds'[d] # Closed
    <3>1. <<r.type, r.file>> # Closed
      BY <2>2, ClosedAssumption DEF Redir, Object, Opened
    <3> QED BY <2>1, <2>3, <2>4, <3>1
  <2> QED BY <1>a, <1>b, <2>1, <2>6, <2>7 DEF InForceSoFar, RedirectionsInForce
<1>13. CASE ChildFails
  BY <1>13 DEF ChildFails, InForceSoFar, RedirectionsInForce
<1>14. CASE ChildApplied
  <2>1. /\ pc = "child" /\ pc' = "image" /\ cmd' = cmd /\ base' = base /\ cfds' = cfds
        /\ k - 1 = Len(cmd.redirs)
    BY <1>14, <1>a, <1>b DEF ChildApplied, InForceSoFar
  <2>2. InForce(cfds, cmd.redirs, Len(cmd.redirs))
    BY <2>1 DEF InForceSoFar
  <2>3. InForce(cfds, cmd.redirs, Len(cmd.redirs))'
    BY <2>1, <2>2 DEF InForce
  <2> QED BY <2>1, <2>3 DEF InForceSoFar, RedirectionsInForce
<1>15. CASE ChildRuns
  BY <1>15 DEF ChildRuns, InForceSoFar, RedirectionsInForce
<1>16. CASE Reap
  BY <1>16 DEF Reap, InForceSoFar, RedirectionsInForce
<1>17. CASE UNCHANGED vars
  BY <1>17 DEF vars, InForceSoFar, RedirectionsInForce, InForce
<1> QED
  BY <1>1, <1>2, <1>3, <1>4, <1>5, <1>6, <1>7, <1>8, <1>9, <1>10, <1>11,
     <1>12, <1>13, <1>14, <1>15, <1>16, <1>17 DEF Next, ShellStep, ChildStep

(* exec.c:34: a command runs with each standard descriptor on the last     *)
(* redirection that names it, in the shell and in a child alike.           *)
THEOREM InForceWhenRun ==
    ASSUME StdTargets
    PROVE  Spec => []RedirectionsInForce
<1> DEFINE I == Typed /\ SavedCopies /\ InForceSoFar
<1>1. Init => I
  BY TypedInit, SavedCopiesInit, InForceInit
<1>2. I /\ [Next]_vars => I'
  BY TypedNext, SavedCopiesNext, InForceNext
<1>3. I => RedirectionsInForce
  BY DEF InForceSoFar
<1> QED BY <1>1, <1>2, <1>3, PTL DEF Spec
-----------------------------------------------------------------------------
(* Which redirections the files bear the traces of, and what becomes of a  *)
(* command one of whose redirections was refused.                          *)
TraceSoFar ==
    /\ pc \in {"ready", "save", "apply", "run", "spawn", "child", "image"} => refused = 0
    /\ pc \in {"save", "spawn"} => files = before
    /\ pc \in {"apply", "child"} => OnlyTraceOf(k - 1)
    /\ refused # 0 => OnlyTraceOf(refused - 1)
    /\ refused # 0 /\ pc \in {"restore", "close"} => ~ok
    /\ refused # 0 /\ pc = "wait" => cstatus = 1
    /\ RefusedStops

LEMMA TraceInit == Init => TraceSoFar
BY DEF Init, TraceSoFar, RefusedStops

LEMMA TraceStep ==
    ASSUME TypeOK, k \in 1 .. Len(cmd.redirs), OnlyTraceOf(k - 1),
           files' = Effect(cmd.redirs[k]), k' = k + 1, cmd' = cmd, before' = before
    PROVE  OnlyTraceOf(k - 1)'
<1> DEFINE r == cmd.redirs[k]
<1>1. r \in Redir /\ files \in [Path -> Content]
  BY ChainElement DEF TypeOK
<1>2. k \in Nat /\ k' - 1 = k
  BY DEF TypeOK
<1> SUFFICES ASSUME NEW p \in Path, files'[p] # before[p]
             PROVE  \E i \in 1 .. k : cmd.redirs[i].file = p /\ cmd.redirs[i].type # "in"
  BY <1>2 DEF OnlyTraceOf
<1>3. CASE files'[p] = files[p]
  <2>1. PICK i \in 1 .. k - 1 : cmd.redirs[i].file = p /\ cmd.redirs[i].type # "in"
    BY <1>3 DEF OnlyTraceOf
  <2> QED BY <1>2, <2>1
<1>4. CASE files'[p] # files[p]
  <2>1. r.file = p /\ r.type # "in"
    BY <1>1, <1>4 DEF Effect, Redir
  <2> QED BY <1>2, <2>1
<1> QED BY <1>3, <1>4

LEMMA TraceNext ==
    ASSUME Typed, TraceSoFar, [Next]_vars
    PROVE  TraceSoFar'
<1> USE DEF history
<1>a. TypeOK /\ Progress /\ k \in Nat /\ refused \in Nat /\ Len(cmd.redirs) \in Nat
  BY RedirsType DEF Typed, TypeOK
<1>1. CASE Read
  BY <1>1 DEF Read, TraceSoFar, RefusedStops
<1>2. CASE Loop
  BY <1>2 DEF Loop, TraceSoFar, RefusedStops
<1>3. CASE Save
  <2>1. CASE pc' = "apply"
    <3>1. files' = before' /\ refused' = 0
      BY <1>3 DEF Save, TraceSoFar
    <3>2. OnlyTraceOf(k - 1)'
      BY <3>1 DEF OnlyTraceOf
    <3> QED BY <2>1, <3>1, <3>2 DEF TraceSoFar, RefusedStops
  <2>2. CASE pc' # "apply"
    BY <1>3, <2>2 DEF Save, TraceSoFar, RefusedStops
  <2> QED BY <2>1, <2>2
<1>4. CASE Apply
  <2>1. OnlyTraceOf(k - 1)'
    BY <1>4, <1>a, TraceStep DEF Apply, TraceSoFar, Progress
  <2> QED BY <1>4, <2>1 DEF Apply, TraceSoFar, RefusedStops
<1>5. CASE ApplyFails
  <2>1. /\ refused' = k /\ cmd' = cmd /\ files' = files /\ before' = before
        /\ ok' = FALSE /\ pc' = "restore" /\ OnlyTraceOf(k - 1)
    BY <1>5 DEF ApplyFails, TraceSoFar
  <2>2. OnlyTraceOf(refused - 1)'
    BY <2>1 DEF OnlyTraceOf
  <2> QED BY <2>1, <2>2 DEF TraceSoFar, RefusedStops
<1>6. CASE ApplyEnds
  BY <1>6 DEF ApplyEnds, TraceSoFar, RefusedStops
<1>7. CASE RunInShell
  <2>1. refused' = 0
    BY <1>7 DEF RunInShell, TraceSoFar
  <2>2. pc' \in {"done", "restore"}
    BY <1>7, Zenon DEF RunInShell
  <2> QED BY <2>1, <2>2 DEF TraceSoFar, RefusedStops
<1>8. CASE Restore
  BY <1>8 DEF Restore, TraceSoFar, RefusedStops, OnlyTraceOf
<1>9. CASE CloseSaved
  BY <1>9 DEF CloseSaved, TraceSoFar, RefusedStops, OnlyTraceOf
<1>10. CASE Fork
  <2>1. files' = before' /\ refused' = 0 /\ pc' = "child"
    BY <1>10 DEF Fork, TraceSoFar
  <2>2. OnlyTraceOf(k - 1)'
    BY <2>1 DEF OnlyTraceOf
  <2> QED BY <2>1, <2>2 DEF TraceSoFar, RefusedStops
<1>11. CASE ForkFails
  BY <1>11 DEF ForkFails, TraceSoFar, RefusedStops
<1>12. CASE ChildApply
  <2>1. OnlyTraceOf(k - 1)'
    BY <1>12, <1>a, TraceStep DEF ChildApply, TraceSoFar, Progress
  <2> QED BY <1>12, <2>1 DEF ChildApply, TraceSoFar, RefusedStops
<1>13. CASE ChildFails
  <2>1. /\ refused' = k /\ cmd' = cmd /\ files' = files /\ before' = before
        /\ cstatus' = 1 /\ pc' = "wait" /\ OnlyTraceOf(k - 1)
    BY <1>13 DEF ChildFails, TraceSoFar
  <2>2. OnlyTraceOf(refused - 1)'
    BY <2>1 DEF OnlyTraceOf
  <2> QED BY <2>1, <2>2 DEF TraceSoFar, RefusedStops
<1>14. CASE ChildApplied
  BY <1>14 DEF ChildApplied, TraceSoFar, RefusedStops
<1>15. CASE ChildRuns
  <2>1. refused' = 0 /\ pc' = "wait"
    BY <1>15 DEF ChildRuns, TraceSoFar
  <2> QED BY <2>1 DEF TraceSoFar, RefusedStops
<1>16. CASE Reap
  BY <1>16 DEF Reap, TraceSoFar, RefusedStops, OnlyTraceOf
<1>17. CASE UNCHANGED vars
  BY <1>17 DEF vars, TraceSoFar, RefusedStops, OnlyTraceOf
<1> QED
  BY <1>1, <1>2, <1>3, <1>4, <1>5, <1>6, <1>7, <1>8, <1>9, <1>10, <1>11,
     <1>12, <1>13, <1>14, <1>15, <1>16, <1>17 DEF Next, ShellStep, ChildStep

(* exec.c:47, 170: a redirection that cannot be opened gives status 1, and *)
(* only the redirections on its left leave a trace in the files.           *)
THEOREM RefusedLeavesNoTrace == Spec => []RefusedStops
<1>1. Init => Typed /\ TraceSoFar
  BY TypedInit, TraceInit
<1>2. Typed /\ TraceSoFar /\ [Next]_vars => (Typed /\ TraceSoFar)'
  BY TypedNext, TraceNext
<1>3. TraceSoFar => RefusedStops
  BY DEF TraceSoFar
<1> QED BY <1>1, <1>2, <1>3, PTL DEF Spec

-----------------------------------------------------------------------------
(* Where exec_redirection sends an exit, and whether it has taken effect.  *)
InShellItself == cmd.literal \/ cmd.redirs = <<>>
ExitSoFar ==
    /\ pc \in {"save", "apply", "run", "spawn", "child", "image", "wait"} => ~exit
    /\ cmd.name = "exit" =>
          /\ pc \in {"save", "apply", "run"} => InShellItself
          /\ pc \in {"spawn", "child", "image", "wait"} => ~InShellItself
          /\ pc \in {"restore", "close", "done"} /\ refused = 0 => (exit <=> InShellItself)

LEMMA ExitInit == Init => ExitSoFar
BY DEF Init, ExitSoFar, Nothing

LEMMA ExitNext ==
    ASSUME Typed, ExitSoFar, [Next]_vars
    PROVE  ExitSoFar'
<1> USE DEF history, InShellItself
<1>a. TypeOK /\ k \in Nat /\ exit \in BOOLEAN
  BY DEF Typed, TypeOK
<1>1. CASE Read
  <2>1. cmd' \in Command /\ exit' = exit /\ ~exit
    BY <1>1 DEF Read
  <2>2. cmd'.name = "exit" =>
           \/ pc' = "save" /\ cmd'.literal
           \/ pc' = "spawn" /\ ~cmd'.literal /\ cmd'.redirs # <<>>
           \/ pc' = "run" /\ cmd'.redirs = <<>>
    BY <1>1 DEF Read, IsBlt, Builtin
  <2>3. pc' \in {"save", "spawn", "run"}
    BY <1>1 DEF Read
  <2> QED BY <2>1, <2>2, <2>3 DEF ExitSoFar
<1>2. CASE Loop
  BY <1>2 DEF Loop, ExitSoFar, Nothing
<1>3. CASE Save
  BY <1>3 DEF Save, ExitSoFar
<1>4. CASE Apply \/ ApplyEnds
  BY <1>4 DEF Apply, ApplyEnds, ExitSoFar
<1>5. CASE ApplyFails
  <2>1. refused' # 0 /\ pc' = "restore"
    BY <1>5, <1>a DEF ApplyFails, Typed, Progress
  <2> QED BY <2>1 DEF ExitSoFar
<1>6. CASE RunInShell
  <2>1. /\ cmd.name = "exit" => exit' = TRUE /\ InShellItself
        /\ cmd' = cmd /\ pc' \in {"done", "restore"}
    BY <1>6 DEF RunInShell, ExitSoFar
  <2> QED BY <2>1 DEF ExitSoFar
<1>7. CASE Restore \/ CloseSaved
  BY <1>7 DEF Restore, CloseSaved, ExitSoFar
<1>8. CASE Fork \/ ForkFails
  BY <1>8 DEF Fork, ForkFails, ExitSoFar
<1>9. CASE ChildApply \/ ChildApplied \/ ChildRuns \/ ChildFails
  BY <1>9 DEF ChildApply, ChildApplied, ChildRuns, ChildFails, ExitSoFar
<1>10. CASE Reap
  BY <1>10 DEF Reap, ExitSoFar
<1>11. CASE UNCHANGED vars
  BY <1>11 DEF vars, ExitSoFar
<1> QED
  BY <1>1, <1>2, <1>3, <1>4, <1>5, <1>6, <1>7, <1>8, <1>9, <1>10, <1>11
     DEF Next, ShellStep, ChildStep

(* exec.c:204-216: an exit that was refused none of its redirections ends  *)
(* the shell, unless it has some and its name comes out of an expansion.   *)
THEOREM ExitIsHeeded == Spec => []ExitTakesEffect
<1>1. Init => Typed /\ ExitSoFar
  BY TypedInit, ExitInit
<1>2. Typed /\ ExitSoFar /\ [Next]_vars => (Typed /\ ExitSoFar)'
  BY TypedNext, ExitNext
<1>3. ExitSoFar => ExitTakesEffect
  BY DEF ExitSoFar, ExitTakesEffect, InShellItself
<1> QED BY <1>1, <1>2, <1>3, PTL DEF Spec

=============================================================================
