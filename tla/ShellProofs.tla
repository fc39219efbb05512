---------------------------- MODULE ShellProofs ----------------------------
(***************************************************************************)
(* Types, statuses, operands and exit, for inputs of any length and        *)
(* programs of any statuses.  The shell drives the parser as the parser's  *)
(* own specification allows (ShellParses), so that its trees are what is   *)
(* proved of them in ParserProofs.                                         *)
(***************************************************************************)
EXTENDS Shell, TLAPS

Byte == 0 .. 255

(* Where each copy of the last status is up to date: status always,        *)
(* exit_code except between a command and Store, and last_code with the    *)
(* line before.  ex_code is what was asked for once exit is set, and from  *)
(* then on no line is begun.                                               *)
Statuses ==
    /\ status = latest /\ latest \in Byte
    /\ spc \in {"call", "parse", "exec"} => exit_code = latest
    /\ exit_code \in Byte
    /\ spc = "call" => last_code = latest
    /\ spc \in {"parse", "exec", "store"} => last_code = before
    /\ last_code \in Byte /\ before \in Byte
    /\ exit \in BOOLEAN
    /\ ~exit => asked = None
    /\ exit => asked \in Byte /\ ex_code = asked /\ spc \in {"exec", "store", "dead"}
    /\ FinalStatus

(* What one command may do to the status and to exit. *)
LEMMA LeafResult ==
    ASSUME Statuses, ~exit, spc = "exec", NEW c, NEW r \in Leaf(c)
    PROVE  /\ r.status \in Byte /\ r.exit \in BOOLEAN
           /\ r.exit => r.ex_code = Asks(c) /\ Asks(c) \in Byte
<1> DEFINE args == Tail(Argv(c))
<1>1. last_code = before /\ last_code \in Byte /\ exit_code \in Byte
  BY DEF Statuses
<1>2. \A w : Numeric(w) => Value(w) \in Byte
  BY <1>1, NumberAssumption DEF Numeric, Value, Byte
<1>3. Asks(c) = IF args = <<>> THEN before
                ELSE IF Numeric(args[1]) THEN Value(args[1]) ELSE 2
  BY DEF Asks
<1> HIDE DEF args
<1>4. ASSUME r \in builtin_exit(args)
      PROVE  /\ r.status \in Byte /\ r.exit \in BOOLEAN
             /\ r.exit => r.ex_code = Asks(c) /\ Asks(c) \in Byte
  <2>1. CASE args = <<>>
    <3>1. r = Exits(0, last_code) /\ Asks(c) = last_code
      BY <1>1, <1>4, <1>3, <2>1, Zenon DEF builtin_exit
    <3> QED BY <1>1, <3>1 DEF Exits, Byte
  <2>2. CASE args # <<>> /\ Len(args) > 1
    <3>1. r = Returns(1)
      BY <1>4, <2>2, Zenon DEF builtin_exit
    <3>2. r.status = 1 /\ r.exit = exit
      BY <3>1 DEF Returns
    <3>3. exit = FALSE
      BY DEF Statuses
    <3>4. r.exit = FALSE
      BY <3>2, <3>3, Zenon
    <3>5. r.status \in Byte
      BY <3>2 DEF Byte
    <3> QED BY <3>4, <3>5, Zenon
  <2>3. CASE args # <<>> /\ ~(Len(args) > 1) /\ Numeric(args[1])
    <3>1. r = Exits(Value(args[1]), Value(args[1])) /\ Asks(c) = Value(args[1])
      BY <1>4, <1>3, <2>3, Zenon DEF builtin_exit
    <3> QED BY <1>2, <2>3, <3>1 DEF Exits
  <2>4. CASE args # <<>> /\ ~(Len(args) > 1) /\ ~Numeric(args[1])
    <3>1. r = Exits(2, 2) /\ Asks(c) = 2
      BY <1>4, <1>3, <2>4, Zenon DEF builtin_exit
    <3> QED BY <3>1 DEF Exits, Byte
  <2> QED BY <2>1, <2>2, <2>3, <2>4
<1>5. ASSUME NEW s \in Code \cup {0, 1}, r = Returns(s)
      PROVE  r.status \in Byte /\ r.exit = FALSE
  BY <1>5, CodeAssumption DEF Returns, Byte
<1>6. r \in builtin_exit(args) \/ \E s \in Code \cup {0, 1} : r = Returns(s)
  BY DEF Leaf, args
<1> QED BY <1>4, <1>5, <1>6

LEMMA PipelineResult ==
    ASSUME Statuses, ~exit, spc = "exec", NEW c, NEW r \in Pipeline(c)
    PROVE  r.status \in Byte /\ r.exit = FALSE
<1>1. PICK s \in {q.status : q \in Leaf(c)} \cup {0, 1} : r = Returns(s)
  BY DEF Pipeline
<1>2. s \in Byte
  BY <1>1, LeafResult DEF Byte
<1> QED BY <1>1, <1>2 DEF Returns

LEMMA StatusesInit == Init => Statuses
<1> SUFFICES ASSUME Init PROVE Statuses
  OBVIOUS
<1>1. /\ spc = "call" /\ status = 0 /\ ex_code = 0 /\ last_code = 0 /\ exit_code = 0
      /\ latest = 0 /\ before = 0 /\ asked = None
  BY DEF Init
<1>2. exit = FALSE
  BY DEF Init
<1>3. exit \in BOOLEAN /\ ~exit
  BY <1>2, Zenon
<1>4. 0 \in Byte
  BY DEF Byte
<1> QED BY <1>1, <1>3, <1>4, Zenon DEF Statuses, FinalStatus

LEMMA RunKeeps == ASSUME Statuses, Run PROVE Statuses'
<1>1. PICK r \in IF End(next) = next THEN Leaf(ast[next]) ELSE Pipeline(ast[End(next)]) :
          /\ status' = r.status /\ exit' = r.exit /\ ex_code' = r.ex_code
          /\ asked' = IF r.exit /\ asked = None THEN Asks(ast[next]) ELSE asked
  BY DEF Run
<1>2. /\ spc = "exec" /\ spc' = "store" /\ ~exit /\ latest' = status'
      /\ UNCHANGED <<last_code, exit_code, result, before>>
  BY DEF Run, MustLeave
<1>3. asked = None /\ last_code = before
  BY <1>2 DEF Statuses
<1>4. /\ r.status \in Byte /\ r.exit \in BOOLEAN
      /\ r.exit => r.ex_code = Asks(ast[next]) /\ Asks(ast[next]) \in Byte
  <2>1. CASE End(next) = next
    BY <1>1, <1>2, <2>1, LeafResult
  <2>2. CASE End(next) # next
    BY <1>1, <1>2, <2>2, PipelineResult
  <2> QED BY <2>1, <2>2
<1>5. ~exit' => asked' = None
  BY <1>1, <1>3
<1>6. exit' => asked' \in Byte /\ ex_code' = asked'
  BY <1>1, <1>3, <1>4
<1> QED BY <1>1, <1>2, <1>3, <1>4, <1>5, <1>6 DEF Statuses, FinalStatus

LEMMA StatusesNext == Statuses /\ [Next]_vars => Statuses'
<1> SUFFICES ASSUME Statuses, [Next]_vars PROVE Statuses'
  OBVIOUS
<1> USE DEF Statuses, FinalStatus
<1>1. CASE ParserInput
  BY <1>1 DEF ParserInput, codes
<1>2. CASE Parse
  BY <1>2 DEF Parse, codes, history
<1>3. CASE Execute
  BY <1>3 DEF Execute, codes, history, parser
<1>4. CASE EndOfInput
  BY <1>4 DEF EndOfInput, codes, history, parser
<1>5. CASE LineDone
  <2>1. /\ spc = "exec" /\ last_code' = status /\ exit_code' = status
        /\ UNCHANGED <<parse_error, status, exit, ex_code, latest, before, asked>>
    BY <1>5 DEF LineDone, history, parser
  <2>2. CASE exit
    <3>1. spc' = "dead" /\ result' = ex_code
      BY <1>5, <2>2 DEF LineDone
    <3>2. asked # None
      BY <2>2 DEF None, Byte
    <3> QED BY <2>1, <2>2, <3>1, <3>2
  <2>3. CASE ~exit
    <3>1. spc' = "call" /\ result' = result
      BY <1>5, <2>3 DEF LineDone
    <3> QED BY <2>1, <2>3, <3>1
  <2> QED BY <2>2, <2>3
<1>6. CASE LeaveAtOnce
  <2>1. /\ exit /\ spc' = "dead" /\ result' = ex_code
        /\ UNCHANGED <<parse_error, status, codes, latest, before, asked>>
    BY <1>6 DEF LeaveAtOnce, MustLeave, history, parser
  <2>2. asked # None
    BY <2>1 DEF None, Byte
  <2> QED BY <2>1, <2>2 DEF codes
<1>7. CASE Run
  BY <1>7, RunKeeps
<1>8. CASE Skip
  BY <1>8 DEF Skip, codes, history, parser
<1>9. CASE Store
  BY <1>9 DEF Store, history, parser
<1>10. CASE UNCHANGED vars
  BY <1>10 DEF vars, parser, codes, history
<1> QED
  BY <1>1, <1>2, <1>3, <1>4, <1>5, <1>6, <1>7, <1>8, <1>9, <1>10 DEF Next

LEMMA StatusesHold == Spec => []Statuses
BY StatusesInit, StatusesNext, PTL DEF Spec

(* The shell ends with the status its first exit asked for, with 2 after a *)
(* syntax error that was flagged, or with the status of the last pipeline  *)
(* it ran (minishell.c:57-70, builtin.c:145-175).                          *)
THEOREM EndsWithStatus == Spec => []FinalStatus
<1>1. Statuses => FinalStatus
  BY DEF Statuses
<1> QED BY StatusesHold, <1>1, PTL

(* $? is the status of the pipeline before, whatever operands, lists and   *)
(* lines lie between (exec.c:309-341).                                     *)
THEOREM DollarQuestionHolds == Spec => []DollarQuestion
<1>1. Statuses => DollarQuestion
  BY DEF Statuses, DollarQuestion
<1> QED BY StatusesHold, <1>1, PTL

(* After exit nothing is run any more (exec.c:346, minishell.c:16).        *)
THEOREM NothingAfterExit == Spec => ExitStops
<1>1. ASSUME Statuses, [Next]_vars, exit PROVE did' = did
  <2>1. CASE ParserInput
    BY <1>1, <2>1 DEF Statuses, ParserInput
  <2>2. CASE Run
    BY <1>1, <2>2 DEF Run, MustLeave
  <2>3. CASE Parse \/ Execute \/ EndOfInput \/ LineDone \/ LeaveAtOnce \/ Skip \/ Store
    BY <2>3 DEF Parse, Execute, EndOfInput, LineDone, LeaveAtOnce, Skip, Store, history
  <2>4. CASE UNCHANGED vars
    BY <2>4 DEF vars, history
  <2> QED BY <1>1, <2>1, <2>2, <2>3, <2>4 DEF Next
<1>2. Statuses /\ [Next]_vars => [exit => did' = did]_vars
  BY <1>1
<1> QED BY StatusesHold, <1>2, PTL DEF Spec, ExitStops

-----------------------------------------------------------------------------
(* The shell's parser is the parser of ParserProofs *)

Parses == INSTANCE ParserProofs

LEMMA ParserAssumptions ==
    /\ TypeOf \in [Token -> Parses!Type]
    /\ \A t \in Token : TypeOf[t] = "eof" <=> t = Eof
BY TypeOfAssumption, EofAssumption DEF Type, Parses!Type

LEMMA ParserInit == Init => Parses!Init
BY DEF Init, Parser!Init, Parses!Init, Parser!NewCommand, Parses!NewCommand

LEMMA ParserStep == Parser!ParseStep => Parses!ParseStep
<1> USE DEF Parser!curr, Parses!curr, Parser!Last, Parses!Last, Parser!Stay, Parses!Stay,
            Parser!tree, Parses!tree, Parser!IsWord, Parses!IsWord,
            Parser!IsRedir, Parses!IsRedir, Parser!NewCommand, Parses!NewCommand
<1>0. Parser!Consume <=> Parses!Consume
  BY DEF Parser!Coming, Parses!Coming, Parser!Consume, Parses!Consume
<1>1. Parser!SkipNewline => Parses!SkipNewline
  BY <1>0, Zenon DEF Parser!SkipNewline, Parses!SkipNewline
<1>2. Parser!NoInput => Parses!NoInput
  BY DEF Parser!NoInput, Parses!NoInput
<1>3. Parser!Descend => Parses!Descend
  BY DEF Parser!Descend, Parses!Descend
<1>4. Parser!Assignment => Parses!Assignment
  BY <1>0, Zenon DEF Parser!Assignment, Parses!Assignment
<1>5. Parser!Word => Parses!Word
  BY <1>0, Zenon DEF Parser!Word, Parses!Word
<1>6. Parser!RedirNb => Parses!RedirNb
  BY <1>0, Zenon DEF Parser!RedirNb, Parses!RedirNb
<1>7. Parser!RedirOp => Parses!RedirOp
  BY <1>0, Zenon DEF Parser!RedirOp, Parses!RedirOp
<1>8. Parser!RedirFile => Parses!RedirFile
  BY <1>0, Zenon DEF Parser!RedirFile, Parses!RedirFile
<1>9. Parser!EndCommand => Parses!EndCommand
  BY DEF Parser!EndCommand, Parses!EndCommand, Parser!Assigned, Parses!Assigned,
         Parser!Max, Parses!Max
<1>10. Parser!Pipe => Parses!Pipe
  BY <1>0, Zenon DEF Parser!Pipe, Parses!Pipe
<1>11. Parser!AndOr => Parses!AndOr
  BY <1>0, Zenon DEF Parser!AndOr, Parses!AndOr
<1>12. Parser!Semi => Parses!Semi
  BY <1>0, Zenon DEF Parser!Semi, Parses!Semi
<1>13. Parser!NextItem => Parses!NextItem
  BY DEF Parser!NextItem, Parses!NextItem
<1>14. Parser!Return => Parses!Return
  BY DEF Parser!Return, Parses!Return
<1>15. Parser!Fail => Parses!Fail
  BY DEF Parser!Fail, Parses!Fail
<1>16. Parser!DoubleSemi => Parses!DoubleSemi
  BY DEF Parser!DoubleSemi, Parses!DoubleSemi
<1>17. Parser!SkipLine => Parses!SkipLine
  BY <1>0, Zenon DEF Parser!SkipLine, Parses!SkipLine
<1>18. Parser!LineSkipped => Parses!LineSkipped
  BY DEF Parser!LineSkipped, Parses!LineSkipped
<1> QED
  BY <1>1, <1>2, <1>3, <1>4, <1>5, <1>6, <1>7, <1>8, <1>9,
     <1>10, <1>11, <1>12, <1>13, <1>14, <1>15, <1>16, <1>17, <1>18, Zenon
  DEF Parser!ParseStep, Parses!ParseStep

LEMMA ParserNext == [Next]_vars => [Parses!Next]_(Parses!parser)
<1> SUFFICES ASSUME [Next]_vars PROVE [Parses!Next]_(Parses!parser)
  OBVIOUS
<1>1. CASE ParserInput
  <2>1. Parses!Call
    BY <1>1 DEF ParserInput, Parser!Call, Parses!Call, Parser!curr, Parses!curr,
                Parser!Last, Parses!Last, Parser!NewCommand, Parses!NewCommand
  <2> QED BY <2>1 DEF Parses!Next
<1>2. CASE Parse
  <2>1. Parses!ParseStep
    BY <1>2, ParserStep DEF Parse
  <2> QED BY <2>1 DEF Parses!Next
<1>3. CASE Execute \/ EndOfInput \/ LineDone \/ LeaveAtOnce \/ Run \/ Skip \/ Store
  <2>1. UNCHANGED parser
    BY <1>3 DEF Execute, EndOfInput, LineDone, LeaveAtOnce, Run, Skip, Store
  <2> QED BY <2>1 DEF parser, Parses!parser, Parses!tree
<1>4. CASE UNCHANGED vars
  BY <1>4 DEF vars, parser, Parses!parser, Parses!tree
<1> QED BY <1>1, <1>2, <1>3, <1>4 DEF Next

(* Whatever the shell does, it calls the parser as the parser's own        *)
(* specification has it called (minishell.c:14-54), so that what is shown  *)
(* of the parser holds of the shell's.                                     *)
THEOREM ShellParses == Spec => Parses!Spec
BY ParserInit, ParserNext, PTL DEF Spec, Parses!Spec

LEMMA ParserHolds == Spec => [](Parses!TypeOK /\ Parses!TreeIsReading)
<1>1. Parses!Spec => []Parses!TypeOK
  BY Parses!TypeCorrect, ParserAssumptions, EofIsToken, MaxTokAssumption,
     NameOfAssumption, UnsetAssumption, PTL
<1>2. Parses!Spec => []Parses!TreeIsReading
  BY Parses!TreeIsTheReading, ParserAssumptions, EofIsToken, MaxTokAssumption,
     NameOfAssumption, UnsetAssumption, PTL
<1> QED BY <1>1, <1>2, ShellParses, PTL

-----------------------------------------------------------------------------
(* The walk over the tree *)

LEMMA MaxIn ==
    ASSUME NEW N \in Nat, NEW S \in SUBSET (1 .. N), S # {}
    PROVE  Max(S) \in S /\ \A n \in S : n <= Max(S)
<1>1. PICK m \in S : \A n \in S : n <= m
  BY Parses!Greatest, ParserAssumptions, EofIsToken, MaxTokAssumption,
     NameOfAssumption, UnsetAssumption
<1>2. m \in S /\ \A n \in S : m >= n
  BY <1>1
<1>3. Max(S) \in S /\ \A n \in S : Max(S) >= n
  BY <1>2, Zenon DEF Max
<1>4. \A n \in S : n \in Nat
  OBVIOUS
<1> QED BY <1>3, <1>4

LastRun(n) == Max({k \in 1 .. n - 1 : Was(k)})

(* An operand was run when it was due. *)
Due(n) ==
    CASE ast[n].join = "pipe" -> ~Was(n)
      [] ast[n].join \in {"first", "semi"} -> Was(n)
      [] OTHER -> Was(n) <=> (ast[n].join = "and" <=> <<LastRun(n), 0>> \in did)

(* The status is that of the last operand that was run. *)
Latest(n) ==
    \E m \in 1 .. n - 1 : <<m, status>> \in did /\ \A k \in 1 .. n - 1 : Was(k) => k <= m

(* next is where a pipeline begins, and did is of what lies before it. *)
InTree ==
    /\ pc = "return"
    /\ next \in 1 .. Len(ast) + 1
    /\ did \subseteq (1 .. next - 1) \X Byte
    /\ \A k, s, t : <<k, s>> \in did /\ <<k, t>> \in did => s = t
    /\ next <= Len(ast) => ast[next].join # "pipe"
    /\ next > 1 => Latest(next)
    /\ \A n \in 1 .. next - 1 : Due(n)

Walk ==
    /\ spc \in {"call", "parse", "exec", "store", "dead"}
    /\ spc = "parse" => next = 1 /\ did = {}
    /\ spc # "parse" => next \in 1 .. Len(ast) + 1 /\ did \subseteq (1 .. Len(ast)) \X Byte
    /\ spc \in {"exec", "store"} => InTree

LEMMA DueIs ==
    ASSUME NEW n
    PROVE  /\ ast[n].join = "pipe" => (Due(n) <=> ~Was(n))
           /\ ast[n].join \in {"first", "semi"} => (Due(n) <=> Was(n))
           /\ ast[n].join \in {"and", "or"} =>
                (Due(n) <=> (Was(n) <=> (ast[n].join = "and" <=> <<LastRun(n), 0>> \in did)))
<1>1. CASE ast[n].join = "pipe"
  BY <1>1 DEF Due
<1>2. CASE ast[n].join \in {"first", "semi"}
  BY <1>2 DEF Due
<1>3. CASE ast[n].join \in {"and", "or"}
  BY <1>3 DEF Due
<1>4. CASE ast[n].join \notin {"pipe", "first", "semi", "and", "or"}
  BY <1>4
<1> QED BY <1>1, <1>2, <1>3, <1>4

Joins == {"first", "semi", "and", "or", "pipe"}

LEMMA TreeJoins ==
    ASSUME Parses!TypeOK, Parses!TreeIsReading, pc = "return"
    PROVE  /\ Len(ast) \in Nat /\ \A n \in 1 .. Len(ast) : ast[n].join \in Joins
           /\ Len(ast) >= 1 => ast[1].join = "first"
<1>1. ast \in Seq(Parses!Commands)
  BY DEF Parses!TypeOK
<1>2. ASSUME NEW n \in 1 .. Len(ast) PROVE ast[n].join \in Joins
  <2>1. ast[n] \in Parses!Commands
    BY <1>1
  <2> QED BY <2>1 DEF Parses!Commands, Parses!Separator, Joins
<1>3. ASSUME Len(ast) >= 1 PROVE ast[1].join = "first"
  <2>1. 1 \in 1 .. Len(ast)
    BY <1>1, <1>3
  <2>2. ast[1] = Parses!Reading(line, 1)
    BY <2>1 DEF Parses!TreeIsReading
  <2> QED BY <2>2 DEF Parses!Reading
<1> QED BY <1>1, <1>2, <1>3

(* A pipeline goes on to where one begins. *)
LEMMA EndIs ==
    ASSUME Len(ast) \in Nat, NEW n \in 1 .. Len(ast)
    PROVE  /\ End(n) \in n .. Len(ast)
           /\ \A k \in n + 1 .. End(n) : ast[k].join = "pipe"
           /\ End(n) + 1 <= Len(ast) => ast[End(n) + 1].join # "pipe"
<1> DEFINE S == {m \in n .. Len(ast) : \A k \in n + 1 .. m : ast[k].join = "pipe"}
<1>1. n \in S
  OBVIOUS
<1>2. S \in SUBSET (1 .. Len(ast))
  OBVIOUS
<1>3. Max(S) \in S /\ \A m \in S : m <= Max(S)
  BY <1>1, <1>2, MaxIn
<1>4. End(n) = Max(S)
  BY DEF End
<1> DEFINE e == End(n)
<1>5. e \in n .. Len(ast) /\ \A k \in n + 1 .. e : ast[k].join = "pipe"
  BY <1>3, <1>4
<1>6. \A m \in S : m <= e
  BY <1>3, <1>4
<1> HIDE DEF e
<1>7. ASSUME e + 1 <= Len(ast), ast[e + 1].join = "pipe" PROVE FALSE
  <2>1. \A k \in n + 1 .. e + 1 : k = e + 1 \/ k \in n + 1 .. e
    BY <1>5
  <2>2. e + 1 \in S
    BY <1>5, <1>7, <2>1
  <2> QED BY <1>5, <1>6, <2>2
<1> QED BY <1>5, <1>7 DEF e

(* Once the first operand was run, some operand before is the last one.    *)
LEMMA LastRunIs ==
    ASSUME InTree, Len(ast) \in Nat, Len(ast) >= 1 => ast[1].join = "first",
           NEW n \in 2 .. next
    PROVE  LastRun(n) \in 1 .. n - 1 /\ Was(LastRun(n))
<1> DEFINE S == {k \in 1 .. n - 1 : Was(k)}
<1>1. next \in 1 .. Len(ast) + 1 /\ Due(1)
  <2>1. next \in 1 .. Len(ast) + 1 /\ 1 \in 1 .. next - 1
    BY DEF InTree
  <2> QED BY <2>1 DEF InTree
<1>2. Was(1)
  <2>1. Len(ast) >= 1
    BY <1>1
  <2> QED BY <1>1, <2>1, DueIs
<1>3. 1 \in S /\ n - 1 \in Nat /\ S \in SUBSET (1 .. n - 1)
  BY <1>2
<1>4. Max(S) \in S
  BY <1>3, MaxIn
<1> QED BY <1>4 DEF LastRun

(* The last operand that was run before next gave the status. *)
LEMMA LastRunStatus ==
    ASSUME InTree, Len(ast) \in Nat, Len(ast) >= 1 => ast[1].join = "first", next > 1
    PROVE  <<LastRun(next), status>> \in did
<1>1. PICK m \in 1 .. next - 1 :
          <<m, status>> \in did /\ \A k \in 1 .. next - 1 : Was(k) => k <= m
  BY DEF InTree, Latest
<1>2. next \in 1 .. Len(ast) + 1 /\ did \subseteq (1 .. next - 1) \X Byte
  BY DEF InTree
<1>3. Was(m)
  <2>1. status \in Byte
    BY <1>1, <1>2
  <2> QED BY <1>1, <2>1 DEF Was, Byte
<1> DEFINE S == {k \in 1 .. next - 1 : Was(k)}
<1>4. m \in S /\ next - 1 \in Nat /\ S \in SUBSET (1 .. next - 1)
  BY <1>2, <1>3
<1>5. Max(S) \in S /\ m <= Max(S)
  BY <1>4, MaxIn
<1>6. Max(S) <= m
  BY <1>1, <1>5
<1>7. Max(S) = m
  BY <1>4, <1>5, <1>6
<1> QED BY <1>1, <1>7 DEF LastRun

(* What happens at next leaves the operands before it what they were. *)
LEMMA DueStays ==
    ASSUME InTree, Len(ast) \in Nat, \A n \in 1 .. Len(ast) : ast[n].join \in Joins,
           Len(ast) >= 1 => ast[1].join = "first",
           ast' = ast, did' = did \/ \E s : did' = did \cup {<<next, s>>},
           NEW n \in 1 .. Len(ast), n <= next
    PROVE  /\ \A k \in 1 .. next - 1 : Was(k)' <=> Was(k)
           /\ LastRun(n)' = LastRun(n)
           /\ n > 1 => (<<LastRun(n), 0>> \in did' <=> <<LastRun(n), 0>> \in did)
           /\ n < next => Due(n)'
<1>1. next \in 1 .. Len(ast) + 1 /\ did \subseteq (1 .. next - 1) \X Byte
  BY DEF InTree
<1>2. ASSUME NEW k \in 1 .. next - 1, NEW s PROVE <<k, s>> \in did' <=> <<k, s>> \in did
  <2>1. k # next
    BY <1>1
  <2> QED BY <2>1
<1>3. \A k \in 1 .. next - 1 : Was(k)' <=> Was(k)
  BY <1>2 DEF Was
<1>4. LastRun(n)' = LastRun(n)
  <2>1. \A k \in 1 .. n - 1 : k \in 1 .. next - 1
    BY <1>1
  <2>2. {k \in 1 .. n - 1 : Was(k)'} = {k \in 1 .. n - 1 : Was(k)}
    BY <1>3, <2>1
  <2> QED BY <2>2 DEF LastRun
<1>5. n > 1 => LastRun(n) \in 1 .. next - 1
  <2>1. n > 1 => n \in 2 .. next
    BY <1>1
  <2>2. n > 1 => LastRun(n) \in 1 .. n - 1
    BY <2>1, LastRunIs
  <2> QED BY <1>1, <2>2
<1>6. n > 1 => (<<LastRun(n), 0>> \in did' <=> <<LastRun(n), 0>> \in did)
  BY <1>2, <1>5
<1>7. ASSUME n < next PROVE Due(n)'
  <2>1. n \in 1 .. next - 1 /\ ast[n].join \in Joins
    BY <1>1, <1>7
  <2>2. Due(n) /\ (Was(n)' <=> Was(n))
    BY <1>3, <2>1 DEF InTree
  <2>3. ast[n].join \in {"and", "or"} => n > 1
    BY <2>1
  <2>4. CASE ast[n].join \in {"pipe", "first", "semi"}
    BY <2>2, <2>4 DEF Due
  <2>5. CASE ast[n].join \in {"and", "or"}
    <3>1. Was(n) <=> (ast[n].join = "and" <=> <<LastRun(n), 0>> \in did)
      BY <2>2, <2>5, DueIs
    <3>2. Was(n)' <=> (ast'[n].join = "and" <=> <<LastRun(n)', 0>> \in did')
      BY <1>4, <1>6, <2>2, <2>3, <2>5, <3>1
    <3> QED BY <2>5, <3>2 DEF Due
  <2> QED BY <2>1, <2>4, <2>5 DEF Joins
<1> QED BY <1>3, <1>4, <1>6, <1>7

(* Selected is what being due means at next. *)
LEMMA SelectedDue ==
    ASSUME InTree, Len(ast) \in Nat, \A n \in 1 .. Len(ast) : ast[n].join \in Joins,
           Len(ast) >= 1 => ast[1].join = "first", next <= Len(ast)
    PROVE  /\ ast[next].join \in Joins \ {"pipe"}
           /\ ~Selected(next) => ast[next].join \in {"and", "or"}
           /\ ast[next].join \in {"and", "or"} =>
                /\ next > 1
                /\ Selected(next) <=>
                     (ast[next].join = "and" <=> <<LastRun(next), 0>> \in did)
<1>1. next \in 1 .. Len(ast) /\ ast[next].join # "pipe"
  BY DEF InTree
<1>2. ast[next].join \in Joins \ {"pipe"}
  BY <1>1
<1>3. ~Selected(next) => ast[next].join \in {"and", "or"}
  BY DEF Selected
<1>4. ASSUME ast[next].join \in {"and", "or"}
      PROVE  /\ next > 1
             /\ Selected(next) <=> (ast[next].join = "and" <=> <<LastRun(next), 0>> \in did)
  <2>1. next > 1
    BY <1>1, <1>4
  <2>2. <<LastRun(next), status>> \in did
    BY <2>1, LastRunStatus
  <2>3. <<LastRun(next), 0>> \in did <=> status = 0
    BY <2>2 DEF InTree
  <2> QED BY <1>4, <2>1, <2>3 DEF Selected
<1> QED BY <1>2, <1>3, <1>4

LEMMA RunWalk ==
    ASSUME Walk, Run, status' \in Byte, Parses!TypeOK, Parses!TreeIsReading
    PROVE  Walk'
<1>0. /\ spc = "exec" /\ next <= Len(ast) /\ Selected(next) /\ spc' = "store"
      /\ next' = End(next) + 1 /\ did' = did \cup {<<next, status'>>}
      /\ UNCHANGED <<pc, ast>>
  BY DEF Run, parser
<1>1. InTree
  BY <1>0 DEF Walk
<1>2. pc = "return"
  BY <1>1 DEF InTree
<1>3. /\ Len(ast) \in Nat /\ \A n \in 1 .. Len(ast) : ast[n].join \in Joins
      /\ Len(ast) >= 1 => ast[1].join = "first"
  BY <1>2, TreeJoins
<1>4. next \in 1 .. Len(ast) /\ did \subseteq (1 .. next - 1) \X Byte
  BY <1>0, <1>1 DEF InTree
<1>5. /\ End(next) \in next .. Len(ast)
      /\ \A k \in next + 1 .. End(next) : ast[k].join = "pipe"
      /\ End(next) + 1 <= Len(ast) => ast[End(next) + 1].join # "pipe"
  BY <1>3, <1>4, EndIs
<1> DEFINE last == End(next)
<1>6. next' \in 1 .. Len(ast') + 1 /\ next' - 1 = last /\ last \in next .. Len(ast)
  <2>1. next' = last + 1 /\ ast' = ast
    BY <1>0
  <2> QED BY <1>3, <1>4, <1>5, <2>1
<1>7. did' \subseteq (1 .. last) \X Byte /\ did' \subseteq (1 .. next) \X Byte
  BY <1>0, <1>4, <1>6
<1> HIDE DEF last
<1>8. \A k, s, t : <<k, s>> \in did' /\ <<k, t>> \in did' => s = t
  <2> SUFFICES ASSUME NEW k, NEW s, NEW t, <<k, s>> \in did', <<k, t>> \in did'
               PROVE  s = t
    OBVIOUS
  <2>1. CASE k = next
    <3>1. \A u : <<next, u>> \notin did
      BY <1>4
    <3> QED BY <1>0, <2>1, <3>1
  <2>2. CASE k # next
    <3>1. <<k, s>> \in did /\ <<k, t>> \in did
      BY <1>0, <2>2
    <3> QED BY <1>1, <3>1 DEF InTree
  <2> QED BY <2>1, <2>2
<1>9. next' <= Len(ast') => ast'[next'].join # "pipe"
  BY <1>0, <1>5
<1>10. \A k : (Was(k)' => k \in 1 .. next) /\ (k = next => Was(k)')
  <2>1. <<next, status'>> \in did' /\ status' \in 0 .. 255
    BY <1>0 DEF Byte
  <2>2. \A k, s : <<k, s>> \in did' => k \in 1 .. next
    BY <1>7
  <2>3. \A k : k = next => \E s \in 0 .. 255 : <<k, s>> \in did'
    BY <2>1
  <2> QED BY <2>2, <2>3 DEF Was
<1>11. Latest(next)'
  <2>1. next \in 1 .. next' - 1 /\ <<next, status'>> \in did'
    BY <1>0, <1>4, <1>6
  <2>2. \A k \in 1 .. next' - 1 : Was(k)' => k <= next
    BY <1>4, <1>10
  <2> QED BY <2>1, <2>2 DEF Latest
<1>12. ASSUME NEW n \in 1 .. last PROVE Due(n)'
  <2>0. did' = did \/ \E s : did' = did \cup {<<next, s>>}
    BY <1>0
  <2>1. CASE n < next
    <3>1. n \in 1 .. Len(ast) /\ n <= next
      BY <1>4, <1>6, <2>1
    <3> QED BY <1>0, <1>1, <1>3, <2>0, <2>1, <3>1, DueStays
  <2>2. CASE n = next
    <3>1. /\ LastRun(n)' = LastRun(n)
          /\ n > 1 => (<<LastRun(n), 0>> \in did' <=> <<LastRun(n), 0>> \in did)
      <4>1. n \in 1 .. Len(ast) /\ n <= next /\ ast' = ast
        BY <1>0, <1>4, <2>2
      <4> QED BY <1>1, <1>3, <2>0, <4>1, DueStays
    <3>2. /\ ast[next].join \in Joins \ {"pipe"}
          /\ ast[next].join \in {"and", "or"} =>
               /\ next > 1
               /\ Selected(next) <=>
                    (ast[next].join = "and" <=> <<LastRun(next), 0>> \in did)
      BY <1>0, <1>1, <1>3, SelectedDue
    <3>3. CASE ast[next].join \in {"first", "semi"}
      <4>1. Was(n)' /\ ast'[n].join \in {"first", "semi"}
        BY <1>0, <1>10, <2>2, <3>3
      <4> QED BY <4>1 DEF Due
    <3>4. CASE ast[next].join \in {"and", "or"}
      <4>1. Was(n)' /\ ast' = ast
        BY <1>0, <1>10, <2>2
      <4>2. ast[n].join = "and" <=> <<LastRun(n), 0>> \in did
        BY <1>0, <2>2, <3>2, <3>4
      <4>3. <<LastRun(n)', 0>> \in did' <=> <<LastRun(n), 0>> \in did
        BY <2>2, <3>1, <3>2, <3>4
      <4>4. Was(n)' <=> (ast'[n].join = "and" <=> <<LastRun(n)', 0>> \in did')
        BY <4>1, <4>2, <4>3
      <4> QED BY <2>2, <3>4, <4>1, <4>4 DEF Due
    <3> QED BY <3>2, <3>3, <3>4 DEF Joins
  <2>3. CASE n > next
    <3>1. ast'[n].join = "pipe"
      BY <1>0, <1>4, <1>5, <1>12, <2>3 DEF last
    <3>2. ~Was(n)'
      BY <1>4, <1>10, <2>3
    <3> QED BY <3>1, <3>2 DEF Due
  <2> QED BY <1>4, <1>6, <2>1, <2>2, <2>3
<1>13. InTree'
  BY <1>0, <1>2, <1>6, <1>7, <1>8, <1>9, <1>11, <1>12 DEF InTree
<1>14. did' \subseteq (1 .. Len(ast')) \X Byte
  BY <1>0, <1>6, <1>7
<1> QED BY <1>0, <1>6, <1>13, <1>14 DEF Walk

LEMMA SkipWalk ==
    ASSUME Walk, Skip, Parses!TypeOK, Parses!TreeIsReading
    PROVE  Walk'
<1>0. /\ spc = "exec" /\ next <= Len(ast) /\ ~Selected(next) /\ spc' = "exec"
      /\ next' = End(next) + 1 /\ did' = did /\ UNCHANGED <<pc, ast, status>>
  BY DEF Skip, parser, history
<1>1. InTree
  BY <1>0 DEF Walk
<1>2. pc = "return"
  BY <1>1 DEF InTree
<1>3. /\ Len(ast) \in Nat /\ \A n \in 1 .. Len(ast) : ast[n].join \in Joins
      /\ Len(ast) >= 1 => ast[1].join = "first"
  BY <1>2, TreeJoins
<1>4. next \in 1 .. Len(ast) /\ did \subseteq (1 .. next - 1) \X Byte
  BY <1>0, <1>1 DEF InTree
<1>5. /\ End(next) \in next .. Len(ast)
      /\ \A k \in next + 1 .. End(next) : ast[k].join = "pipe"
      /\ End(next) + 1 <= Len(ast) => ast[End(next) + 1].join # "pipe"
  BY <1>3, <1>4, EndIs
<1> DEFINE last == End(next)
<1>6. next' \in 1 .. Len(ast') + 1 /\ next' - 1 = last /\ last \in next .. Len(ast)
  BY <1>0, <1>3, <1>4, <1>5
<1>7. did' \subseteq (1 .. last) \X Byte
  BY <1>0, <1>4, <1>6
<1> HIDE DEF last
<1>8. next' <= Len(ast') => ast'[next'].join # "pipe"
  BY <1>0, <1>5
<1>9. \A k : Was(k) => k \in 1 .. next - 1
  BY <1>4 DEF Was
<1>10. \A k : Was(k)' <=> Was(k)
  BY <1>0 DEF Was
<1>11. /\ ast[next].join \in {"and", "or"} /\ next > 1
       /\ ~(ast[next].join = "and" <=> <<LastRun(next), 0>> \in did)
  BY <1>0, <1>1, <1>3, SelectedDue
<1>12. Latest(next)'
  <2>1. PICK m \in 1 .. next - 1 :
            <<m, status>> \in did /\ \A k \in 1 .. next - 1 : Was(k) => k <= m
    BY <1>1, <1>11 DEF InTree, Latest
  <2>2. m \in 1 .. next' - 1 /\ <<m, status'>> \in did'
    BY <1>0, <1>4, <1>6, <2>1
  <2>3. \A k \in 1 .. next' - 1 : Was(k)' => k <= m
    BY <1>9, <1>10, <2>1
  <2> QED BY <2>2, <2>3 DEF Latest
<1>13. ASSUME NEW n \in 1 .. last PROVE Due(n)'
  <2>0. did' = did \/ \E s : did' = did \cup {<<next, s>>}
    BY <1>0
  <2>1. CASE n < next
    <3>1. n \in 1 .. Len(ast) /\ n <= next
      BY <1>4, <1>6, <2>1
    <3> QED BY <1>0, <1>1, <1>3, <2>0, <2>1, <3>1, DueStays
  <2>2. CASE n = next
    <3>1. LastRun(n)' = LastRun(n)
      BY <1>0, <1>1, <1>3, <1>4, <2>0, <2>2, DueStays
    <3>2. ~Was(n)'
      BY <1>4, <1>9, <1>10, <2>2
    <3>3. Was(n)' <=> (ast'[n].join = "and" <=> <<LastRun(n)', 0>> \in did')
      BY <1>0, <1>11, <2>2, <3>1, <3>2
    <3> QED BY <1>0, <1>11, <2>2, <3>3 DEF Due
  <2>3. CASE n > next
    <3>1. ast'[n].join = "pipe"
      BY <1>0, <1>4, <1>5, <1>13, <2>3 DEF last
    <3>2. ~Was(n)'
      BY <1>4, <1>9, <1>10, <2>3
    <3> QED BY <3>1, <3>2 DEF Due
  <2> QED BY <1>4, <1>6, <2>1, <2>2, <2>3
<1>14. \A k, s, t : <<k, s>> \in did' /\ <<k, t>> \in did' => s = t
  BY <1>0, <1>1 DEF InTree
<1>15. InTree'
  BY <1>0, <1>2, <1>6, <1>7, <1>8, <1>12, <1>13, <1>14 DEF InTree
<1>16. did' \subseteq (1 .. Len(ast')) \X Byte
  BY <1>0, <1>6, <1>7
<1> QED BY <1>0, <1>6, <1>15, <1>16 DEF Walk

LEMMA InTreeStays ==
    ASSUME InTree, UNCHANGED <<pc, ast, next, did, status>>
    PROVE  InTree'
<1>1. ASSUME NEW n PROVE Was(n)' <=> Was(n)
  BY DEF Was
<1>2. ASSUME NEW n PROVE LastRun(n)' = LastRun(n)
  <2>1. {k \in 1 .. n - 1 : Was(k)'} = {k \in 1 .. n - 1 : Was(k)}
    BY <1>1
  <2> QED BY <2>1 DEF LastRun
<1>3. ASSUME NEW n, Due(n) PROVE Due(n)'
  BY <1>1, <1>2, <1>3, Zenon DEF Due
<1>4. next > 1 => Latest(next)'
  <2>1. next > 1 => \E m \in 1 .. next - 1 : <<m, status>> \in did
                                    /\ \A k \in 1 .. next - 1 : Was(k) => k <= m
    BY DEF InTree, Latest
  <2> QED BY <1>1, <2>1 DEF Latest
<1>5. \A n \in 1 .. next' - 1 : Due(n)'
  BY <1>3 DEF InTree
<1>6. /\ pc' = "return" /\ next' \in 1 .. Len(ast') + 1
      /\ did' \subseteq (1 .. next' - 1) \X Byte
      /\ \A k, s, t : <<k, s>> \in did' /\ <<k, t>> \in did' => s = t
      /\ next' <= Len(ast') => ast'[next'].join # "pipe"
  BY DEF InTree
<1> QED BY <1>4, <1>5, <1>6 DEF InTree

LEMMA WalkNext ==
    Walk /\ Statuses' /\ Parses!TypeOK /\ Parses!TreeIsReading /\ [Next]_vars => Walk'
<1> SUFFICES ASSUME Walk, Statuses', Parses!TypeOK, Parses!TreeIsReading, [Next]_vars
             PROVE  Walk'
  OBVIOUS
<1>0. status' \in Byte
  BY DEF Statuses
<1>1. CASE ParserInput
  BY <1>1 DEF ParserInput, Walk
<1>2. CASE Parse
  <2>1. spc = "parse" /\ UNCHANGED <<spc, next, did>>
    BY <1>2 DEF Parse, history
  <2> QED BY <2>1 DEF Walk
<1>3. CASE Execute
  <2>1. /\ spc = "parse" /\ pc = "return" /\ spc' = "exec"
        /\ UNCHANGED <<pc, ast, next, did>>
    BY <1>3 DEF Execute, parser, history
  <2>2. next = 1 /\ did = {}
    BY <2>1 DEF Walk
  <2>3. Len(ast) \in Nat /\ (Len(ast) >= 1 => ast[1].join = "first")
    BY <2>1, TreeJoins
  <2>4. next' \in 1 .. Len(ast') + 1 /\ ~(next' > 1) /\ 1 .. next' - 1 = {}
    BY <2>1, <2>2, <2>3
  <2>5. next' <= Len(ast') => ast'[next'].join # "pipe"
    BY <2>1, <2>2, <2>3
  <2>6. InTree'
    BY <2>1, <2>2, <2>4, <2>5 DEF InTree
  <2> QED BY <2>1, <2>2, <2>4, <2>6 DEF Walk
<1>4. CASE EndOfInput
  <2>1. spc = "parse" /\ spc' = "dead" /\ UNCHANGED <<ast, next, did>>
    BY <1>4 DEF EndOfInput, parser, history
  <2>2. next = 1 /\ did = {}
    BY <2>1 DEF Walk
  <2>3. Len(ast) \in Nat
    BY DEF Parses!TypeOK
  <2> QED BY <2>1, <2>2, <2>3 DEF Walk
<1>5. CASE LineDone \/ LeaveAtOnce
  <2>1. spc = "exec" /\ spc' \in {"call", "dead"} /\ UNCHANGED <<ast, next, did>>
    BY <1>5 DEF LineDone, LeaveAtOnce, parser, history
  <2> QED BY <2>1 DEF Walk
<1>6. CASE Run
  BY <1>0, <1>6, RunWalk
<1>7. CASE Skip
  BY <1>7, SkipWalk
<1>8. CASE Store
  <2>1. spc = "store" /\ spc' = "exec" /\ UNCHANGED <<pc, ast, next, did, status>>
    BY <1>8 DEF Store, parser, history
  <2>2. InTree
    BY <2>1 DEF Walk
  <2>3. InTree'
    BY <2>1, <2>2, InTreeStays
  <2> QED BY <2>1, <2>3 DEF Walk
<1>9. CASE UNCHANGED vars
  <2>1. UNCHANGED <<pc, ast, spc, next, did, status>>
    BY <1>9 DEF vars, parser, history
  <2> QED BY <2>1, InTreeStays DEF Walk
<1> QED BY <1>1, <1>2, <1>3, <1>4, <1>5, <1>6, <1>7, <1>8, <1>9 DEF Next

LEMMA WalkInit == Init => Walk
<1> SUFFICES ASSUME Init PROVE Walk
  OBVIOUS
<1>1. spc = "call" /\ next = 1 /\ did = {} /\ ast = <<>>
  BY DEF Init, Parser!Init
<1>2. Len(ast) = 0
  BY <1>1
<1> QED BY <1>1, <1>2 DEF Walk

LEMMA WalkHolds == Spec => []Walk
BY WalkInit, WalkNext, StatusesHold, ParserHolds, PTL DEF Spec

(* OperandsRunWhenDue, for trees of any size: an operand is run exactly    *)
(* when the last one that was run says so (exec.c:309-341).                *)
THEOREM OperandsDue == Spec => []OperandsRunWhenDue
<1>1. Walk => OperandsRunWhenDue
  BY DEF Walk, InTree, OperandsRunWhenDue, Due, LastRun
<1> QED BY <1>1, WalkHolds, PTL

-----------------------------------------------------------------------------
(* Types *)

Codes == ex_code \in Byte /\ result \in -1 .. 255 /\ asked \in -1 .. 255

(* Without exit a command leaves ex_code alone. *)
LEMMA LeafCode ==
    ASSUME NEW c, NEW r \in Leaf(c) \cup Pipeline(c)
    PROVE  r.exit = TRUE \/ r.ex_code = ex_code
<1>1. (\E s, d : r = Exits(s, d)) \/ (\E s : r = Returns(s))
  BY DEF Leaf, Pipeline, builtin_exit
<1> QED BY <1>1 DEF Exits, Returns

LEMMA CodesNext == Codes /\ Statuses /\ Statuses' /\ [Next]_vars => Codes'
<1> SUFFICES ASSUME Codes, Statuses, Statuses', [Next]_vars PROVE Codes'
  OBVIOUS
<1>1. CASE Run
  <2>1. PICK r \in IF End(next) = next THEN Leaf(ast[next]) ELSE Pipeline(ast[End(next)]) :
            exit' = r.exit /\ ex_code' = r.ex_code
    BY <1>1 DEF Run
  <2>2. result' = result
    BY <1>1 DEF Run
  <2>3. exit' = TRUE \/ ex_code' = ex_code
    BY <2>1, LeafCode
  <2>4. exit' => asked' \in Byte /\ ex_code' = asked'
    BY DEF Statuses
  <2>5. ~exit' => asked' = None
    BY DEF Statuses
  <2>6. asked' \in -1 .. 255
    BY <2>4, <2>5 DEF Byte, None
  <2>7. ex_code' \in Byte
    BY <2>3, <2>4 DEF Codes
  <2> QED BY <2>2, <2>6, <2>7 DEF Codes
<1>2. CASE EndOfInput
  <2>1. result' = (IF parse_error THEN 2 ELSE status) /\ UNCHANGED <<ex_code, asked>>
    BY <1>2 DEF EndOfInput, codes, history
  <2>2. status \in 0 .. 255
    BY DEF Statuses, Byte
  <2>3. result' \in -1 .. 255
    BY <2>1, <2>2
  <2> QED BY <2>1, <2>3 DEF Codes
<1>3. CASE LineDone \/ LeaveAtOnce
  <2>1. (result' = ex_code \/ result' = result) /\ UNCHANGED <<ex_code, asked>>
    BY <1>3 DEF LineDone, LeaveAtOnce, codes, history
  <2>2. result' \in -1 .. 255
    BY <2>1 DEF Codes, Byte
  <2> QED BY <2>1, <2>2 DEF Codes
<1>4. CASE ParserInput \/ Parse \/ Execute \/ Skip \/ Store \/ UNCHANGED vars
  <2>1. UNCHANGED <<ex_code, result, asked>>
    BY <1>4 DEF ParserInput, Parse, Execute, Skip, Store, vars, codes, history
  <2> QED BY <2>1 DEF Codes
<1> QED BY <1>1, <1>2, <1>3, <1>4 DEF Next

LEMMA CodesInit == Init => Codes
<1> SUFFICES ASSUME Init PROVE Codes
  OBVIOUS
<1>1. ex_code = 0 /\ result = -1 /\ asked = -1
  BY DEF Init, None
<1> QED BY <1>1 DEF Codes, Byte

(* TypeOK: the walk never leaves the tree, and every status is a byte, of  *)
(* whatever programs and over however many lines (exec.c:311-369).         *)
THEOREM TypeCorrect == Spec => []TypeOK
<1>1. Spec => []Codes
  BY CodesInit, CodesNext, StatusesHold, PTL DEF Spec
<1>2. Parses!TypeOK => Parser!TypeOK
  BY DEF Parses!TypeOK, Parser!TypeOK, Parses!Commands, Parser!Commands,
         Parses!Position, Parser!Position, Parses!Separator, Parser!Separator
<1>3. ASSUME Parses!TypeOK, Statuses, Codes, Walk PROVE TypeOK
  <2>1. /\ status \in 0 .. 255 /\ exit \in BOOLEAN /\ ex_code \in 0 .. 255
        /\ last_code \in 0 .. 255 /\ exit_code \in 0 .. 255 /\ result \in -1 .. 255
        /\ {latest, before} \subseteq 0 .. 255 /\ asked \in -1 .. 255
    BY <1>3 DEF Statuses, Codes, Byte
  <2>2. Len(ast) \in Nat
    BY <1>3 DEF Parses!TypeOK
  <2>3. /\ spc \in {"call", "parse", "exec", "store", "dead"}
        /\ next \in 1 .. Len(ast) + 1 /\ did \subseteq (1 .. Len(ast)) \X (0 .. 255)
    BY <1>3, <2>2 DEF Walk, Byte
  <2> QED BY <1>2, <1>3, <2>1, <2>3 DEF TypeOK
<1>4. Parses!TypeOK /\ Statuses /\ Codes /\ Walk => TypeOK
  BY <1>3
<1> QED BY <1>1, <1>4, ParserHolds, StatusesHold, WalkHolds, PTL

=============================================================================
