# Formal model of minishell and of the Yakamon game server

The repository holds two programs: `src/src`, a POSIX-like shell in C
("minishell"), and `src/yakamon`, a small REST game server in Java (Quarkus,
Hibernate, PostgreSQL). This directory holds TLA+ models of both, the TLC runs
that check them and the TLAPS proofs about them. `PROJECT.json` lists runs,
mutants (one plausible bug per property, which the property must catch),
theorems, findings, hazards, and the source lines every definition stands for.

## 1. Inventory

### The shell

| Part (source) | State | Operations | Talks to |
|---|---|---|---|
| main, `run_shell` (`minishell.c`) | status of the last line | read a line, execute it, store its status, end | parser, executor |
| parser (`parser/parser.c`) | `curr_tok`, variables, `parse_error`, `exit`, `ex_code`, `last_code` | recursive descent: list, and-or, pipeline, simple command, redirection; applies assignments while it parses | lexer (pop), tree, variables and environment |
| tree (`ast/`) | nodes | create, free | made by the parser, walked by the executor |
| executor (`exec/exec.c`) | `g_parser`; the shell's descriptors | `exec_ast` over lists, and-or, pipelines, redirections, commands | builtins, expansion, fork/exec/wait, pipes |
| builtins (`builtin/builtin.c`) | writes `exit`, `ex_code`; working directory | echo, exit, cd, kill | parser state, expansion, stdout, stdio's buffer |
| expansion (`expansion/expansion.c`) | the buffer of the word under expansion | `$?`, `$VAR`, `${VAR}`, `${?}`, `\001`, words in `'...'` | called by the executor and once more by echo; variables, environment, `special` |
| `special` | `exit_code`, the value of `$?` | create, free | written by the executor and `run_shell`, read by the expansion |
| lexer (`lexer/lexer.c`) | one token of look-ahead | peek, pop; quotes, comments, numbers before redirections | input |
| input (`io_backend/`) | one `FILE *`, read ahead in blocks | next, peek, open, close | script, `-c` string or stdin, whose offset children share |
| debug printer (`debug/`) | none | prints trees | called from nowhere |

Hard behaviours: the descriptor table while builtins are redirected in the
shell itself; processes and pipe ends of a pipeline; flags (`exit`,
`parse_error`) and two copies of "the last status" that are written at different
moments; a parser that goes on after errors and has side effects; text that is
quoted, unquoted, expanded and expanded again by parts that do not tell each other what a
character meant; buffers of the C library that `fork` copies and `_exit` throws away. There are no
threads and no signal handlers; concurrency is that of the forked processes.

What makes each part correct:

- redirections: the shell gets its descriptors back, whatever fails; a command
  runs with its redirections in force; a refused one stops what is behind it;
- pipelines: every process holds exactly the pipe ends it needs, end of file and
  SIGPIPE come when due, the call returns, with the last stage's status;
- parser: the tree is what the line says, nothing well-formed is dropped, NULL is
  returned for a reason, the input is consumed;
- shell and executor: the right operands run, `$?` is the last status, exit
  stops everything, the shell ends with the right status;
- lexer: every character ends up in one token, quotes hold words together, operators are found,
  `pop` returns;
- expansion: every reference is replaced by its value, read once per call and no further than
  it goes, inside the buffer; arguments are what their text means;
- builtins: options, backslashes and numbers are read as they should be; `cd` and `exit` count for the
  shell unless they are in a pipeline;
- input and output: a line is executed or read, once; what is printed lands once, in order, in
  the right file.

### Yakamon

`GameResource`, `PlayerResource`, `InventoryResource` and `TeamResource` are REST
endpoints; behind each a service and repositories over PostgreSQL tables
(player, item, game, yakamon). `POST /start` is one transaction: it clears three
tables, creates a player, reads a map file and creates a game. The `GET`
endpoints ask `isRunning` and then read their table, with no transaction around
both. Requests run concurrently, so starts overlap with starts and with reads;
the map file may be missing after the tables were cleared. Correct means: a player
and a game exist together, no request sees half a start, starts do not block
each other for ever.

The rest of the repository is tests (`tests/`, read as a statement of what is
expected), a compiled binary and archives of unrelated exercises.

## 2. Modules

| Module | Models | Extends or instantiates |
|---|---|---|
| `Descriptors` | descriptor table: open, dup, dup2, close | |
| `Redirection` | `exec_redirection` for builtins and programs | `Descriptors` |
| `RedirectionProofs` | theorems about it | `Redirection`, TLAPS |
| `PipelineAbs` | what `exec_pipeline` promises its caller | |
| `Pipeline` | `fork_pipeline`, `exec_child`, `wait_pipeline`, pipes | instantiates `PipelineAbs` as a refinement |
| `PipelineProofs` | theorems about it | `Pipeline`, TLAPS |
| `Grammar` | token types; the declarative meaning of a line | |
| `Parser` | `parser_input` | `Grammar` |
| `ParserProofs` | theorems about it | `Parser`, TLAPS |
| `Shell` | `run_shell`, `exec_ast`, lists, and-or, exit, `$?` | `Grammar`, instantiates `Parser` |
| `ShellProofs` | theorems about it, with those of the parser | `Shell`, TLAPS, instantiates `ParserProofs` |
| `Lexer` | `pop` and the input behind it | |
| `Variables` | classes of characters, variables and environment, `find_var` | |
| `ExpansionAbs` | what `expand` promises: the meaning of a word | `Variables` |
| `Expansion` | `expand`, with its buffer | `Variables`, instantiates `ExpansionAbs` as a refinement |
| `Command` | `exec_command` on one command: its arguments expanded, `echo` | `Expansion` |
| `CommandProofs` | theorems about both | `Command`, TLAPS |
| `Quoting` | text, tokens, arguments, echo | `Lexer`, instantiates `Command` |
| `QuotingProofs` | theorems about the lexer, and about the composition | `Quoting`, TLAPS, instantiates `CommandProofs` |
| `Session` | stdio, forks, `cd`, `exit`, `kill` and `main` over a script | |
| `SessionProofs` | theorems about it | `Session`, TLAPS |
| `Game` | `/start`, `/player`, `/inventory` on PostgreSQL | |
| `GameProofs` | theorems about it | `Game`, TLAPS |
| `MC...` | constants for TLC, nothing else | the module they are named after |

Definitions called a "Slip" in a comment are the mutants: an action as a plausible
bug would have it, next to the action as it is.

### Redirection

`fds` is the shell's table, `cfds` that of the child it forked, `files` what the
files hold, `cmd` the command with its chain of redirections, outermost first as
in the tree. The control point `pc` follows `exec_redir_builtin` (`save` the
three copies, `apply` one redirection after the other, `run`, `restore`, `close`) or
`exec_redir_external` (`spawn`, then in the child `child`, `image`, and `wait` in
the shell). The result of every `open`, `dup`, `dup2` and `fork` depends on the table
and the files, so that "table full", "no such file" and "not permitted" all occur;
`fork` may fail at any time. A file is `absent`, `empty` or has `data`.
`cmd.literal` says whether the first word is the builtin's name as it is written or
only after expansion, the difference `exec_redirection` and `exec_command` disagree
about. The inductive invariant is `SavedCopies`.

### Pipeline and PipelineAbs

One call of `exec_pipeline` with `N >= 2` stages. The shell's `ppc` follows
`fork_pipeline` (`pipe`, `fork`, `shut` = close `prev_fd`, `next` = close the write
end) and `wait_pipeline` (`wait`); `hold` is the set of pipe ends each process has
open beyond its standard descriptors, `sin` and `sout` what those are on. A stage is one process
together with the descendants that run its command: they hold the same ends. What
it runs is one of four kinds (source, filter, head, endless), which is all that pipes
can tell apart. The kernel blocks a writer on a full pipe and a reader on an empty
one that still has a writer, and sends SIGPIPE when there is no reader. A signal may
end a stage at any time. One descriptor stands for stdin, one for stdout; stderr is not
touched by this code. Descriptors 0, 1 and 2 are open when the shell starts.

### Grammar and Parser

Tokens are produced when the parser pops them, nondeterministically: a behaviour is
a run on every input at once. A number in front of a redirection
is only produced when a redirection follows, as `redir_nb` of the lexer does; after the end of the
input only `TOK_EOF` comes. The three redirection operators are one type for the
parser does the same for each. The tree is flattened: each command with the operator
that joins it to what is before, which determines the tree, as `|` binds tighter than `&&`
and `||`, which are of one precedence and associate to the left, and `;` binds least.
Words are their positions, so that a property can say which word went
where. Assignments are a type of their own (a word that `is_assignment` accepts), and
`var` holds for each name the assignment its value is from. `Grammar` defines what
a line means without any control flow: cuts at separators, spans between them, operands,
arguments. `TreeIsReading` compares the two.

### Lexer

The input is a sequence of classes of characters, those that some test of the lexer tells
apart; `pos` is the next character of the stream behind `io_backend_next` and `io_backend_peek`, and `At(pos - 1)`
is the `c` that was taken last. `pc` says which function reads on: `redir_nb` (`number`), `comment_tok`
(`comment`), `read_tok` (`word`), `double_quote` and `single_quote` (`double`, `single`); a step is one turn of
its loop. A token's value is kept as positions of the input, so that losing, doubling and moving a character are
visible. `Mode` is a reading of the text that knows nothing of tokens, only what quotes and backslashes make of
what is behind them; the properties compare the two for texts without an unquoted `#`, which the lexer
takes for a comment only at the start of a word and otherwise drops. `OperatorsSeen` compares kinds in both directions:
`Sign` is the character each operator token is written with, `Tokenized` says of a position that it lies in a token
written with its character, and the tokens of operators lie on nothing else. `&&` is the operator that `read_tok` does
not stop at: within a word it is a part of the word. `Parser` does not instantiate `Lexer`: it draws
tokens freely, which covers every input, and relies on `TokensForParser`. `marked` holds the positions of
`$` signs for which `double_quote` leaves the byte `\001`.

### Expansion and Command

`word` is the argument of `expand`, `idx` the index of its next character, `res` the characters
in `ctx.res` and `sz` its size; `rest` is what `copy` has left of a value, so that
a step is one turn of a loop of the code and the buffer grows between two characters.
A name is looked for in one step, as nothing else happens meanwhile. `XNext` leaves
the callers open (any word at any time); `Command` is the one caller the code has, twice:
`expand_args` for each word, and `builtin_echo` for each that it prints. Characters are those
some test names (`$ { } ? '`, `\001`), classes of letters and digits, and others. `ExpansionAbs` has no
index and no buffer: it says of each position of the word whether a reference covers it, and what
the others stand for; `Expanded` is the refinement. `OutputRead` compares what echo prints with
a reading of the expanded words, their options and backslashes that has no loop.

### Quoting

The composition `Lexer`, `Expansion`, `echo` on one text, which is also how TLC checks `Expansion` and `Command`:
`Lexing` is a step of the lexer, `Execute`
hands the words of a text without operators to `Command` with the values the tokens have, and what the
lexer knew of quotes is gone. `Meant` reads the text again, by the quotes in front of each `$`, with a
character that is never part of a reference wherever the lexer takes a quote or a backslash away
(`Gapped`), and `ArgumentsMeant` says when the arguments are just that. Where they cannot be is spelled out in
the property: a `$` in single quotes or behind a bare backslash, a quote or backslash inside of what is read as
one reference (`Glued`), and an argument that is itself enclosed in quotes.

`Glued` looks at the reference `expand` finds, wherever it ends. An earlier form, a quote at the end of a name, was
both too wide and, as its proof showed, too narrow: with an environment variable of the name `&&` the text `${&""&}`
means no variable and is read as one, without a name that ends at the quotes. TLC shows the same on an
instance with such a variable.

### Session

A script is a sequence of lines, each one command in one of five places: alone, behind a program that fails
(`false; cmd`), with its output redirected, first or last of two stages of a pipeline. The program that fails
leaves nothing behind but its status, which is in `$?` and not yet in `last_code`, so that `cmd` runs as if it
were alone. `next` to `lim - 1` are the lines read
ahead, `off` is the file's offset, which a program that reads stdin shares when the script is
stdin. `proc` is the memory of the shell and of its child: what stdout has buffered, how it
buffers, descriptor 1, the working directory, the flag and code of exit. `fork` copies
all of it; `_exit` and `exec` forget the buffer; returning from `main` writes it. `files`
tells for each text that reached a file which line printed it and which process wrote it, so that texts
that are lost, doubled or in the wrong place are visible. Builtins in a pipeline run in the
child: their buffer, directory and flag end with it. A pipeline's other stage is not of interest here, `Pipeline`
is about it. `exit` converts its argument in an int that wraps around, which is what the compiled
shell does with a signed overflow (undefined in C). It stops at a `+`, which the test of the argument has let
through: `ExitStatus` says 0 for it. A shell that signals itself is taken to end at once. A text is
flushed at most at the end of its line, and stdout's buffer is never full: its size is out of proportion
to the lines of the bounds.

### Shell

The parser's variables and those of `run_shell` and `exec_ast`. `next` is the command of
the flattened tree that `exec_ast` comes to next; `Selected` is the test of `exec_and`
and `exec_or` on the status so far; `Leaf` is the set of outcomes of one command. A pipeline's
outcomes are those of `PipelineAbs` (last stage's, 0 if it was killed, 1 if it could not be started), a
redirection's those of `Redirection` (1 if refused, else the command's). `Store` is the
assignment to `spe->exit_code` that follows every operand on the left and every item.
For the last operand of a line, whose status `exec_and` and `exec_or` only pass on,
`Store` and `LineDone` write the same value twice, with nothing in between that could read it.
`before` is the status of the last pipeline when the line was begun: what a bare `exit` asks for, whatever its own line did
before it. `FinalStatus` states this as it is; that `parser.h:27` says otherwise is what the run `session_exit` shows.

### Game

`db` is what is committed, a set of rows per table, each named after the start
that inserted it; `seen` is a DELETE's snapshot, `doomed` what a transaction has deleted
and holds locks on. `Clear` takes the snapshot, `Delete` waits until no other
transaction holds a lock on one of its rows and then deletes those that are still there: this
is PostgreSQL's default isolation, which nothing in the repository changes. Hibernate
inserts at the flush before the commit. An unchecked exception rolls back
(`@Transactional`). `Abort` stands for a lost connection, a timeout or a server that is
stopped. A `GET` is two statements, each of which sees what is committed at that time. Deadlock
detection of the database is left out: `StartsEnd` shows it is not needed. A start inserts no items, as
`ItemRepository.persist` does nothing; `StartClears` asks that no row of an earlier start is left, and that the start's own
player and game are there.

## 3. Runs

| Run | Bounds | Shows |
|---|---|---|
| `redirection` | 7 descriptors, chains of at most two redirections, numbers 0, 1, 2, none and one (9) that is no descriptor, 2 files (one unreadable), 5 initial tables | four safety properties of redirections |
| `pipeline` | 3 stages, pipes of 1 item, sources of 2 items | pipe ends, end of file, SIGPIPE, refinement of `PipelineAbs`, and that it returns |
| `parser` | every input of at most 5 tokens, 11 kinds of token | tree, errors, assignments |
| `shell` | every input of at most 5 tokens, programs that return 0, 1 or 5, words `exit`, `3`, `$?` | operands, `$?`, exit, final status, the shell ends |
| `quoting` | every text of 3 of the 17 classes that the lexer tells apart, or a letter, of 4 of seven of them (operators) or six (references), of 5 of five; and, written in double quotes, every word of 3 of eight classes of characters that `expand` tells apart and of 4 of five of them, two references, up to 3 options, up to 4 characters under `-e`; a buffer with 1 spare character | characters, quotes, operators, numbers, arguments; the expansion's index and buffer, the refinement of `ExpansionAbs`, options and backslashes; and that every text is read to its end and executed |
| `session` | scripts of 2 lines, the second of any kind, and of 3 lines of those that leave something behind; blocks of 2 lines; ints of 64 values, statuses of 8 | output, input, exit statuses, lasting effects |
| `game` | 3 requests at a time, 3 starts in all | safety and progress of overlapping starts |
| `redirection_saved`, `shell_syntax` | the same | one disagreement of code and documentation each (section 6) |
| `quoting_documented` | texts of up to 4 of five pieces | four disagreements, in one text |
| `session_exit` | an exit in a pipeline and one that ends the shell | two disagreements, in one session |
| `game_overlap` | 2 requests, 2 starts | two disagreements, in one state |

Where a run shows several disagreements its property joins the claims by `\/`, so that what TLC finds refutes
every one of them and not only the first it comes to; the claims are definitions of their own
under "Claims of the repository that do not hold" at the end of `Lexer`, `Quoting`, `Session`, `Game` and `Shell`.

Why the bounds are enough to be of interest: two redirections are what it takes for one to overwrite, to
hide or to be refused behind another; of seven descriptors three are standard, three are
copies and one is for the file, and the initial tables include those with one, two or no
free numbers, so that `dup` and `open` fail at each place. Three stages make a first, a middle and
a last one, the fewest in which one stage can inherit an end that belongs to two
others; a source writes more than fits, so that writers block. Five tokens
hold two operators with their operands, a redirection with a number between words,
a list with a malformed item, or two lines. Three characters bring every class next to every
other inside a word; five hold a pair of quotes with an escape in it or two pairs, and four a
reference in braces with something next to it. The values of the variables of
`MCQuoting` hold a `$`, a pair of quotes, a `\001` or more than the buffer has room for, so that a
second reading and a growing buffer show. Three lines are one that leaves text in a buffer, one
that copies or moves it, and one that writes it; with blocks of two lines the buffer of
the input is refilled within a script, and a program meets an offset that is ahead of the shell. Ints of 64 values overflow with
two digits, as those of 2 ^ 32 do with ten, and 8 divides 64 as 2 ^ 8 divides 2 ^ 32. Three starts let two overlap and a
third meet what they left. The theorems of section 5 hold without any of these
bounds.

Types: `TypeOK` of every component (`XTypeOK` of `Expansion`) is proved (section 5), and so are the inductive invariants
behind the other properties; TLC repeats only `TypeOK` of `Shell`, which includes that of `Parser`, and of `Session`.

The names in the cfg files are the constants of the modules; the words of `MCShell` are those the properties
distinguish. `CHECK_DEADLOCK FALSE` is used where the program stops: a
shell that has ended, an input that is consumed, a pipeline that has returned, a command that is over. The game
server never stops, and is checked for deadlock.

## 4. Fairness

- Pipeline: weak fairness of the shell's steps and of each stage's own steps, which
  is what an operating system's scheduler gives to a process that can run. Not of signals
  (they need not come). The programs are such that each one ends by itself or has a reader that does
  (`MCPlan`), and the first does not read a terminal that never sends anything.
- Shell: weak fairness of the one process. Programs it runs end, and a read of its input returns. `Ends` includes that every
  call of the parser returns.
- Quoting: weak fairness of the lexer and of `exec_command`, which never wait for anybody; not of `Execute`, as a text with
  operators is not executed there.
- Session (only for `session_exit`): weak fairness of whichever process runs; commands end.
- Game: weak fairness of the steps of a started transaction, each by itself; nothing
  says that a client sends another request or that anything fails.

## 5. Theorems

`tlapm` checks these for every value of the constants (assumptions in the modules);
TLC checks the same formulas on the instances above.

| Theorem | States | Argument |
|---|---|---|
| `RedirectionProofs!TypeCorrect` | `[]TypeOK` | inductive with the ranges of the counters |
| `RedirectionProofs!Restored` | `[]DescriptorsRestored` for numbers 0 to 2 | `SavedCopies`: step by step, the three copies are at numbers that were free, nothing else touches them, and a copy that is missing means the table is full, so that no redirection could be opened either and nothing needs to be restored |
| `RedirectionProofs!InForceWhenRun` | `[]RedirectionsInForce` | `InForceSoFar`: the first k redirections are in force after k steps, in the shell or the child |
| `RedirectionProofs!RefusedLeavesNoTrace` | `[]RefusedStops` | `TraceSoFar`: only files of the first k redirections have changed |
| `RedirectionProofs!ExitIsHeeded` | `[]ExitTakesEffect` | `ExitSoFar`: an exit is on the path inside the shell exactly if its name is literal or it has no redirections, and only that path sets the flag, behind the last redirection |
| `PipelineProofs!TypeCorrect`, `WiringHolds`, `Wired`, `Clean` | `[]TypeOK`, `[]Wiring`, `[]StageWired`, `[]ShellClean` | `Wiring` with the types is inductive: it says where every pipe end is at every step of the shell and of each stage |
| `PipelineProofs!NoEarlyEof`, `NoEarlySigpipe` | `[]EofAfterEnd`, `[]SigpipeAfterEnd` | from `Wiring`: until a stage is over its neighbour, or the shell on its behalf, has the other end |
| `PipelineProofs!PipelineRefines` | `Spec => Refinement` | every step maps to a step or a stutter of `PipelineAbs` |
| `ParserProofs!TypeCorrect` | `[]TypeOK` | `PoppedInTime`: behind the last token only the end is popped, or the redirection that a number announced |
| `ParserProofs!TreeIsTheReading`, `NothingIsDropped`, `NullEndsNoLine` | `[]TreeIsReading`, `[]OnlyMalformedDropped`, `[]NullIsDeserved` | `Tree`, then `Outcome`. While a tree is built, the commands in it are those between the cuts of the line read so far, and the one under construction is read up to the current token (`ReadSoFar`), at a place in the code that only certain tokens lead to (`Reached`). The lemmas in front of it say what one more token does to the cuts, spans, operands and arguments of a line, for each kind of token. `Outcome` is what is left of this once `parser_input` has returned or given up |
| `ParserProofs!LastOneWins` | `[]LastAssignmentWins` | `Assigns`: the assignments of the ended commands and of the current one, in the order of the line, are those of the line so far, and each variable has the last |
| `ShellProofs!ShellParses` | `Spec => Parses!Spec` | every step of the shell is a step of the parser's specification or leaves the parser alone, which brings the theorems above to the shell's trees |
| `ShellProofs!EndsWithStatus`, `DollarQuestionHolds`, `NothingAfterExit` | `[]FinalStatus`, `[]DollarQuestion`, `ExitStops` | `Statuses`: at which control points each of the copies of the last status (`status`, `exit_code`, `last_code`) is up to date, and that once exit is set `ex_code` is what was asked for and no line is begun. The argument needs nothing about the parser but that its steps change none of these |
| `ShellProofs!OperandsDue` | `[]OperandsRunWhenDue` | `Walk`: what `did` says of the operands before `next`, that `next` is where a pipeline begins, and that `status` is that of the last operand which was run. From the parser it needs that trees are well-formed (`TreeIsTheReading`, through `ShellParses`) |
| `ShellProofs!TypeCorrect` | `[]TypeOK` | `Codes`, with the parser's types through `ShellParses` |
| `CommandProofs!IndicesInWord`, `CommandInBounds` | `XSpec => []XTypeOK`, `[]InBounds` | the two are inductive for `XSpec`; `CommandExpands` carries them over |
| `CommandProofs!CommandExpands` | `Spec => XSpec` | every step of a command calls `expand`, is a step of it, takes its answer, or leaves it alone |
| `CommandProofs!ExpandMeans`, `CommandExpanded` | `XSpec => Expanded`, `Spec => Expanded` | `Follows`: what is in the buffer, with what is left of a value, is what the positions before `idx` mean, and no reference in front of `idx` reaches over it (`Clear`). The lemmas say how far `Run` goes and what `covered` and `FlattenSeq`, which are recursive, are at each position |
| `CommandProofs!EchoPrintsMeanings` | `[]OutputRead` | `Echo`: the flags are those of the option words before `k`, and what is printed is what the words from the first that is none to the one before `k` mean. `PrintedShown` compares the loop of `echo_print` with the reading by positions: a backslash begins a sequence exactly if the one before it did not |
| `CommandProofs!ArgumentsMean` | `[]ArgsMean` | `ArgsMean`, inductive with `Follows`: the arguments so far are what the words so far mean, the word in `expand` is the next one, and once the command is run there is one argument for each word |
| `QuotingProofs!TypeCorrect` | `[]TypeOK` | `Lexed`: the invariant of the lexer's loops, with where `pos` may be in each of them |
| `QuotingProofs!NumbersBelong` | `[]TokensForParser` | `Handover`, part of `Lexed`: behind a number the next character is `<` or `>`, which makes the next token an operator, as `build` skips nothing there; behind the end there is only the end |
| `QuotingProofs!TextIsKept`, `WordsAreCut`, `OperatorsAreSeen` | `[]TextKept`, `[]WordsCut`, `[]OperatorsSeen` | `Understood`: at every step the loop the lexer is in is the one `Mode` says the text is in (`Placed`), and the tokens so far hold what they should of the characters dealt with so far (`Collected`, `HeldTogether`, `Cut`, `Found`), which are of the kind of their characters (`Kinds`: what a token of an operator lies on, and that a word begins with no `&&` and keeps nothing from in front of where it began). Every step deals with a few characters and keeps some of them, in order (`Takes`), which is shown action by action; the rest follows from `Takes` alone |
| `QuotingProofs!DollarsMarked` | `Spec => []Marks` | `Marks` says which `$` are marked in a text that is words alone. Nothing was dropped from such a text that could shift its quotes, so the loops stand where `Mode` says (`Aligned`) even if there is a comment in it |
| `QuotingProofs!QuotingLexes`, `QuotingExecutes` | `QSpec => Spec`, `QSpec => P!Spec` | every step of the composition is one of the lexer or one of `Command`, whose arguments may be any sequences of the characters that are left of a text (`SameCommand`, `WordsAre`) |
| `QuotingProofs!QuotingLexedRight`, `QuotingPrintsMeanings`, `QuotingExpands` | the properties of `Lexer`, `[]InBounds` and `[]OutputRead`, and `Expanded`, for the composition | from the two above, with the theorems of `Lexer` and of `Command`: what `Quoting` says of expansion and echo with its constants is what `CommandProofs` says (`SameMeaning`, `SameOutput`) |
| `QuotingProofs!TextMeans` | `QSpec => []ArgumentsMeant` | the words executed are those of the text (`Handed`), each of their `$` is live or marked (`Marks`, `CharsKept`), each argument is what is left of its word means (`ArgsMean`), and to put characters that are only copied where something was taken away changes nothing but inside of references (`SpreadReads` of `CommandProofs`, from how far one reference reaches with and without them) |
| `SessionProofs!EveryLineOnce` | `[]LinesOnce` | `LinesApart`: executed lines are those before `next`, what programs read is what lies between `lim` and `off`, and a program that read anything read to the end |
| `SessionProofs!TypeCorrect` | `[]TypeOK` | `Control`: what holds at each control point, in particular to which file the process that executes the line writes |
| `SessionProofs!EchoIsWritten` | `[]EchoLands` | `Landed`, from how each step adds to a file (`Grows`): an echo flushes whatever waits in front of its text, to the file its line names |
| `SessionProofs!MessageIsOnce`, `CopiesAreCarried` | `[]MessageOnce`, `[]CopiesCarried` | `Messages`: only messages of refused exits wait in a buffer, in the order of their lines; `Delivered`: each was written, waits in the shell's, or was thrown away with it |
| `SessionProofs!StatusIsMeant` | `[]ExitStatus` | the number that is meant and the int that is read differ by a multiple of the number of statuses, after every digit, and behind a `+` both are 0; `Asked` follows the status from the line of the exit to the end |
| `SessionProofs!EffectsLast` | `[]LastingEffects` | `Lasting`: the directory and the exit of the shell are those of the lines carried out in the shell itself |
| `GameProofs!TypeCorrect` | `[]TypeOK` | with `Numbered`: a start under way has a number |
| `GameProofs!TogetherInTables` | `[]GameWithPlayer` | only `Commit` writes, and it adds a row to both tables |
| `GameProofs!PlayerIsThere` | `[]NoNullPlayer` | `StillRunning`: once there are a player and a game there will always be, as a commit brings its own in the step in which it takes others away |
| `GameProofs!StartLeavesItsOwn` | `StartClears` | `AloneClears`: while a start is the only one under way and met no other, what its statements saw and deleted is all that is committed, so that nothing but its own rows is left |

`Restored` and `InForceWhenRun` assume `StdTargets`, that a redirection names
descriptor 0, 1 or 2, none, or a number that is no descriptor; the run `redirection_saved` shows that `Restored` fails without it.

What recursive functions compute (`Mode`, the readings of numbers, `covered`, `FlattenSeq`, the loop of
`echo_print`) is proved for these functions one by one: a set of positions at which the claim fails would
have a least member (`WFMin` with the order of the natural numbers), and a function that satisfies the
recursive equation is built up to each length in the same way. A general induction theorem would take
an operator as a parameter, which the provers cannot instantiate.

The theorems about expansion and echo assume that the letters of options and escapes are among those of names and the
minus, backslash and white space among the other characters (`OptionAssumption` of `Variables`), and those of
`Quoting` that the classes of characters `expand` tells apart are those of the lexer (`ClassAssumption`). `TextMeans`
assumes what `Quoting` says of its other constants: that letters of names are not also quotes, operators or
other characters the code tells apart (`AlphaAssumption`), and that no value of a variable, and no status, holds `brk`, the mark
that stands for what was taken away and is no character of the shell's (`ValuesAssumption`).

Only model-checked: liveness (`Returns`, `ReadToEnd`, `Ends`, `StartsEnd`), which is beyond `tlapm`, and the disagreements
of section 6. Every safety property of a passing run is proved.

## 6. Disagreements of code and documentation

1. `redirection_saved`: `echo a 4> f` may overwrite the copy `exec_redir_builtin` made of stdout
   (comment at `exec.c:183`).
2. `shell_syntax`: of all syntax errors only `;;` gives status 2 (comment at `minishell.c:22`).
3. `quoting_documented`, with the one text `"'A'";'$A'A&&A`, in any of its four parts:
   - a `;` or a line break right behind a closing quote is lost, so that
     `echo "a"; echo b` prints `a echo b` (`SeparatorsSeen`; `lexer.h:9`, `lexer.h:10`);
   - `&&` right behind a word is part of the word: `echo a&&echo b` prints `a&&echo b` (`AndSeen`; `lexer.h:13`);
   - a `$` in single quotes, or escaped in double ones and printed by echo, is expanded (`QuotedDollarPrinted`;
     tests `single_quote_dollar` and `esc_db_in_db`);
   - single quotes right inside double ones are dropped (`QuotedQuotesPrinted`; test `mix_double_quotes`).
4. `session_exit`, with a session of the lines `true | exit +5` and `false; exit`, or the like:
   - a number behind a `+` passes for one and is read as 0 (`NumberRead`; comments at `builtin.c:36` and `158`);
   - a bare exit behind a failed command ends the shell with the status of the line before, as `last_code` is
     written once per line (`LastStatus`; `parser.h:27`).
5. `game_overlap`, with two starts at once:
   - two games are left, although the tables are cleared (`OneGame`; `openapi.yaml:329`);
   - the five yakaballs are never stored: `ItemRepository.persist` is empty (`Stocked`; comment at `GameService.java:49`).

More are visible in the models without a run of their own:

- redirections: when `open` returns the number to be redirected, `redirect` closes it again (`prog 3> f`);
  `$C 3 > f` with `C=exit` ends a child and not the shell (`ExitTakesEffect` says exactly when exit counts);
- parser and shell: `false && A=1` sets `A`, as assignments are applied while the line is parsed; a malformed
  item in a list disappears without a message while the items around it run (`parser.h:34`, and
  `OnlyMalformedDropped`);
- lexer and expansion: `a#b` loses the `#` and `12ab` becomes two words; `"a"||b` becomes a pipe, as the first `|` is lost; `"$A"B` is read as `$AB`; `\$A`
  outside of quotes is expanded (the last two are exceptions that `ArgumentsMeant` spells out);
- builtins: a sign alone is a number; a bare exit in a pipeline returns 0; the
  message of `exit 1 2` is not flushed, so that under a redirection it lands in whatever stdout is when an echo
  comes, is printed again by children that echo, and is lost when exit follows (`MessageOnce` and `CopiesCarried` say exactly when);
  `echo -nx` prints `-nx` without a line break.

## 7. Not modelled

- memory allocation failing; freeing;
- text: formatting, error messages (stderr is not buffered), the contents of files beyond empty or not;
- numbers of more than 31 digits in front of a redirection, which is undefined behaviour;
- the characters of assigned values: `Parser` says whose value a variable has, `Expansion` what becomes of a value, and
  nothing in between is stated;
- lines of several commands in `Session` (but for the program that fails in front of one) and stages other than the one of interest: lists are `Shell`'s, pipelines `Pipeline`'s;
- what an earlier pipeline that could not be set up leaves open: `Pipeline` is one call, from a
  shell that holds no pipe ends;
- `unset_variable`, `unset_function` and the debug printer (called from nowhere), tests, archives; Yakamon's team
  endpoint (reads a table that nothing writes), converters and enumerations.

## 8. Plan

In the order of importance; all are done but the eleventh.

1. `Descriptors`, `Redirection` and proofs: what a session most depends on.
2. `PipelineAbs`, `Pipeline` and proofs, with the refinement.
3. `Grammar`, `Parser`.
4. `Shell`, composed with `Parser`.
5. `Game` and proofs.
6. `Lexer`, with the input behind it.
7. `ExpansionAbs`, `Expansion`, `Command` with echo, and the proof about the buffer. (TLC checks them through `Quoting`.)
8. `Quoting`: lexer, expansion and echo composed.
9. `Session`: buffered output, shared input, exit, cd and kill; the proof about the input.
10. Proofs about `Lexer` (types, numbers) and `Shell` (statuses, exit).
11. Failed pipelines in a session: pipe ends and children left over, over several calls.
12. Proofs about `Parser` (all of its properties), `OperandsRunWhenDue` of `Shell`, the output, exits and effects of `Session`, `ExitTakesEffect`,
    `StartClears`, the tokens of `Lexer` against its text, the refinement of `ExpansionAbs`, and what echo prints.
13. A proof of `ArgumentsMeant`, from the theorems about its parts.
