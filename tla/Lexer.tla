------------------------------- MODULE Lexer -------------------------------
(***************************************************************************)
(* The lexer over its input: what pop() returns, call after call.  The     *)
(* characters are classes of those the code tells apart; the value of a    *)
(* token is the sequence of the positions of the characters kept in it,    *)
(* so that a property can say which ones those are.  peek at the input     *)
(* looks at position pos, next takes it.                                   *)
(***************************************************************************)
EXTENDS Integers, Sequences, FiniteSets, SequencesExt, FiniteSetsExt

CONSTANTS
    Letter,   \* characters that no test in the lexer names
    Text      \* the inputs

(* blank: a space;  space: what isspace accepts besides it, a tab and a    *)
(* line break, a carriage return say.                                      *)
Named == {"blank", "tab", "nl", "space", "semi", "bar", "gt", "lt", "hash", "amp",
          "dq", "sq", "bs", "dollar", "digit", "bang"}
Symbol == Named \cup Letter
Eof == "eof"

ASSUME LetterAssumption == Letter \cap (Named \cup {Eof}) = {}
ASSUME TextAssumption == Text \subseteq Seq(Symbol)

VARIABLES
    text,    \* the whole input
    pos,     \* where the next character is; two behind the last at the end
    pc,      \* between tokens ("build") or in a function that reads on
    start,   \* where the token under construction began
    val,     \* the characters kept in it so far, buf
    marked,  \* those of them, and of earlier tokens, that \001 stands for
    toks     \* tokens popped

vars == <<text, pos, pc, start, val, marked, toks>>

Length == Len(text)
At(p) == IF p <= Length THEN text[p] ELSE Eof
After(p) == IF p <= Length THEN p + 1 ELSE Length + 2
Cur == At(pos - 1)              \* c, the character that was taken last

Init ==
    /\ text \in Text
    /\ pos = 1
    /\ pc = "build"
    /\ start = 1
    /\ val = <<>>
    /\ marked = {}
    /\ toks = <<>>

(* Inputs are followed up to the second TOK_EOF. *)
EndsSeen == Cardinality({n \in DOMAIN toks : toks[n].type = Eof})
Building == pc = "build" /\ EndsSeen < 2

Emit(type, v, from, next) ==
    /\ toks' = Append(toks, [type |-> type, val |-> v, at |-> from])
    /\ pos' = next
    /\ pc' = "build"
    /\ val' = <<>>
    /\ UNCHANGED <<text, start, marked>>

Goto(place, from, v, next) ==
    /\ pc' = place
    /\ start' = from
    /\ val' = v
    /\ pos' = next
    /\ UNCHANGED <<text, marked, toks>>
-----------------------------------------------------------------------------
(* build *)

Skip ==
    /\ Building /\ At(pos) \in {"blank", "tab"}
    /\ Goto("build", start, val, pos + 1)

SimpleTok ==
    /\ Building /\ At(pos) \in {Eof, "nl", "semi"}
    /\ Emit(At(pos), <<>>, pos, After(pos))

OneOrTwo(c, one, two, v) ==
    /\ Building /\ At(pos) = c
    /\ IF At(pos + 1) = c THEN Emit(two, <<>>, pos, pos + 2)
                          ELSE Emit(one, v, pos, pos + 1)
PipeTok == OneOrTwo("bar", "pipe", "or", <<>>)
RedirOutTok == OneOrTwo("gt", "out", "app", <<>>)
Ampersand == OneOrTwo("amp", "word", "and", <<pos>>)

RedirInTok ==
    /\ Building /\ At(pos) = "lt"
    /\ Emit("in", <<>>, pos, pos + 1)

(* comment_tok *)
Comment ==
    /\ Building /\ At(pos) = "hash"
    /\ Goto("comment", pos, <<>>, pos + 1)
CommentChar ==
    /\ pc = "comment" /\ Cur \notin {Eof, "nl"}
    /\ Goto("comment", start, val, After(pos))
CommentEnd ==
    /\ pc = "comment" /\ Cur \in {Eof, "nl"}
    /\ Emit(Cur, <<>>, pos - 1, pos)

(* redir_nb.  Slip: what follows the digits is not looked at. *)
Number ==
    /\ Building /\ At(pos) = "digit"
    /\ Goto("number", pos, <<pos>>, pos + 1)
Digit ==
    /\ pc = "number" /\ At(pos) = "digit"
    /\ Goto("number", start, Append(val, pos), pos + 1)
NumberEndAlways ==
    /\ pc = "number" /\ At(pos) # "digit"
    /\ Emit("nb", val, start, pos)
NumberEnd ==
    /\ pc = "number" /\ At(pos) # "digit"
    /\ Emit(IF At(pos) \in {"lt", "gt"} THEN "nb" ELSE "word", val, start, pos)
-----------------------------------------------------------------------------
(* read_tok *)

White == {"blank", "tab", "nl", "space"}

(* At these the loop ends, having taken the character, ... *)
Stops == White \cup {Eof, "semi", "bar", "lt", "gt", "hash"}
(* ... and in front of these it is left.  Slips: not in front of ;, and    *)
(* in front of a quote too.                                                *)
StopsBeforeNoSemi == White \cup {Eof, "bar", "lt", "gt", "bang"}
StopsBeforeQuote == White \cup {Eof, "semi", "bar", "lt", "gt", "bang", "dq"}
StopsBefore == White \cup {Eof, "semi", "bar", "lt", "gt", "bang"}

ReadTok ==
    /\ Building /\ At(pos) \in {"space", "dq", "sq", "bs", "bang", "dollar"} \cup Letter
    /\ Goto("word", pos, <<>>, pos + 1)

(* The end of the loop's body, at position p with v in the buffer. *)
Further(v, p) ==
    IF At(p) \in StopsBefore THEN Emit("word", v, start, p)
    ELSE Goto("word", start, v, p + 1)

WordEnd ==
    /\ pc = "word" /\ Cur \in Stops
    /\ Emit("word", val, start, pos)

Plain ==
    /\ pc = "word" /\ Cur \notin Stops \cup {"dq", "sq", "bs"}
    /\ Further(Append(val, pos - 1), pos)

(* backslash: at the end of the input it keeps what is no character. *)
Backslash ==
    /\ pc = "word" /\ Cur = "bs"
    /\ Further(IF At(pos) = "nl" THEN val ELSE Append(val, pos), After(pos))

OpenQuote ==
    /\ pc = "word" /\ Cur \in {"dq", "sq"}
    /\ Goto(IF Cur = "dq" THEN "double" ELSE "single", start, val, After(pos))

(* double_quote.  A $ behind a backslash is kept as \001, which the        *)
(* expansion turns into a $ of its own.  Slips: a line break behind a      *)
(* backslash is kept; a backslash is kept like any character; a $ behind   *)
(* one is not marked.                                                      *)
EscapedLine(n) == IF At(n) = "blank" THEN <<n - 1, n>> ELSE <<n>>
Escaped(n) ==
    IF At(n) = "nl" THEN <<>>
    ELSE IF At(n) = "blank" THEN <<n - 1, n>>
    ELSE <<n>>
DoubleEscapeUnmarked ==
    /\ pc = "double" /\ Cur = "bs"
    /\ Goto("double", start, val \o Escaped(pos), After(After(pos)))
DoubleEscape ==
    /\ pc = "double" /\ Cur = "bs"
    /\ val' = val \o Escaped(pos)
    /\ marked' = IF At(pos) = "dollar" THEN marked \cup {pos} ELSE marked
    /\ pos' = After(After(pos))
    /\ UNCHANGED <<text, pc, start, toks>>
DoubleChar ==
    /\ pc = "double" /\ Cur \notin {Eof, "bs", "dq"}
    /\ Goto("double", start, Append(val, pos - 1), After(pos))
(* It returns the character behind the quote, or the end of the input. *)
DoubleEnd ==
    /\ pc = "double" /\ Cur \in {Eof, "dq"}
    /\ Goto("word", start, val, After(pos))

(* single_quote *)
SingleChar ==
    /\ pc = "single" /\ Cur \notin {Eof, "sq"}
    /\ Goto("single", start, Append(val, pos - 1), After(pos))
SingleEnd ==
    /\ pc = "single" /\ Cur \in {Eof, "sq"}
    /\ Goto("word", start, val, After(pos))

Next ==
    \/ Skip \/ SimpleTok \/ PipeTok \/ RedirOutTok \/ RedirInTok \/ Ampersand
    \/ Comment \/ CommentChar \/ CommentEnd \/ Number \/ Digit \/ NumberEnd
    \/ ReadTok \/ WordEnd \/ Plain \/ Backslash \/ OpenQuote
    \/ DoubleEscape \/ DoubleChar \/ DoubleEnd \/ SingleChar \/ SingleEnd

Spec == Init /\ [][Next]_vars
-----------------------------------------------------------------------------
(* A reading of the text that knows nothing of tokens: what the quotes and *)
(* backslashes before it make of each character.                           *)

Turn(mode, c) ==
    CASE mode = "plain" /\ c = "dq" -> "double"
      [] mode = "plain" /\ c = "sq" -> "single"
      [] mode = "plain" /\ c = "bs" -> "escape"
      [] mode = "double" /\ c = "bs" -> "double escape"
      [] mode = "double" /\ c = "dq" -> "plain"
      [] mode = "single" /\ c = "sq" -> "plain"
      [] mode = "escape" -> "plain"
      [] mode = "double escape" -> "double"
      [] OTHER -> mode

(* Mode[p]: how the character behind the first p ones is meant. *)
Mode[p \in 0 .. Length] ==
    IF p = 0 THEN "plain" ELSE Turn(Mode[p - 1], text[p])

IsPlain(p) == Mode[p - 1] = "plain"
Inside(p) == Mode[p - 1] \in {"double", "single"} /\ Mode[p] = Mode[p - 1]
Closes(p) == Mode[p - 1] \in {"double", "single"} /\ Mode[p] = "plain"
IsEscaped(p) == Mode[p - 1] \in {"escape", "double escape"} /\ text[p] # "nl"
KeptBackslash(p) ==
    Mode[p] = "double escape" /\ p < Length /\ text[p + 1] = "blank"

(* No # begins a comment, or ends a word. *)
NoHash == \A p \in 1 .. Length : text[p] = "hash" => ~IsPlain(p)

(* Which token is made of which character.  A single & is none. *)
Sign == [nl |-> "nl", semi |-> "semi", pipe |-> "bar", or |-> "bar", and |-> "amp",
         in |-> "lt", out |-> "gt", app |-> "gt"]
Operator == {"nl", "semi", "bar", "lt", "gt"}
OpensAnd(p) == IsPlain(p) /\ text[p] = "amp" /\ At(p + 1) = "amp"
Width(t) == IF t.type \in {"or", "and", "app"} THEN 2 ELSE 1
Span(t) == t.at .. t.at + Width(t) - 1
IsWord(t) == t.type \in {"word", "nb"}
IsOperator(t) == t.type \in DOMAIN Sign
Spanned(p) == \E n \in DOMAIN toks : ~IsWord(toks[n]) /\ p \in Span(toks[n])

Tokenized(p) ==
    \E n \in DOMAIN toks :
        IsOperator(toks[n]) /\ p \in Span(toks[n]) /\ Sign[toks[n].type] = text[p]

(* The characters that words are made of. *)
Belongs(p) ==
    \/ Inside(p) \/ IsEscaped(p) \/ KeptBackslash(p)
    \/ IsPlain(p) /\ text[p] \in {"amp", "digit", "bang", "dollar"} \cup Letter /\ ~Spanned(p)

(* The whole input has been read. *)
ReadAll == pc = "build" /\ EndsSeen = 1 /\ NoHash
Places == 1 .. Length
-----------------------------------------------------------------------------
(* lexer.c:64, 239: an operator has no value, and a number at least one    *)
(* digit; no function reads on behind the end of the input.                *)
TypeOK ==
    /\ text \in Text
    /\ pos \in 1 .. Length + 2
    /\ pc \in {"build", "number", "comment", "word", "double", "single"}
    /\ start \in 1 .. Length + 1
    /\ val \in Seq(1 .. Length + 1)
    /\ marked \subseteq 1 .. Length
    /\ \A n \in DOMAIN toks :
          /\ toks[n].type \in {"word", "nb", "nl", "semi", "pipe", "or", "and", "in",
                               "out", "app", Eof}
          /\ toks[n].at \in 1 .. Length + 2
          /\ toks[n].val \in Seq(1 .. Length + 1)
          /\ ~IsWord(toks[n]) => toks[n].val = <<>>
          /\ toks[n].type = "nb" => toks[n].val # <<>>

(* lexer.c:144-236: the values of the words, one after another, are the    *)
(* characters meant to be part of words, all of them, in their order and   *)
(* none twice; a quote or backslash is never among them.                   *)
TextKept ==
    ReadAll =>
        /\ \A p \in Places :
              Belongs(p) <=> \E n \in DOMAIN toks : p \in ToSet(toks[n].val)
        /\ \A n, m \in DOMAIN toks :
              \A i \in DOMAIN toks[n].val, j \in DOMAIN toks[m].val :
                  n < m \/ (n = m /\ i < j) => toks[n].val[i] < toks[m].val[j]

(* lexer.c:202: quotes hold together what is between them, and one word    *)
(* only follows another where something separates them: else the first is  *)
(* a number or an & that begins a word, or the second begins with a !.     *)
WordsCut ==
    ReadAll =>
        /\ \A p \in Places : p + 1 \in Places /\ Inside(p) /\ Inside(p + 1) =>
              \E n \in DOMAIN toks : {p, p + 1} \subseteq ToSet(toks[n].val)
        /\ \A n \in 1 .. Len(toks) - 1 :
              IsWord(toks[n]) /\ IsWord(toks[n + 1]) =>
                  \/ \E p \in toks[n].at .. toks[n + 1].at :
                         IsPlain(p) /\ text[p] \in White \cup Operator
                  \/ text[toks[n].at] \in {"digit", "amp"}
                  \/ text[toks[n + 1].at] = "bang"

(* lexer.c:74-130, 194-230: a line break, ;, |, < or > outside quotes is   *)
(* in a token of its kind, or right behind a closing quote, where it is    *)
(* lost; && is in a TOK_AND, or in a word that began in front of it.  The  *)
(* tokens of operators stand for such characters only, and a | or > is by  *)
(* itself only if no second one follows.                                   *)
OperatorsSeen ==
    ReadAll =>
        /\ \A p \in Places : IsPlain(p) /\ text[p] \in Operator =>
              Tokenized(p) \/ (p > 1 /\ Closes(p - 1))
        /\ \A p \in Places : OpensAnd(p) =>
              \/ Tokenized(p)
              \/ \E n \in DOMAIN toks :
                    IsWord(toks[n]) /\ toks[n].at < p /\ p \in ToSet(toks[n].val)
        /\ \A n \in DOMAIN toks : IsOperator(toks[n]) =>
              /\ \A p \in Span(toks[n]) :
                    p \in Places /\ IsPlain(p) /\ text[p] = Sign[toks[n].type]
              /\ toks[n].type \in {"pipe", "out"} =>
                    At(toks[n].at + 1) # Sign[toks[n].type]

(* lexer.c:249: what the parser builds on: a TOK_REDIR_NB is followed by   *)
(* the operator it belongs to, and behind TOK_EOF there is nothing else.   *)
TokensForParser ==
    \A n \in 1 .. Len(toks) - 1 :
        /\ toks[n].type = "nb" => toks[n + 1].type \in {"in", "out", "app"}
        /\ toks[n].type = Eof => toks[n + 1].type = Eof

(* lexer.h:9, "Separateur de commande ';'", and 10, "Fin de ligne": these  *)
(* characters, when they are not quoted, become tokens.                    *)
SeparatorsSeen ==
    \A p \in Places : IsPlain(p) /\ text[p] \in {"semi", "nl"} => Tokenized(p)

(* lexer.h:13, "Operateur '&&'": && becomes a token when it is not quoted. *)
AndSeen == \A p \in Places : OpensAnd(p) => Tokenized(p)

=============================================================================
