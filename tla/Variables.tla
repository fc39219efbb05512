----------------------------- MODULE Variables -----------------------------
(***************************************************************************)
(* The characters of a word that expand and echo tell apart, the variables *)
(* a word may refer to, and the buffer it is expanded into.                *)
(***************************************************************************)
EXTENDS Integers, Sequences

CONSTANTS
    Alpha,     \* letters and _
    Numeric,   \* digits
    Other,     \* characters that no test of expand names
    Vars,      \* the shell's variables: a function from names to values
    Env,       \* the environment, likewise
    Status,    \* the digits of spe->exit_code
    Slack      \* the buffer begins with this much more than twice the word

(* esc is the byte \001 by which the lexer marks a $ that is to stay one.  *)
Mark == {"dollar", "lb", "rb", "quest", "sq", "esc"}
Char == Alpha \cup Numeric \cup Other \cup Mark

ASSUME CharAssumption ==
    /\ Alpha \cap (Numeric \cup Mark) = {}
    /\ Numeric \cap Mark = {}
    /\ Other \cap (Alpha \cup Numeric \cup Mark) = {}
    /\ Char \cap {"nul", "nothing"} = {}
(* The letters of options and escapes are among those of names. *)
ASSUME OptionAssumption ==
    /\ {"n", "e", "E", "t"} \subseteq Alpha
    /\ {"minus", "bs", "blank", "nl", "tab"} \subseteq Other
ASSUME ValueAssumption ==
    /\ \A n \in DOMAIN Vars : Vars[n] \in Seq(Char)
    /\ \A n \in DOMAIN Env : Env[n] \in Seq(Char)
    /\ Status \in Seq(Char)
ASSUME SlackAssumption == Slack \in Nat \ {0}

(* find_var: the shell's own variables come first. *)
Value(name) ==
    IF name \in DOMAIN Vars THEN Vars[name]
    ELSE IF name \in DOMAIN Env THEN Env[name]
    ELSE <<>>

=============================================================================
