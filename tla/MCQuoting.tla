----------------------------- MODULE MCQuoting -----------------------------
EXTENDS Quoting

CONSTANTS Short, Middle, Long, Quoted   \* lengths of inputs

MCLetter == {"A", "lb", "rb", "quest", "n", "e", "E", "t", "minus"}
MCAlpha == {"A", "n", "e", "E", "t"}
MCStatus == <<"digit">>

(* A is in the environment too;  n and t have values that a second reading *)
(* changes, e one that is longer than the buffer is at first.              *)
MCVars ==
    (<<"A">> :> <<"t", "=">>)
        @@ (<<"n">> :> <<"dollar", "A">>)
        @@ (<<"t">> :> <<"sq", "A", "sq">>)
        @@ (<<"e">> :> <<"A", "A", "A", "A", "A", "A", "A", "A">>)
        @@ (<<"A", "digit">> :> <<>>)
MCEnv == (<<"A">> :> <<"E">>) @@ (<<"E">> :> <<"esc", "A">>)

(* Texts for the lexer: short ones of every character, longer ones of      *)
(* those with the most effect on what is next to them.                     *)
Texts ==
    BoundedSeq(Named \cup {"A"}, Short)
        \cup BoundedSeq({"dq", "bs", "blank", "semi", "gt", "digit", "A"}, Middle)
        \cup BoundedSeq({"dq", "sq", "bs", "nl", "A"}, Long)
        \cup BoundedSeq({"dq", "dollar", "lb", "rb", "quest", "A"}, Middle)
        \cup BoundedSeq({"dq", "sq", "bs", "dollar", "A"}, Quoted)

(* Words for expand and echo: one of everything expand tells apart, a few  *)
(* of options, and one that backslashes are in.                            *)
Arguments ==
    BoundedSeq({"dollar", "lb", "rb", "quest", "sq", "esc", "A", "digit"}, Middle - 1)
        \cup BoundedSeq({"dollar", "lb", "rb", "A", "digit"}, Middle)
References ==
    {<<"dollar", c>> : c \in {"n", "t", "e", "E"}}
        \cup {<<"dollar", "lb", c, "rb">> : c \in {"n", "t", "e", "E"}}
Options == {<<"minus", "n">>, <<"minus", "e">>, <<"minus", "E">>, <<"minus">>,
            <<"minus", "n", "e">>, <<"minus", "E", "t", "n">>, <<"n">>, <<"bs", "n">>}
Lines == BoundedSeq({"bs", "n", "t", "A"}, Middle)
Argvs ==
    {<<w>> : w \in Arguments \cup References}
        \cup {<<w, v>> : w, v \in References \cup {<<"A">>, <<>>}}
        \cup BoundedSeq(Options, Middle - 1)
        \cup {<<<<"minus", "e">>, w>> : w \in Lines}

(* A word as it is written in double quotes. *)
Written(w) ==
    <<"dq">>
        \o FlattenSeq([p \in DOMAIN w |->
               CASE w[p] = "esc" -> <<"bs", "dollar">>
                 [] w[p] = "bs" -> <<"bs", "bs">>
                 [] OTHER -> <<w[p]>>])
        \o <<"dq", "blank">>

(* Texts in which several claims meet, made of a few pieces. *)
Piece == {<<"dq", "sq", "A", "sq", "dq">>, <<"sq", "dollar", "A", "sq">>,
          <<"A", "amp", "amp", "A">>, <<"semi">>, <<"blank">>}
MCPieces == {FlattenSeq(ps) : ps \in BoundedSeq(Piece, Short)}

MCText ==
    Texts \cup {FlattenSeq([n \in DOMAIN a |-> Written(a[n])]) : a \in Argvs}

=============================================================================
