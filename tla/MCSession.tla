----------------------------- MODULE MCSession -----------------------------
EXTENDS Session

Do(cmd, place) ==
    [cmd |-> cmd, sign |-> "none", digits |-> <<>>, dir |-> "none", pids |-> <<>>,
     place |-> place]

Exits(place) ==
    {[Do("exit", place) EXCEPT !.sign = a[1], !.digits = a[2]] :
        a \in {<<"none", <<>>>>, <<"junk", <<>>>>, <<"", <<3>>>>, <<"-", <<1>>>>,
               <<"+", <<5>>>>, <<"-", <<>>>>, <<"", <<9, 7>>>>, <<"-", <<9, 7, 9>>>>}}
Cds(place) == {[Do("cd", place) EXCEPT !.dir = d] : d \in Dir}
Kills(place) ==
    {[Do("kill", place) EXCEPT !.sign = s, !.pids = p] :
        s \in {"none", "-", "junk"},
        p \in {<<>>, <<"other">>, <<"other", "gone">>, <<"shell", "invalid">>,
               <<"invalid", "shell">>}}

Every == UNION {{Do("echo", p), Do("toomany", p), Do("reader", p)} \cup Cds(p) : p \in Place}
            \cup Exits("plain") \cup Exits("after") \cup Exits("last") \cup Kills("plain") \cup Kills("first")

(* What lines leave behind for later ones. *)
Some == {Do(c, p) : c \in {"echo", "toomany"}, p \in Place \ {"after"}}
          \cup {Do("reader", "plain"), Do("reader", "first"), Do("exit", "file"),
                [Do("cd", "file") EXCEPT !.dir = "there"]}

MCScripts == {<<a, b>> : a \in Some, b \in Every} \cup {<<a>> : a \in Every}
                \cup BoundedSeq(Some, 3)

(* An exit in a stage of a pipeline, and one that ends the shell. *)
MCExits == {<<a, b>> : a \in Exits("last"), b \in Exits("plain") \cup Exits("after")}

=============================================================================
