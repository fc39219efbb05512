------------------------------ MODULE MCShell ------------------------------
EXTENDS Shell

MCWord == {"prog", "exit", "3", "$?"}
MCToken == MCWord \cup (Type \ {"word", "assign", "nb"})
MCTypeOf ==
    [t \in Token |-> IF t \in MCWord THEN "word"
                     ELSE IF t = "A=1" THEN "assign" ELSE t]
MCVar == {"A"}
MCNameOf == [t \in Token \cap {"A=1"} |-> "A"]
MCCode == {0, 5}
MCNumber == [w \in {"3"} |-> 3]

=============================================================================
