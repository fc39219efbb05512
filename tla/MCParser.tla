------------------------------ MODULE MCParser ------------------------------
EXTENDS Parser

(* One token of each type, for two words do not differ to the parser, and  *)
(* two assignments to the same variable.                                   *)
MCToken == Type \cup {"again"}
MCTypeOf == [t \in MCToken |-> IF t = "again" THEN "assign" ELSE t]
MCVar == {"A"}
MCNameOf == [t \in {"assign", "again"} |-> "A"]

=============================================================================
