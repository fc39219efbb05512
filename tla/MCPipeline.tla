----------------------------- MODULE MCPipeline -----------------------------
EXTENDS Pipeline

MCCode == {0, 3}

(* What the first stage may run does not read the terminal, and an endless *)
(* writer has a reader after it that quits.                                *)
MCPlan ==
    {p \in [Stage -> Kind] :
        /\ p[1] \in {"source", "endless"}
        /\ \A s \in Stage : p[s] = "endless" =>
              \E t \in s + 1 .. N :
                  /\ p[t] \in {"head", "source"}
                  /\ \A u \in s + 1 .. t - 1 : p[u] # "endless"}

=============================================================================
