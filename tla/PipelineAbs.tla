---------------------------- MODULE PipelineAbs ----------------------------
(***************************************************************************)
(* What exec_pipeline promises its caller: it returns once; when it could  *)
(* start every stage it returns after all of them have ended, with the     *)
(* exit code of the last one, or 0 if a signal ended it; when it could not *)
(* it returns 1.                                                           *)
(***************************************************************************)
EXTENDS Integers

CONSTANTS N, Code

Stage == 1 .. N
Unended == -2      \* a stage that has not started or is running
Signalled == -1    \* a stage that a signal ended
Pending == -1      \* exec_pipeline has not returned

VARIABLES
    outcome,   \* how each stage ended
    result     \* what exec_pipeline returned

Init ==
    /\ outcome = [s \in Stage |-> Unended]
    /\ result = Pending

StageEnds(s) ==
    /\ outcome[s] = Unended
    /\ \E c \in Code \cup {1, Signalled} : outcome' = [outcome EXCEPT ![s] = c]
    /\ UNCHANGED result

Return ==
    /\ result = Pending
    /\ \A s \in Stage : outcome[s] # Unended
    /\ result' = IF outcome[N] = Signalled THEN 0 ELSE outcome[N]
    /\ UNCHANGED outcome

Fail ==
    /\ result = Pending
    /\ \E s \in Stage : outcome[s] = Unended
    /\ result' = 1
    /\ UNCHANGED outcome

Next == (\E s \in Stage : StageEnds(s)) \/ Return \/ Fail

Spec == Init /\ [][Next]_<<outcome, result>>

=============================================================================
