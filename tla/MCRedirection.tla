--------------------------- MODULE MCRedirection ---------------------------
EXTENDS Redirection, FiniteSets, SequencesExt

CONSTANTS f, d, tty, script, ChainLen

MCPath == {f, d}
MCLocked == {d}
MCInherited == {tty, script}
MCCode == {0, 1, 3}
MCStdNb == {-1, 0, 1, 2, 9}
MCHighNb == {-1, 3, 4, 5}
MCChain == BoundedSeq(Redir, ChainLen)

(* Tables with every number in a set open: none above 2, the script file,  *)
(* and so many that saving, opening or both fail.                          *)
MCBoot ==
    {[n \in 0 .. NFd - 1 |-> IF n < 3 THEN tty
                             ELSE IF n \in open THEN script ELSE Closed] :
        open \in {{}, {3}, {3, 5}, 3 .. NFd - 2, 3 .. NFd - 1}}

=============================================================================
