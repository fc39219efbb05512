---------------------------- MODULE Descriptors ----------------------------
(***************************************************************************)
(* The descriptor table of a POSIX process, as exec.c uses it: open takes  *)
(* the lowest free number, dup2 replaces a number in use, close on a free  *)
(* number fails and changes nothing.  The kernel is not part of the        *)
(* repository: these operators stand for the calls exec.c makes.           *)
(***************************************************************************)
EXTENDS Integers

CONSTANTS
    NFd,      \* RLIMIT_NOFILE: descriptors are 0 .. NFd - 1
    Closed    \* what the table holds at a free number

ASSUME NFdAssumption == NFd \in Nat /\ NFd >= 3

Fd == 0 .. NFd - 1
Std == 0 .. 2
NoFd == -1                       \* what a failing call returns

(* A table is a function from Fd to the objects descriptors refer to. *)
Free(t) == {d \in Fd : t[d] = Closed}

Lowest(t) ==
    IF Free(t) = {} THEN NoFd
    ELSE CHOOSE d \in Free(t) : \A e \in Free(t) : d <= e

(* open(2), successful: the number returned is Lowest of the table before. *)
OpenFd(t, object) == [t EXCEPT ![Lowest(t)] = object]

(* dup(2): fails when d is not open (EBADF) or the table is full (EMFILE). *)
DupFd(t, d) == IF t[d] = Closed THEN NoFd ELSE Lowest(t)
Dup(t, d) == IF DupFd(t, d) = NoFd THEN t ELSE OpenFd(t, t[d])

(* dup2(2): fails (EBADF) when d is not open or e is not a descriptor. *)
Dup2(t, d, e) ==
    IF d \in Fd /\ e \in Fd /\ t[d] # Closed
    THEN [t EXCEPT ![e] = t[d]]
    ELSE t

Close(t, d) == IF d \in Fd THEN [t EXCEPT ![d] = Closed] ELSE t

=============================================================================
