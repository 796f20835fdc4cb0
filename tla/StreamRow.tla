------------------------------ MODULE StreamRow ------------------------------
(***************************************************************************)
(* What the rows of a streamed version promise to whoever reads them, the  *)
(* client through a query and the service itself after a restart: a status *)
(* that moves only along the life of an install, a record point that never *)
(* claims a byte the system installer has not dealt with, and a success    *)
(* only for a package that was dealt with whole.  The promise is given up  *)
(* once two attempts are mixed up.  StreamInstall implements this.         *)
(***************************************************************************)
EXTENDS Integers

CONSTANT Size       \* the bytes of the package

VARIABLES status,   \* of the task's row, "none" once it is deleted
          point,    \* recordPoint of the component's row
          dealt,    \* the bytes of the package the installer has dealt with
          mixed     \* two attempts are mixed up

vars == <<status, point, dealt, mixed>>

Init == status = "CHECK_VERSION_SUCCESS" /\ point = 0 /\ dealt = 0 /\ mixed = FALSE

Begin ==
    /\ status \notin {"none", "INSTALLING"}
    /\ status' = "INSTALLING"
    /\ UNCHANGED <<point, dealt, mixed>>

\* The installer never goes back.
Deal ==
    /\ dealt' \in dealt + 1 .. Size
    /\ UNCHANGED <<status, point, mixed>>

\* A report of the installer is counted.  The count may be lost, or overflow,
\* and then the next attempt repeats bytes; it is never ahead.
Count ==
    /\ mixed \/ point' <= dealt
    /\ UNCHANGED <<status, dealt, mixed>>

Succeed ==
    /\ status = "INSTALLING" /\ status' = "INSTALL_SUCCESS"
    /\ dealt = Size \/ mixed
    /\ UNCHANGED <<point, dealt, mixed>>

\* A pause or a failure keeps the point; a failure is then cleared with it.
Stop ==
    /\ status = "INSTALLING" /\ status' \in {"INSTALL_PAUSE", "INSTALL_FAIL"}
    /\ UNCHANGED <<point, dealt, mixed>>

Clear ==
    /\ status = "INSTALL_FAIL" /\ status' = "none"
    /\ point' = 0
    /\ UNCHANGED <<dealt, mixed>>

MixUp == mixed' /\ UNCHANGED <<status, dealt>>

Next == Begin \/ Deal \/ Count \/ Succeed \/ Stop \/ Clear \/ MixUp

Spec == Init /\ [][Next]_vars
=============================================================================
