--------------------------- MODULE MCApiBackends ---------------------------
(***************************************************************************)
(* The instance of ApiBackends that TLC checks.                            *)
(***************************************************************************)
EXTENDS ApiBackends

\* The handles of every family stray.
AllFamilies == Family

\* Two slots for every family.
TwoSlots == [f \in Family |-> 2]
===========================================================================
