------------------------------- MODULE Tables -------------------------------
(***************************************************************************)
(* What the rows and the lists of MM2 speak of: users and seconds.         *)
(***************************************************************************)
EXTENDS Integers, FiniteSets

CONSTANTS
  Users,
  MaxTime,  \* bound of the model: the last second
  None

Times == 0..MaxTime

=============================================================================
