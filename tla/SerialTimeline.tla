--------------------------- MODULE SerialTimeline ---------------------------
(***************************************************************************)
(* What GPUCommandManager promises of the GPU: the GPUCommandContextGroups *)
(* it is given are executed one at a time, in the order in which they were *)
(* submitted.  Groups are named by that order, from 1.                     *)
(***************************************************************************)
EXTENDS Naturals

VARIABLES submitted,   \* how many groups have been submitted
          retired,     \* how many have been executed to their end
          active       \* whether the next one is being executed

Init == submitted = 0 /\ retired = 0 /\ active = FALSE

Submit == /\ submitted' = submitted + 1
          /\ UNCHANGED <<retired, active>>

Begin == /\ retired < submitted
         /\ ~active
         /\ active' = TRUE
         /\ UNCHANGED <<submitted, retired>>

End == /\ active
       /\ retired' = retired + 1
       /\ active' = FALSE
       /\ UNCHANGED submitted

Spec == Init /\ [][Submit \/ Begin \/ End]_<<submitted, retired, active>>
=============================================================================
