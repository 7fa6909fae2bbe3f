------------------------------- MODULE Clock -------------------------------
(***************************************************************************)
(* The time that the processes of the system read from their clocks: one   *)
(* true time, and clocks that may lag behind it by Skew ticks.  External   *)
(* to the code, which compares and stores what a clock says.               *)
(***************************************************************************)
EXTENDS Naturals

CONSTANTS
    Skew,       \* how far the clocks of two processes may differ
    MaxNow      \* bound: the time

ASSUME ClockAssumption == Skew \in Nat /\ MaxNow \in Nat

VARIABLE now    \* the time

\* Time passes.
Passes == now < MaxNow /\ now' = now + 1
=============================================================================
