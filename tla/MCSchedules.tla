---------------------------- MODULE MCSchedules -----------------------------
(* Instances of Schedules for TLC.                                          *)
EXTENDS Schedules

SameTarget == [s \in Ids |-> "job"]

=============================================================================
