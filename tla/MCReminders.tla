----------------------------- MODULE MCReminders -----------------------------
(* One person with two dated steps, one on each scale, through a week.     *)
EXTENDS Reminders, TLC

CONSTANTS u1, declare, expertise

MCOwner    == [s \in {declare, expertise} |-> u1]
MCScale    == (declare :> {3, 1}) @@ (expertise :> {2})
MCDuration == (declare :> 1) @@ (expertise :> 2)
=============================================================================
