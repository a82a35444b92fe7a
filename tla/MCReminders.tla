---------------------------- MODULE MCReminders ----------------------------
(* A small instance of Reminders.  The shortest back-off is below the      *)
(* lease and the longest is not, as in the code (60 s, 300 s, ... and      *)
(* 300 s).  A behaviour has crashes only, or every fault.                  *)
EXTENDS Reminders

MCBackoff      == <<1, 2>>
MCEnvironments == {{}, AllFaults}

\* With every fault, two of them happen to one reminder, or one while one replaces
\* another.  (What must happen in the end is about the other environment.)
Bounded == env # {} /\ crashes > 1 => \E r \in Reminders : row[r] = "none" /\ edit[r] = "none"
=============================================================================
