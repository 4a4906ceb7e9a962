----------------------- MODULE MCAutomationScheduler -----------------------
(* A report and an alert, two schedulers that claim one row at a time. *)
EXTENDS AutomationScheduler

CONSTANTS report, alert, old, new
=============================================================================
