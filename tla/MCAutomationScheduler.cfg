CONSTANTS
    report = report  alert = alert
    old = old  new = new
    Automations = {report, alert}
    Conditional = {alert}
    Schedulers = {old, new}
    Limit = 1
    MaxCalls = 1
    MaxCrashes = 1
SPECIFICATION FairSpec
INVARIANTS TypeOK EdgeTriggeredUnderLock
PROPERTIES DeletedIsNotClaimed DueIsRun
CHECK_DEADLOCK FALSE
