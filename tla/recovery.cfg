CONSTANTS
    backup = backup
    restore = restore
    operator = operator
    opt = opt
    user = user
    NoExec = NoExec
    a = a
    b = b
    Order <- MCOrder
    Dedicated = {restore}
    Probing = {backup}
    Execs = {opt, user}
    Scoped = {opt}
    Targets = {"systemd", "windows", "none"}
    Projects = {a, b}
    Configurations = {{a}, {a, b}}
    Jobs = {backup, restore, operator}
    MaxVersion = 1
    MaxFaults = 2
    MaxMishaps = 1
    MaxRuns = 2
    Wrongs = {"drift"}
    MaxEdits = 1
SPECIFICATION MCSpec
INVARIANTS TypeOK ScheduleReportsAreTrue
PROPERTIES ProductionIsSafe BackupIsTrue RestoreIsTrue RetryConverges
CHECK_DEADLOCK FALSE
