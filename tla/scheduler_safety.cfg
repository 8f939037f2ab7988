\* Three days, the first before the app was installed; one user run,
\* every fault, restarts.
CONSTANTS
    None = None
    LastDay = 3
    StartDay = 2
    WorkDays = {1, 2}
    CatchUpDays = 2
    UserRuns = {u1}
    MayFail = {"scan", "request", "record", "save", "restart"}
SPECIFICATION Spec
PROPERTIES
    TickRunsOnlyWhatIsDue
    MissedDayIsPlanned
    YesterdayGetsItsFinalPass
