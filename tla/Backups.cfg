SPECIFICATION Spec
CONSTANTS
    Assets = {a1}
    Nights = 4
    WeekLength = 2
    KeepDaily = 1
    KeepWeekly = 2
    StaleDays = 2
    MaxFaults = 1
    MaxRestores = 1
    Nothing = Nothing
    Foreign = Foreign
INVARIANTS ArchiveHoldsItsPictures RetentionKeeps HealthIsHonest
PROPERTIES RestoreComesRight
CHECK_DEADLOCK FALSE
