SPECIFICATION RotationSpec
CONSTANTS
    Writers = {w1, w2}
    MaxTime = 11
    DayOf <- Days
    WeekOf <- Weeks
    KeepHourly = 1
    KeepDaily = 2
    KeepWeekly = 2
SYMMETRY WriterSymmetry
INVARIANTS DaysRecoverable WeeksRecoverable LatestKept
PROPERTIES FolderBounded
