SPECIFICATION OneASecondSpec
CONSTANTS
    Writers = {w1, w2}
    MaxTime = 5
    DayOf <- Days
    WeekOf <- Weeks
    KeepHourly = 1
    KeepDaily = 1
    KeepWeekly = 0
    SecondOf <- Seconds
    NoFile = NoFile
SYMMETRY WriterSymmetry
INVARIANTS ReportedIsKept
