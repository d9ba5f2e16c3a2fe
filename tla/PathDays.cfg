SPECIFICATION ProgressSpec
CONSTANTS
    DAILY_GOAL_TARGET = 2
    MILESTONES <- ShortMilestones
    Fifty = 2
    Window = 3
    DayHours = 2
    MonthDays = 3
    Offsets <- EastAndWest
    MaxHour = 5
    MaxPerHour = 2
INVARIANT
    PathCountsLikeSummary
