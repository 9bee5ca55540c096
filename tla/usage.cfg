CONSTANTS
    Ifaces = {e1}
    SlotsPerHour = 2
    Lookback = 4
    Retention = 6
    ReadingGap = 2
    FaultSets <- MCFaultSets
    MaxTime <- MCMaxTime
    MaxBytes = 1
    MaxReboots = 1
    HoursPerDay = 2
    DaysPerMonth = 2
    DayLookback = 6
    PeriodFaults <- MCPeriodFaults
    MaxHours <- MCMaxHours
    MaxUsage = 1
SPECIFICATION BothSpec
INVARIANTS NeverOverCounts PeriodsAgree
PROPERTIES HoursKept WholePeriods
CHECK_DEADLOCK FALSE
