\* Two workers of one address, days of three hours, a crash.
CONSTANTS
    v = v
    w = w
    a = a
    None = None
    Workers = {v, w}
    AddressOf <- OneAddress
    Calendars <- BothCalendars
    Hours = 3
    MonthDays = 3
    Grace = 1
    Criteria = 2
    LastDay = 5
    MaxIncidents = 3
SYMMETRY WorkerSymmetry
SPECIFICATION Spec
INVARIANTS TypeOK AwardedOnce OnlyEventDays EveryDayDrawn EveryHourDrawn WinnerWasThere
