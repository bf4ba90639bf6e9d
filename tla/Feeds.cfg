SPECIFICATION Spec
CONSTANTS
    TTL <- Ttls
    CallLen = 1
    ReconcileLen = 1
    MaxSignalAge = 1
    Calendars <- CalendarFiles
    MaxEdits = 2
    MaxTime = 4
INVARIANTS
    CalendarInForce
PROPERTIES
    AnswersYoung
    EntryDataBounded
    BlackoutHolds
CHECK_DEADLOCK FALSE
