CONSTANTS
    north = north
    south = south
    Stations <- MCTwoStations
    Readings <- MCReadings
    MaxAge = 1
    Fds <- MCFds
    MaxWait = 1
    CycleRate = 2
    InfluxConfigured = TRUE
    InfluxRepeats = FALSE
SPECIFICATION Spec
INVARIANTS
    AprsWxTypeOK
    CallsInOrder
    SessionsAreClosed
    PublishesFreshReports
PROPERTIES
    ReportsSurviveSessions
