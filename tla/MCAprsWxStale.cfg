CONSTANTS
    north = north
    south = south
    Stations <- MCStations
    Readings <- MCWarm
    MaxAge = 1
    Fds <- MCFds
    MaxWait = 1
    CycleRate = 2
    InfluxConfigured = TRUE
    InfluxRepeats = TRUE
SPECIFICATION Spec
INVARIANT PublishesFreshReports
