CONSTANTS
    north = north
    south = south
    Stations <- MCStations
    Readings <- MCReadings
    MaxAge = 2
SPECIFICATION Spec
INVARIANTS
    AggregatorTypeOK
    MeanWithinReports
    DewPointBelowTemperature
PROPERTY ImplementsWeatherFeed
