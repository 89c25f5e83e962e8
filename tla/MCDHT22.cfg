CONSTANTS
    Bits = 2
    BadValue = 5
SPECIFICATION PollSpec
INVARIANTS
    DHT22TypeOK
    ShowsTheLastGoodFrame
