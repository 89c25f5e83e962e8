CONSTANTS
    Lines <- MCLines
    Sent <- MCSent
    Chars <- MCChars
    OtherForms <- MCOtherForms
SPECIFICATION FairSpec
CHECK_DEADLOCK FALSE
INVARIANTS
    DecodeTypeOK
    DecodesWhatWasSent
    LongReportsDecode
PROPERTIES
    OutsideDecidesNothing
    DecodeEnds
