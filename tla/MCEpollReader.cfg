SPECIFICATION ReaderSpec
CONSTANTS
    ReadSize = 3
    Lines <- MCLines
    MaxLines = 3
    MaxFailures = 2
PROPERTIES
    EndsOnStopOnly
    StopEnds
    EndOfInputSpins
