SPECIFICATION SleepSpec
CONSTANTS
    NS_IN_1_MSEC = 3
    MS_IN_1_SEC = 4
    MaxMs = 9
    MaxSecs = 2
    MaxNsec = 26
    MaxValue = 50
    MaxSignals = 1
    Asks = {TRUE, FALSE}
PROPERTY
    SleepEnds
