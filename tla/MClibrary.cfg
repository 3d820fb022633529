SPECIFICATION LibrarySpec
CONSTANTS
    NS_IN_1_MSEC = 3
    MS_IN_1_SEC = 4
    MaxMs = 9
    MaxSecs = 2
    MaxNsec = 26
    MaxValue = 60
    MaxSignals = 2
    Asks = {TRUE, FALSE}
    Owner = "owner"
    Another = "another"
    Cores = {0, 1}
    MaskBits = {0, 1, 2}
    SetSize = 4
    Priorities = {0, 1, 100}
    Openings <- Ports
    BaudRates = {9600, 7}
    DataBits = {7, 8, 9}
    Parities = {"n", "e", "o", "x"}
    StopBits = {1, 2, 3}
    FlowControls = {"n", "s", "h", "x"}
    MaxSets = 1
    MaxQueue = 1
    QueryTexts <- SomeTexts
    MaxTable = 3
    Users = {"u1", "u2"}
    MaxQueries = 2
    Answers = {"ok", "copy", "badResponse"}
    Bytes <- SomeBytes
    MaxFile = 3
    MaxChunk = 2
    FileCharacters <- SomeCharacters
    FileTexts <- SomeFileTexts
    Noise <- SomeNoise
    MaxLines = 2
    Width = 5
    Mantissa = 3
    Characters = {0, 1, 6, 11, 16, 17}
    MaxText = 2
    MaxLength = 6
    ArgCharacters <- SomeArgCharacters
    Allowables <- SomeAllowables
    Words <- SomeWords
    Limits <- SomeLimits
    MaxWords = 3
INVARIANTS
    ValueKept
    ReadsExactly
    NothingLost
    FileCrcIsCrc
    ThreadAccounted
    AttributesAsAsked
    SettingsAsAsked
    SentAsWritten
    QueryRunsOnce
    ResultsHaveAnOwner
    ArgsFollowTheRules
    FileSaysWhatWasMeant
PROPERTIES
    NumbersSurvive
    CallsEnd
CHECK_DEADLOCK FALSE
