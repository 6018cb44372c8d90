\* Three kinds of campaign, one client, and everything that may end them.
SPECIFICATION FairSpec
CONSTANTS
    Clients = {c1}
    MaxAwaits = 2
    Seeds = 1
    MaxIterations = 2
    MaxIdle = 1
    MaxExtra = 1
    Modes <- MCModes
INVARIANTS
    OneTurn
    StopIsPrompt
    StatusIsHonest
    WaitersExact
PROPERTIES
    ReportIsFinal
    StopIsObeyed
    CallersAreAnswered
\* A campaign ends, and nobody may call any more.
CHECK_DEADLOCK FALSE
