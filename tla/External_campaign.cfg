\* One campaign of two generations, and what may go wrong around it.
SPECIFICATION FairSpec
CONSTANTS
    i1 = i1
    i2 = i2
    Inputs <- MCInputs
    NoInput = NoInput
    SupervisedRuns = 2
    MaxIterations = 1
    RestartBudget = 1
    JournalRecords = 2
    EventLimit = 3
    Finding = i1
    ReproduceRuns = 2
    MaxBoots = 2
    Scenarios <- MCScenarios
INVARIANTS
    ExecutionIsAuthorized
    VerdictsMatchHistory
    PoisonRunsOnce
    CrashIsHonest
    AbandonedIsJudged
PROPERTIES
    ReplacedWhenReaped
    CampaignEnds
\* A campaign ends, and nobody may start another one.
CHECK_DEADLOCK FALSE
