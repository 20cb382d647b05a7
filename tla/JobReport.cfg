CONSTANTS
    Files = {1, 2, 3}
    Kept = {1, 2}
    Hash <- MCHash
    Policies <- MCPolicies
    NotifierLists <- MCNotifierLists
    Canon <- MCCanon
    Tokens = {"NOTIFY_PULSAR_TOKEN"}
    MaxBody = 1
    MaxJobs = 2
SPECIFICATION FairSpec
INVARIANTS
    CompleteRowIsTrue
    StatsNeverOverstate
    EachIsTried
    AnnouncedIsRecorded
    SimulationLeavesNoTrace
PROPERTIES
    ReportEnds
CHECK_DEADLOCK FALSE
