SPECIFICATION FairSpec
CONSTANTS
    Schedules = {s1}
    Resources = {r1}
    Kinds = {"executor.command"}
    Rules <- MCRules
    Period = 2
    Threshold = 1
    FallbackPoll = 1
    MaxMoments = 9
    None = None
    Horizon = 4
    MaxCalls = 1
INVARIANTS OneOperationPerMoment NoMomentLost RunsTheLatestMoment
PROPERTIES DeletedStaysSilent DueMomentsAreHandled
