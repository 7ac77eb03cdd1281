SPECIFICATION FairSpec
CONSTANTS
    Resources = {r1, r2}
    Kinds = {"runtime"}
    Policies <- MCPolicies
    Keys = {}
    NoKey = NoKey
    Workers = {w1}
    NoOp = NoOp
    MaxOps = 4
    MaxSubmissions = 2
    MaxCalls = 1
    MaxBackoff = 1
    MaxFaults = 0
PROPERTIES EveryOperationEnds
