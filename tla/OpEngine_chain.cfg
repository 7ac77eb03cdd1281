SPECIFICATION Spec
CONSTANTS
    Resources = {r1}
    Kinds = {"executor.command"}
    Policies <- MCChainPolicies
    Keys = {k1}
    NoKey = NoKey
    Workers = {w1}
    NoOp = NoOp
    MaxOps = 6
    MaxSubmissions = 2
    MaxCalls = 2
    MaxBackoff = 2
    MaxFaults = 1
INVARIANTS RetryExactlyWhenDue OrphansAreRefusedWrites AuditTellsStatus
