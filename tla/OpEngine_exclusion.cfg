SPECIFICATION Spec
CONSTANTS
    Resources = {r1, r2}
    Kinds = {"deploy"}
    Policies <- MCPolicies
    Keys = {}
    NoKey = NoKey
    Workers = {w1, w2}
    NoOp = NoOp
    MaxOps = 4
    MaxSubmissions = 2
    MaxCalls = 1
    MaxBackoff = 1
    MaxFaults = 0
SYMMETRY MCSymmetry
INVARIANTS OneIncompletePerResource LockMatchesRunning ExclusiveExecution
PROPERTIES ImplementsContract
